---------------------------- MODULE OnePartProofs ----------------------------
(***************************************************************************)
(* Theorems about the parts of OnePart: the watching of a folder           *)
(* (FolderWatch) for every number of changes and faults, what people hold  *)
(* (Holdings) for every set of people, of accounts and every number of     *)
(* grants, the levels kept beside the objects (Levels) for every set of    *)
(* objects, values and writers, what arrives by upload and by mail         *)
(* (Arrivals) for every number of files and messages, and tags and their   *)
(* review (TagReview) for every set of files, of values and of reviewers;  *)
(* and about the lock of the database's directory (DataLock) for every set *)
(* of processes.                                                           *)
(***************************************************************************)
EXTENDS OnePart, Integers, FiniteSetTheorems, WellFoundedInduction, TLAPS

CONSTANTS
    Pids, MaxStarts, MaxLockEvents

VARIABLES
    path, proc, ended

Lock == INSTANCE DataLock WITH events <- ended, MaxEvents <- MaxLockEvents

-----------------------------------------------------------------------------
(* The slots, by the names the parts have for them.                         *)

folder    == s1
view      == s2
watcher   == s3
debouncer == s4
news      == s5
job       == s6
server    == s7
faults    == s8
db        == s1
now       == s2
signer    == s3
known     == s4
holds     == s5
data      == s1
txn       == s2
plan      == s3
owed      == s4
touched   == s5
begun     == s6
member    == s1
granted   == s2
zone      == s3
files     == s4
box       == s5
upload    == s6
run       == s7
tries     == s8
bounds    == s9
base      == s1
named     == s2
asks      == s3

USE DEF folder, view, watcher, debouncer, news, job, server, faults, db,
        now, signer, known, holds, data, txn, plan, owed, touched, begun,
        member, granted, zone, files, box, upload, run, tries, bounds,
        base, named, asks

-----------------------------------------------------------------------------
(* Every set of numbers that isn't empty has a least.                       *)

LEMMA LeastIs ==
    ASSUME NEW S, S \subseteq Nat, S /= {}
    PROVE  \E n \in S : \A m \in S : n <= m
<1>1. IsWellFoundedOn(OpToRel(<, Nat), Nat)
  BY NatLessThanWellFounded
<1>2. PICK n \in S : \A m \in S : ~(<<m, n>> \in OpToRel(<, Nat))
  BY <1>1, WFMin, Zenon
<1>3. \A m \in S : m \in Nat /\ (~(m < n) => n <= m)
  OBVIOUS
<1>4. \A m \in S : ~(m < n)
  BY <1>2 DEF OpToRel
<1> QED BY <1>3, <1>4

-----------------------------------------------------------------------------
(* The watch of a folder.  NeverForgotten is not inductive: a timer, an     *)
(* event or a burst kept for later stands for a change only while there is  *)
(* a watcher, or one to come, that will take it up.                         *)

\* What is recorded of the folder is of a moment that was.
OfThePast ==
    /\ folder.id <= folder.ver /\ watcher.id <= folder.id
    /\ view.indexed <= folder.ver /\ view.owed <= folder.ver
    /\ view.left <= folder.ver /\ debouncer.from <= folder.ver
    /\ job.running <= folder.ver

\* A server that is up watches or will try again; no other has a watch.
SomeoneWatches ==
    /\ server = "up" => watcher.on \/ watcher.retry
    /\ server /= "up" =>
          ~news /\ watcher = Watch!NoWatch /\ debouncer = Watch!Quiet
    /\ news => watcher.on
    /\ debouncer.again => debouncer.phase /= "none"
    /\ debouncer.phase = "stat" => watcher.on

\* That the folder was replaced is still to be found.
ReplacedIsSeen ==
    watcher.on /\ watcher.id /= folder.id =>
        news \/ debouncer.timer \/ debouncer.again \/ debouncer.phase = "stat"

WatchInv ==
    /\ Watch!TypeOK
    /\ OfThePast
    /\ SomeoneWatches
    /\ ReplacedIsSeen
    /\ Watch!NeverForgotten

Bounds == MaxChanges \in Nat /\ MaxFaults \in Nat

-----------------------------------------------------------------------------
(* What the operators of the watch return.                                  *)

Watchers == [on : BOOLEAN, id : 0..MaxChanges, ready : BOOLEAN,
             again : BOOLEAN, retry : BOOLEAN]
Debouncers == [timer : BOOLEAN, again : BOOLEAN, from : 0..MaxChanges,
               phase : {"none", "stat", "stale", "request", "answer"}]
Jobs == [waiting : BOOLEAN, running : -1..MaxChanges, stopped : BOOLEAN]
Views == [indexed : 0..MaxChanges, owed : 0..MaxChanges, left : 0..MaxChanges]
Folders == [ver : 0..MaxChanges, id : 0..MaxChanges, there : BOOLEAN]

LEMMA SetDebouncer ==
    ASSUME NEW d \in Debouncers, NEW b \in BOOLEAN
    PROVE  /\ LET p == [d EXCEPT !.timer = b] IN
              /\ p \in Debouncers /\ p.timer = b /\ p.again = d.again
              /\ p.phase = d.phase /\ p.from = d.from
           /\ LET p == [d EXCEPT !.again = b] IN
              /\ p \in Debouncers /\ p.again = b /\ p.timer = d.timer
              /\ p.phase = d.phase /\ p.from = d.from
  BY SMT DEF Debouncers

Phases == {"none", "stat", "stale", "request", "answer"}

LEMMA SetPhase ==
    ASSUME NEW d \in Debouncers, NEW ph \in Phases
    PROVE  LET p == [d EXCEPT !.phase = ph] IN
           /\ p \in Debouncers /\ p.phase = ph /\ p.timer = d.timer
           /\ p.again = d.again /\ p.from = d.from
  BY SMT DEF Debouncers, Phases

LEMMA SetFrom ==
    ASSUME NEW d \in Debouncers, NEW v \in 0..MaxChanges
    PROVE  LET p == [d EXCEPT !.from = v] IN
           /\ p \in Debouncers /\ p.from = v /\ p.timer = d.timer
           /\ p.again = d.again /\ p.phase = d.phase
  BY SMT DEF Debouncers

LEMMA SetJob ==
    ASSUME NEW j \in Jobs, NEW b \in BOOLEAN
    PROVE  /\ LET p == [j EXCEPT !.waiting = b] IN
              /\ p \in Jobs /\ p.waiting = b /\ p.running = j.running
              /\ p.stopped = j.stopped
           /\ LET p == [j EXCEPT !.stopped = b] IN
              /\ p \in Jobs /\ p.stopped = b /\ p.running = j.running
              /\ p.waiting = j.waiting
  BY SMT DEF Jobs

LEMMA SetReady ==
    ASSUME NEW w \in Watchers, NEW b \in BOOLEAN
    PROVE  LET p == [w EXCEPT !.ready = b] IN
           /\ p \in Watchers /\ p.ready = b /\ p.on = w.on
           /\ p.id = w.id /\ p.again = w.again /\ p.retry = w.retry
  BY SMT DEF Watchers

LEMMA QuietIs ==
    ASSUME Bounds
    PROVE  /\ Watch!Quiet \in Debouncers
           /\ ~Watch!Quiet.timer /\ Watch!Quiet.phase = "none"
           /\ ~Watch!Quiet.again /\ Watch!Quiet.from = 0
  BY SMT DEF Bounds, Watch!Quiet, Debouncers

LEMMA NoWatchIs ==
    ASSUME Bounds
    PROVE  /\ Watch!NoWatch \in Watchers /\ Watch!Failed \in Watchers
           /\ ~Watch!NoWatch.on /\ ~Watch!NoWatch.retry
           /\ Watch!NoWatch.id = 0
           /\ ~Watch!Failed.on /\ Watch!Failed.retry
           /\ Watch!Failed.id = 0
<1>1. /\ Watch!NoWatch \in Watchers /\ ~Watch!NoWatch.on
      /\ ~Watch!NoWatch.retry /\ Watch!NoWatch.id = 0
  BY SMT DEF Bounds, Watch!NoWatch, Watchers
<1>2. ASSUME NEW w \in Watchers, NEW b \in BOOLEAN
      PROVE  LET p == [w EXCEPT !.retry = b] IN
             /\ p \in Watchers /\ p.retry = b /\ p.on = w.on /\ p.id = w.id
  BY SMT DEF Watchers
<1> QED BY <1>1, <1>2, Zenon DEF Watch!Failed

LEMMA WatchingIs ==
    ASSUME folder \in Folders, NEW a \in BOOLEAN
    PROVE  LET w == Watch!Watching(a) IN
           /\ w \in Watchers
           /\ w.on /\ w.id = folder.id /\ ~w.ready /\ w.again = a /\ ~w.retry
  BY SMT DEF Watch!Watching, Watchers, Folders

LEMMA PokedIs ==
    ASSUME NEW d \in Debouncers
    PROVE  LET p == Watch!Poked(d) IN
           /\ p \in Debouncers /\ p.timer
           /\ p.phase = d.phase /\ p.again = d.again /\ p.from = d.from
  BY SetDebouncer, Zenon DEF Watch!Poked

LEMMA OrphanedIs ==
    ASSUME NEW d \in Debouncers
    PROVE  LET p == Watch!Orphaned(d) IN
           /\ p \in Debouncers /\ p.timer = d.timer /\ p.again = d.again
           /\ p.phase = IF d.phase = "stat" THEN "stale" ELSE d.phase
           /\ p.from = d.from
  BY SMT DEF Watch!Orphaned, Debouncers

LEMMA DueIs ==
    ASSUME Bounds, folder \in Folders, NEW d \in Debouncers, NEW w
    PROVE  LET p == Watch!Due(d, w) IN
           /\ p \in Debouncers /\ ~p.timer
           /\ d.phase /= "none" =>
                p.again /\ p.phase = d.phase /\ p.from = d.from
           /\ d.phase = "none" =>
                /\ ~p.again /\ p.from = folder.ver
                /\ w.on => p.phase = "stat"
                /\ ~w.on => p.phase = "none"
<1>1. CASE d.phase /= "none"
  <2>1. PICK e : e = [d EXCEPT !.timer = FALSE]
    OBVIOUS
  <2>2. /\ e \in Debouncers /\ ~e.timer /\ e.phase = d.phase
        /\ e.from = d.from
    BY <2>1, SetDebouncer, Zenon
  <2>3. Watch!Due(d, w) = [e EXCEPT !.again = TRUE]
    BY <1>1, <2>1, Zenon DEF Watch!Due
  <2>4. LET p == [e EXCEPT !.again = TRUE] IN
        /\ p \in Debouncers /\ p.again /\ p.timer = e.timer
        /\ p.phase = e.phase /\ p.from = e.from
    BY <2>2, SetDebouncer, Zenon
  <2> QED BY <1>1, <2>2, <2>3, <2>4, Zenon
<1>2. CASE d.phase = "none"
  <2>1. PICK ph \in {"stat", "none"} :
           (w.on => ph = "stat") /\ (~w.on => ph = "none")
    OBVIOUS
  <2>2. ph = IF w.on THEN "stat" ELSE "none"
    BY <2>1, Zenon
  <2>3. PICK q : q = [Watch!Quiet EXCEPT !.phase = ph]
    OBVIOUS
  <2>4. q \in Debouncers /\ ~q.timer /\ ~q.again /\ q.phase = ph
    <3>1. ph \in Phases
      BY <2>1 DEF Phases
    <3> QED BY <2>3, <3>1, QuietIs, SetPhase, Zenon
  <2>5. Watch!Due(d, w) = [q EXCEPT !.from = folder.ver]
    BY <1>2, <2>2, <2>3, Zenon DEF Watch!Due
  <2>6. folder.ver \in 0..MaxChanges
    BY DEF Folders
  <2>7. LET p == [q EXCEPT !.from = folder.ver] IN
        /\ p \in Debouncers /\ p.from = folder.ver /\ p.timer = q.timer
        /\ p.again = q.again /\ p.phase = q.phase
    BY <2>4, <2>6, SetFrom, Zenon
  <2> QED BY <1>2, <2>1, <2>4, <2>5, <2>7
<1> QED BY <1>1, <1>2

LEMMA SettledIs ==
    ASSUME Bounds, folder \in Folders, NEW d \in Debouncers, NEW w
    PROVE  LET p == Watch!Settled(d, w) IN
           /\ p \in Debouncers
           /\ d.again =>
                /\ ~p.again /\ p.from = folder.ver /\ ~p.timer
                /\ w.on => p.phase = "stat"
                /\ ~w.on => p.phase = "none"
           /\ ~d.again =>
                /\ ~p.again /\ p.phase = "none" /\ p.timer = d.timer
                /\ p.from = d.from
<1>1. PICK e : e = [d EXCEPT !.phase = "none"]
  OBVIOUS
<1>2. /\ e \in Debouncers /\ e.phase = "none" /\ e.again = d.again
      /\ e.timer = d.timer /\ e.from = d.from
  BY <1>1, SMT DEF Debouncers
<1>3. PICK f : f = [e EXCEPT !.again = FALSE]
  OBVIOUS
<1>4. f \in Debouncers /\ f.phase = "none"
  BY <1>2, <1>3, SetDebouncer, Zenon
<1>5. f = [d EXCEPT !.phase = "none", !.again = FALSE]
  BY <1>1, <1>3
<1>6. CASE d.again
  BY <1>4, <1>5, <1>6, DueIs DEF Watch!Settled
<1>7. CASE ~d.again
  BY <1>1, <1>2, <1>7 DEF Watch!Settled
<1> QED BY <1>6, <1>7 DEF Debouncers

LEMMA SentIs ==
    ASSUME NEW j \in Jobs
    PROVE  /\ Watch!Sent(j) \in Jobs /\ Watch!Sent(j).waiting
           /\ Watch!Sent(j).running = j.running
  BY SetJob, Zenon DEF Watch!Sent

LEMMA EndedIs ==
    ASSUME Bounds, NEW j \in Jobs
    PROVE  /\ Watch!Ended(j) \in Jobs
           /\ Watch!Ended(j).waiting = j.waiting
           /\ Watch!Ended(j).running = -1
  BY SMT DEF Watch!Ended, Watch!NotRunning, Jobs, Bounds

LEMMA BeganIs ==
    ASSUME folder \in Folders, NEW j \in Jobs
    PROVE  /\ Watch!Began(j) \in Jobs
           /\ Watch!Began(j).running = folder.ver
<1>1. PICK k : k = [j EXCEPT !.waiting = FALSE]
  OBVIOUS
<1>2. k \in Jobs
  BY <1>1, SetJob, Zenon
<1>3. Watch!Began(j) = [k EXCEPT !.running = folder.ver]
  BY <1>1 DEF Watch!Began
<1> QED BY <1>2, <1>3, SMT DEF Jobs, Folders

LEMMA TypedWatch ==
    Watch!TypeOK <=>
      /\ folder \in Folders /\ view \in Views /\ watcher \in Watchers
      /\ debouncer \in Debouncers /\ news \in BOOLEAN /\ job \in Jobs
      /\ server \in {"down", "jobs", "up"} /\ faults \in 0..MaxFaults
  BY Zenon DEF Watch!TypeOK, Watch!NotRunning, Folders, Views, Watchers,
     Debouncers, Jobs

LEMMA TypedWatchNext ==
    Watch!TypeOK' <=>
      /\ folder' \in Folders /\ view' \in Views /\ watcher' \in Watchers
      /\ debouncer' \in Debouncers /\ news' \in BOOLEAN /\ job' \in Jobs
      /\ server' \in {"down", "jobs", "up"} /\ faults' \in 0..MaxFaults
  BY Zenon DEF Watch!TypeOK, Watch!NotRunning, Folders, Views, Watchers,
     Debouncers, Jobs

\* What the invariant says besides the types.
Rest == OfThePast /\ SomeoneWatches /\ ReplacedIsSeen /\ Watch!NeverForgotten

-----------------------------------------------------------------------------
(* One step, one lemma.                                                     *)

LEMMA TimerFiresKeeps ==
    ASSUME Bounds, WatchInv, Watch!TimerFires
    PROVE  WatchInv'
<1>. USE DEF Bounds
<1>0. /\ folder \in Folders /\ view \in Views /\ watcher \in Watchers
      /\ debouncer \in Debouncers /\ news \in BOOLEAN /\ job \in Jobs
      /\ server \in {"down", "jobs", "up"} /\ faults \in 0..MaxFaults
      /\ Rest
  BY TypedWatch DEF WatchInv, Rest
<1>1. debouncer.timer /\ debouncer' = Watch!Due(debouncer, watcher)
      /\ UNCHANGED <<folder, view, watcher, news, job, server, faults>>
  BY DEF Watch!TimerFires
<1>2. /\ debouncer' \in Debouncers /\ ~debouncer'.timer
      /\ debouncer.phase /= "none" =>
           /\ debouncer'.again /\ debouncer'.phase = debouncer.phase
           /\ debouncer'.from = debouncer.from
      /\ debouncer.phase = "none" =>
           /\ ~debouncer'.again /\ debouncer'.from = folder.ver
           /\ watcher.on => debouncer'.phase = "stat"
           /\ ~watcher.on => debouncer'.phase = "none"
  BY <1>0, <1>1, DueIs, Zenon
<1>3. Watch!TypeOK'
  BY <1>0, <1>1, <1>2, TypedWatchNext, Zenon
<1>4. OfThePast'
  BY <1>0, <1>1, <1>2 DEF Rest, OfThePast, Debouncers, Folders
<1>5. SomeoneWatches'
  BY <1>0, <1>1, <1>2, QuietIs DEF Rest, SomeoneWatches
<1>6. ReplacedIsSeen'
  BY <1>0, <1>1, <1>2 DEF Rest, ReplacedIsSeen
<1>7. Watch!NeverForgotten'
  BY <1>0, <1>1, <1>2, QuietIs DEF Rest, Watch!NeverForgotten,
       Watch!Pending, OfThePast, SomeoneWatches, Folders, Watchers, Views,
       Jobs, Debouncers
<1> QED BY <1>3, <1>4, <1>5, <1>6, <1>7 DEF WatchInv

LEMMA StatAnswersKeeps ==
    ASSUME Bounds, WatchInv, Watch!StatAnswers
    PROVE  WatchInv'
<1>0. /\ folder \in Folders /\ view \in Views /\ watcher \in Watchers
      /\ debouncer \in Debouncers /\ news \in BOOLEAN /\ job \in Jobs
      /\ server \in {"down", "jobs", "up"} /\ faults \in 0..MaxFaults
      /\ Rest
  BY TypedWatch DEF WatchInv, Rest
<1>1. UNCHANGED <<folder, view, job, server, faults>>
  BY DEF Watch!StatAnswers
<1>2. CASE /\ watcher' = watcher /\ news' = news
           /\ debouncer.phase = "stale"
           /\ debouncer' = Watch!Settled(debouncer, watcher)
  <2>1. /\ debouncer' \in Debouncers
        /\ debouncer.again =>
             /\ ~debouncer'.again /\ debouncer'.from = folder.ver
             /\ watcher.on => debouncer'.phase = "stat"
             /\ ~watcher.on => debouncer'.phase = "none"
        /\ ~debouncer.again =>
             /\ ~debouncer'.again /\ debouncer'.phase = "none"
             /\ debouncer'.timer = debouncer.timer
             /\ debouncer'.from = debouncer.from
    BY <1>0, <1>2, SettledIs, Zenon
  <2>3. Watch!TypeOK'
    BY <1>0, <1>1, <1>2, <2>1, TypedWatchNext, Zenon
  <2>4. OfThePast'
    BY <1>0, <1>1, <1>2, <2>1 DEF Rest, OfThePast, Debouncers, Folders
  <2>5. SomeoneWatches'
    BY <1>0, <1>1, <1>2, <2>1, QuietIs DEF Rest, SomeoneWatches
  <2>6. ReplacedIsSeen'
    BY <1>0, <1>1, <1>2, <2>1 DEF Rest, ReplacedIsSeen
  <2>7. Watch!NeverForgotten'
    BY <1>0, <1>1, <1>2, <2>1, QuietIs DEF Rest, Watch!NeverForgotten,
         Watch!Pending, OfThePast, SomeoneWatches, Folders, Watchers, Views,
         Jobs, Debouncers
  <2> QED BY <2>3, <2>4, <2>5, <2>6, <2>7 DEF WatchInv
<1>3. CASE /\ watcher' = watcher /\ news' = news
           /\ debouncer.phase = "stat" /\ watcher.id = folder.id
           /\ debouncer' = [debouncer EXCEPT !.phase = "request"]
  <2>1. /\ debouncer' \in Debouncers /\ debouncer'.phase = "request"
        /\ debouncer'.again = debouncer.again
        /\ debouncer'.timer = debouncer.timer
        /\ debouncer'.from = debouncer.from
    BY <1>0, <1>3, SetPhase, Zenon DEF Phases
  <2>3. Watch!TypeOK'
    BY <1>0, <1>1, <1>3, <2>1, TypedWatchNext, Zenon
  <2>4. OfThePast'
    BY <1>0, <1>1, <1>3, <2>1 DEF Rest, OfThePast, Debouncers, Folders
  <2>5. SomeoneWatches'
    BY <1>0, <1>1, <1>3, <2>1, QuietIs DEF Rest, SomeoneWatches
  <2>6. ReplacedIsSeen'
    BY <1>0, <1>1, <1>3, <2>1 DEF Rest, ReplacedIsSeen
  <2>7. Watch!NeverForgotten'
    BY <1>0, <1>1, <1>3, <2>1, QuietIs DEF Rest, Watch!NeverForgotten,
         Watch!Pending, OfThePast, SomeoneWatches, Folders, Watchers, Views,
         Jobs, Debouncers
  <2> QED BY <2>3, <2>4, <2>5, <2>6, <2>7 DEF WatchInv
<1>4. ASSUME NEW w \in Watchers, watcher' = w, w /= watcher, news' = FALSE,
             \/ ~w.on /\ w.retry /\ w.id = 0
             \/ w.on /\ w.again /\ ~w.ready /\ w.id = folder.id,
             debouncer.phase = "stat",
             debouncer' = Watch!Settled(debouncer, w)
      PROVE  WatchInv'
  <2>1. /\ debouncer' \in Debouncers
        /\ debouncer.again =>
             /\ ~debouncer'.again /\ debouncer'.from = folder.ver
             /\ w.on => debouncer'.phase = "stat"
             /\ ~w.on => debouncer'.phase = "none"
        /\ ~debouncer.again =>
             /\ ~debouncer'.again /\ debouncer'.phase = "none"
             /\ debouncer'.timer = debouncer.timer
             /\ debouncer'.from = debouncer.from
    BY <1>0, <1>4, SettledIs, Zenon
  <2>2. server = "up"
    BY <1>0, <1>4, QuietIs DEF Rest, SomeoneWatches
  <2>3. Watch!TypeOK'
    BY <1>0, <1>1, <1>4, <2>1, TypedWatchNext, Zenon
  <2>4. OfThePast'
    BY <1>0, <1>1, <1>4, <2>1 DEF Rest, OfThePast, Debouncers, Folders
  <2>5. SomeoneWatches'
    BY <1>0, <1>1, <1>4, <2>1, <2>2 DEF Rest, SomeoneWatches
  <2>6. ReplacedIsSeen'
    BY <1>0, <1>1, <1>4, <2>1 DEF Rest, ReplacedIsSeen
  <2>7. Watch!NeverForgotten'
    BY <1>0, <1>1, <1>4, <2>1 DEF Watch!NeverForgotten, Watch!Pending
  <2> QED BY <2>3, <2>4, <2>5, <2>6, <2>7 DEF WatchInv
<1>5. PICK f : f = Watch!Found
  OBVIOUS
<1>6. \/ f = watcher /\ watcher.id = folder.id
      \/ /\ f \in Watchers
         /\ \/ ~f.on /\ f.retry /\ f.id = 0
            \/ f.on /\ f.again /\ ~f.ready /\ f.id = folder.id
  BY <1>0, <1>5, NoWatchIs, WatchingIs, Zenon DEF Watch!Found
<1>7. CASE debouncer.phase = "stale"
  BY <1>2, <1>7 DEF Watch!StatAnswers
<1>8. CASE debouncer.phase = "stat" /\ f = watcher /\ watcher.id = folder.id
  <2>1. watcher' = watcher /\ news' = news
        /\ debouncer' = [debouncer EXCEPT !.phase = "request"]
    BY <1>0, <1>5, <1>8, Zenon DEF Watch!StatAnswers
  <2> QED BY <2>1, <1>3, <1>8
<1>9. CASE debouncer.phase = "stat" /\ f /= watcher
  <2>1. watcher' = f /\ news' = FALSE
        /\ debouncer' = Watch!Settled(debouncer, f)
    BY <1>0, <1>5, <1>9, Zenon DEF Watch!StatAnswers
  <2> QED BY <2>1, <1>4, <1>6, <1>9
<1>10. debouncer.phase = "stat" /\ f = watcher => watcher.id = folder.id
  <2>1. watcher /= Watch!Failed \/ ~watcher.on
    BY NoWatchIs, Zenon
  <2>2. debouncer.phase = "stat" => watcher.on
    BY <1>0 DEF Rest, SomeoneWatches
  <2> QED BY <1>0, <1>5, <2>1, <2>2, WatchingIs, Zenon DEF Watch!Found
<1> QED BY <1>7, <1>8, <1>9, <1>10 DEF Watch!StatAnswers

LEMMA EventKeeps ==
    ASSUME Bounds, WatchInv, Watch!Event
    PROVE  WatchInv'
<1>0. /\ folder \in Folders /\ view \in Views /\ watcher \in Watchers
      /\ debouncer \in Debouncers /\ news \in BOOLEAN /\ job \in Jobs
      /\ server \in {"down", "jobs", "up"} /\ faults \in 0..MaxFaults
      /\ Rest
  BY TypedWatch DEF WatchInv, Rest
<1>1. news /\ news' = FALSE
      /\ UNCHANGED <<folder, view, watcher, job, server, faults>>
  BY DEF Watch!Event
<1>2. /\ debouncer' \in Debouncers /\ debouncer'.phase = debouncer.phase
      /\ debouncer'.again = debouncer.again
      /\ debouncer'.from = debouncer.from
      /\ watcher.on => debouncer'.timer
  BY <1>0, PokedIs, Zenon DEF Watch!Event
<1>3. watcher.on
  BY <1>0, <1>1 DEF Rest, SomeoneWatches
<1>4. Watch!TypeOK'
  BY <1>0, <1>1, <1>2, <1>3, TypedWatchNext, Zenon
<1>5. Rest'
  BY <1>0, <1>1, <1>2, <1>3, QuietIs, NoWatchIs DEF Rest, OfThePast,
       SomeoneWatches,
     ReplacedIsSeen, Watch!NeverForgotten, Watch!Pending, Folders, Views,
     Watchers, Debouncers, Jobs
<1> QED BY <1>4, <1>5 DEF WatchInv, Rest

LEMMA RequestedKeeps ==
    ASSUME Bounds, WatchInv, Watch!Requested
    PROVE  WatchInv'
<1>0. /\ folder \in Folders /\ view \in Views /\ watcher \in Watchers
      /\ debouncer \in Debouncers /\ news \in BOOLEAN /\ job \in Jobs
      /\ server \in {"down", "jobs", "up"} /\ faults \in 0..MaxFaults
      /\ Rest
  BY TypedWatch DEF WatchInv, Rest
<1>1. debouncer.phase = "request"
      /\ UNCHANGED <<folder, view, watcher, news, server, faults>>
  BY DEF Watch!Requested
<1>2. /\ debouncer' \in Debouncers /\ debouncer'.phase = "answer"
      /\ debouncer'.again = debouncer.again
      /\ debouncer'.timer = debouncer.timer
      /\ debouncer'.from = debouncer.from
  BY <1>0, SetPhase, Zenon DEF Watch!Requested, Phases
<1>3. job' \in Jobs /\ job'.waiting /\ job'.running = job.running
  BY <1>0, SentIs, Zenon DEF Watch!Requested
<1>4. Watch!TypeOK'
  BY <1>0, <1>1, <1>2, <1>3, TypedWatchNext, Zenon
<1>5. Rest'
  BY <1>0, <1>1, <1>2, <1>3, QuietIs, NoWatchIs DEF Rest, OfThePast,
       SomeoneWatches,
     ReplacedIsSeen, Watch!NeverForgotten, Watch!Pending, Folders, Views,
     Watchers, Debouncers, Jobs
<1> QED BY <1>4, <1>5 DEF WatchInv, Rest

LEMMA AnsweredKeeps ==
    ASSUME Bounds, WatchInv, Watch!Answered
    PROVE  WatchInv'
<1>0. /\ folder \in Folders /\ view \in Views /\ watcher \in Watchers
      /\ debouncer \in Debouncers /\ news \in BOOLEAN /\ job \in Jobs
      /\ server \in {"down", "jobs", "up"} /\ faults \in 0..MaxFaults
      /\ Rest
  BY TypedWatch DEF WatchInv, Rest
<1>1. debouncer.phase = "answer"
      /\ UNCHANGED <<folder, view, watcher, news, job, server, faults>>
  BY DEF Watch!Answered
<1>2. /\ debouncer' \in Debouncers
      /\ debouncer.again =>
           /\ ~debouncer'.again /\ debouncer'.from = folder.ver
           /\ watcher.on => debouncer'.phase = "stat"
           /\ ~watcher.on => debouncer'.phase = "none"
      /\ ~debouncer.again =>
           /\ ~debouncer'.again /\ debouncer'.phase = "none"
           /\ debouncer'.timer = debouncer.timer
           /\ debouncer'.from = debouncer.from
  BY <1>0, SettledIs, Zenon DEF Watch!Answered
<1>3. Watch!TypeOK'
  BY <1>0, <1>1, <1>2, TypedWatchNext, Zenon
<1>4. Rest'
  BY <1>0, <1>1, <1>2, QuietIs, NoWatchIs DEF Rest, OfThePast, SomeoneWatches,
     ReplacedIsSeen, Watch!NeverForgotten, Watch!Pending, Folders, Views,
     Watchers, Debouncers, Jobs
<1> QED BY <1>3, <1>4 DEF WatchInv, Rest

LEMMA RequestFailsKeeps ==
    ASSUME Bounds, WatchInv, Watch!RequestFails
    PROVE  WatchInv'
<1>0. /\ folder \in Folders /\ view \in Views /\ watcher \in Watchers
      /\ debouncer \in Debouncers /\ news \in BOOLEAN /\ job \in Jobs
      /\ server \in {"down", "jobs", "up"} /\ faults \in 0..MaxFaults
      /\ Rest
  BY TypedWatch DEF WatchInv, Rest
<1>1. debouncer.phase = "request"
      /\ UNCHANGED <<folder, watcher, news, job, server>>
  BY DEF Watch!RequestFails
<1>2. faults' \in 0..MaxFaults
  BY <1>0, SMT DEF Watch!RequestFails, Watch!Fault, Bounds
<1>3. /\ debouncer' \in Debouncers
      /\ debouncer.again =>
           /\ ~debouncer'.again /\ debouncer'.from = folder.ver
           /\ watcher.on => debouncer'.phase = "stat"
           /\ ~watcher.on => debouncer'.phase = "none"
      /\ ~debouncer.again =>
           /\ ~debouncer'.again /\ debouncer'.phase = "none"
           /\ debouncer'.timer = debouncer.timer
           /\ debouncer'.from = debouncer.from
  BY <1>0, SettledIs, Zenon DEF Watch!RequestFails
<1>4. /\ view' \in Views /\ view'.indexed = view.indexed
      /\ view'.owed = view.owed
      /\ view'.left = Watch!Later(view.left, debouncer.from)
  BY <1>0, SMT DEF Watch!RequestFails, Views, Debouncers, Watch!Later
<1>5. view'.left >= view.left /\ view'.left >= debouncer.from
      /\ view'.left <= folder.ver
  BY <1>0, <1>4, SMT DEF Watch!Later, Views, Debouncers, Folders, Rest,
     OfThePast
<1>6. Watch!TypeOK'
  BY <1>0, <1>1, <1>2, <1>3, <1>4, <1>5, TypedWatchNext, Zenon
<1>7. Rest'
  BY <1>0, <1>1, <1>2, <1>3, <1>4, <1>5, QuietIs, NoWatchIs DEF Rest,
       OfThePast, SomeoneWatches,
     ReplacedIsSeen, Watch!NeverForgotten, Watch!Pending, Folders, Views,
     Watchers, Debouncers, Jobs
<1> QED BY <1>6, <1>7 DEF WatchInv, Rest

LEMMA ReadyKeeps ==
    ASSUME Bounds, WatchInv, Watch!Ready
    PROVE  WatchInv'
<1>0. /\ folder \in Folders /\ view \in Views /\ watcher \in Watchers
      /\ debouncer \in Debouncers /\ news \in BOOLEAN /\ job \in Jobs
      /\ server \in {"down", "jobs", "up"} /\ faults \in 0..MaxFaults
      /\ Rest
  BY TypedWatch DEF WatchInv, Rest
<1>1. watcher.on /\ ~watcher.ready
      /\ UNCHANGED <<folder, view, news, job, server, faults>>
  BY DEF Watch!Ready
<1>2. /\ watcher' \in Watchers /\ watcher'.ready /\ watcher'.on = watcher.on
      /\ watcher'.id = watcher.id /\ watcher'.again = watcher.again
      /\ watcher'.retry = watcher.retry
  BY <1>0, SetReady, Zenon DEF Watch!Ready
<1>3. /\ debouncer' \in Debouncers /\ debouncer'.phase = debouncer.phase
      /\ debouncer'.again = debouncer.again
      /\ debouncer'.from = debouncer.from
      /\ watcher.again => debouncer'.timer
      /\ ~watcher.again => debouncer' = debouncer
  BY <1>0, PokedIs, Zenon DEF Watch!Ready, Watch!OnReady
<1>4. server = "up"
  BY <1>0, <1>1, NoWatchIs DEF Rest, SomeoneWatches
<1>5. Watch!TypeOK'
  BY <1>0, <1>1, <1>2, <1>3, <1>4, TypedWatchNext, Zenon
<1>6. Rest'
  BY <1>0, <1>1, <1>2, <1>3, <1>4, QuietIs, NoWatchIs DEF Rest, OfThePast,
       SomeoneWatches,
     ReplacedIsSeen, Watch!NeverForgotten, Watch!Pending, Folders, Views,
     Watchers, Debouncers, Jobs
<1> QED BY <1>5, <1>6 DEF WatchInv, Rest

LEMMA WatchFailsKeeps ==
    ASSUME Bounds, WatchInv, Watch!WatchFails
    PROVE  WatchInv'
<1>0. /\ folder \in Folders /\ view \in Views /\ watcher \in Watchers
      /\ debouncer \in Debouncers /\ news \in BOOLEAN /\ job \in Jobs
      /\ server \in {"down", "jobs", "up"} /\ faults \in 0..MaxFaults
      /\ Rest
  BY TypedWatch DEF WatchInv, Rest
<1>1. watcher.on /\ news' = FALSE
      /\ UNCHANGED <<folder, view, job, server>>
  BY DEF Watch!WatchFails
<1>2. faults' \in 0..MaxFaults
  BY <1>0, SMT DEF Watch!WatchFails, Watch!Fault, Bounds
<1>3. /\ watcher' \in Watchers /\ ~watcher'.on /\ watcher'.retry
      /\ watcher'.id = 0
  BY <1>0, NoWatchIs, Zenon DEF Watch!WatchFails
<1>4. /\ debouncer' \in Debouncers /\ debouncer'.timer = debouncer.timer
      /\ debouncer'.again = debouncer.again
      /\ debouncer'.phase =
           IF debouncer.phase = "stat" THEN "stale" ELSE debouncer.phase
      /\ debouncer'.from = debouncer.from
  BY <1>0, OrphanedIs, Zenon DEF Watch!WatchFails
<1>5. server = "up"
  BY <1>0, <1>1, NoWatchIs DEF Rest, SomeoneWatches
<1>6. Watch!TypeOK'
  BY <1>0, <1>1, <1>2, <1>3, <1>4, <1>5, TypedWatchNext, Zenon
<1>7. Rest'
  BY <1>0, <1>1, <1>2, <1>3, <1>4, <1>5, QuietIs, NoWatchIs DEF Rest,
       OfThePast, SomeoneWatches,
     ReplacedIsSeen, Watch!NeverForgotten, Watch!Pending, Folders, Views,
     Watchers, Debouncers, Jobs
<1> QED BY <1>6, <1>7 DEF WatchInv, Rest

LEMMA RetriedKeeps ==
    ASSUME Bounds, WatchInv, Watch!Retried
    PROVE  WatchInv'
<1>0. /\ folder \in Folders /\ view \in Views /\ watcher \in Watchers
      /\ debouncer \in Debouncers /\ news \in BOOLEAN /\ job \in Jobs
      /\ server \in {"down", "jobs", "up"} /\ faults \in 0..MaxFaults
      /\ Rest
  BY TypedWatch DEF WatchInv, Rest
<1>1. watcher.retry
      /\ UNCHANGED <<folder, view, debouncer, news, job, server, faults>>
  BY DEF Watch!Retried
<1>2. /\ watcher' \in Watchers /\ watcher'.on /\ watcher'.id = folder.id
      /\ ~watcher'.ready /\ watcher'.again
  BY <1>0, WatchingIs, Zenon DEF Watch!Retried
<1>3. server = "up"
  BY <1>0, <1>1, NoWatchIs DEF Rest, SomeoneWatches
<1>4. Watch!TypeOK'
  BY <1>0, <1>1, <1>2, <1>3, TypedWatchNext, Zenon
<1>5. Rest'
  BY <1>0, <1>1, <1>2, <1>3, QuietIs, NoWatchIs DEF Rest, OfThePast,
       SomeoneWatches,
     ReplacedIsSeen, Watch!NeverForgotten, Watch!Pending, Folders, Views,
     Watchers, Debouncers, Jobs
<1> QED BY <1>4, <1>5 DEF WatchInv, Rest

LEMMA RunBeginsKeeps ==
    ASSUME Bounds, WatchInv, Watch!RunBegins
    PROVE  WatchInv'
<1>0. /\ folder \in Folders /\ view \in Views /\ watcher \in Watchers
      /\ debouncer \in Debouncers /\ news \in BOOLEAN /\ job \in Jobs
      /\ server \in {"down", "jobs", "up"} /\ faults \in 0..MaxFaults
      /\ Rest
  BY TypedWatch DEF WatchInv, Rest
<1>1. UNCHANGED <<folder, view, watcher, debouncer, news, server, faults>>
  BY DEF Watch!RunBegins
<1>2. job' \in Jobs /\ job'.running = folder.ver
  BY <1>0, BeganIs, Zenon DEF Watch!RunBegins
<1>3. Watch!TypeOK'
  BY <1>0, <1>1, <1>2, TypedWatchNext, Zenon
<1>4. Rest'
  BY <1>0, <1>1, <1>2, QuietIs, NoWatchIs DEF Rest, OfThePast, SomeoneWatches,
     ReplacedIsSeen, Watch!NeverForgotten, Watch!Pending, Folders, Views,
     Watchers, Debouncers, Jobs
<1> QED BY <1>3, <1>4 DEF WatchInv, Rest

LEMMA RunIsDoneKeeps ==
    ASSUME Bounds, WatchInv, Watch!RunIsDone
    PROVE  WatchInv'
<1>0. /\ folder \in Folders /\ view \in Views /\ watcher \in Watchers
      /\ debouncer \in Debouncers /\ news \in BOOLEAN /\ job \in Jobs
      /\ server \in {"down", "jobs", "up"} /\ faults \in 0..MaxFaults
      /\ Rest
  BY TypedWatch DEF WatchInv, Rest
<1>1. job.running /= -1
      /\ UNCHANGED <<folder, watcher, debouncer, news, server, faults>>
  BY DEF Watch!RunIsDone, Watch!NotRunning
<1>2. /\ job' \in Jobs /\ job'.waiting = job.waiting /\ job'.running = -1
  BY <1>0, EndedIs, Zenon DEF Watch!RunIsDone
<1>3. /\ view' \in Views /\ view'.owed = view.owed /\ view'.left = view.left
      /\ view'.indexed = Watch!Later(view.indexed, job.running)
  BY <1>0, <1>1, SMT DEF Watch!RunIsDone, Views, Jobs, Watch!Later
<1>4. /\ view'.indexed >= view.indexed /\ view'.indexed >= job.running
      /\ view'.indexed <= folder.ver
  BY <1>0, <1>3, SMT DEF Watch!Later, Views, Jobs, Folders, Rest, OfThePast
<1>5. Watch!TypeOK'
  BY <1>0, <1>1, <1>2, <1>3, <1>4, TypedWatchNext, Zenon
<1>6. Rest'
  BY <1>0, <1>1, <1>2, <1>3, <1>4, QuietIs, NoWatchIs DEF Rest, OfThePast,
       SomeoneWatches,
     ReplacedIsSeen, Watch!NeverForgotten, Watch!Pending, Folders, Views,
     Watchers, Debouncers, Jobs
<1> QED BY <1>5, <1>6 DEF WatchInv, Rest

LEMMA RunGoesOnKeeps ==
    ASSUME Bounds, WatchInv, Watch!RunGoesOn
    PROVE  WatchInv'
<1>0. /\ folder \in Folders /\ view \in Views /\ watcher \in Watchers
      /\ debouncer \in Debouncers /\ news \in BOOLEAN /\ job \in Jobs
      /\ server \in {"down", "jobs", "up"} /\ faults \in 0..MaxFaults
      /\ Rest
  BY TypedWatch DEF WatchInv, Rest
<1>1. UNCHANGED <<folder, view, watcher, debouncer, news, server>>
  BY DEF Watch!RunGoesOn
<1>2. faults' \in 0..MaxFaults
  BY <1>0, SMT DEF Watch!RunGoesOn, Watch!Fault, Bounds
<1>3. PICK e : e = Watch!Ended(job)
  OBVIOUS
<1>4. e \in Jobs /\ e.running = -1
  BY <1>0, <1>3, EndedIs, Zenon
<1>5. /\ job' \in Jobs /\ job'.waiting /\ job'.running = -1
  BY <1>3, <1>4, SentIs, Zenon DEF Watch!RunGoesOn
<1>6. Watch!TypeOK'
  BY <1>0, <1>1, <1>2, <1>3, <1>4, <1>5, TypedWatchNext, Zenon
<1>7. Rest'
  BY <1>0, <1>1, <1>2, <1>3, <1>4, <1>5, QuietIs, NoWatchIs DEF Rest,
       OfThePast, SomeoneWatches,
     ReplacedIsSeen, Watch!NeverForgotten, Watch!Pending, Folders, Views,
     Watchers, Debouncers, Jobs
<1> QED BY <1>6, <1>7 DEF WatchInv, Rest

LEMMA RunLeavesKeeps ==
    ASSUME Bounds, WatchInv, Watch!RunLeaves
    PROVE  WatchInv'
<1>0. /\ folder \in Folders /\ view \in Views /\ watcher \in Watchers
      /\ debouncer \in Debouncers /\ news \in BOOLEAN /\ job \in Jobs
      /\ server \in {"down", "jobs", "up"} /\ faults \in 0..MaxFaults
      /\ Rest
  BY TypedWatch DEF WatchInv, Rest
<1>1. job.running /= -1
      /\ UNCHANGED <<folder, watcher, debouncer, news, server>>
  BY DEF Watch!RunLeaves, Watch!NotRunning
<1>2. faults' \in 0..MaxFaults
  BY <1>0, SMT DEF Watch!RunLeaves, Watch!Fault, Bounds
<1>3. PICK e : e = Watch!Ended(job)
  OBVIOUS
<1>4. e \in Jobs /\ e.running = -1 /\ e.waiting = job.waiting
  BY <1>0, <1>3, EndedIs, Zenon
<1>5. job' = e \/ job' = [e EXCEPT !.stopped = TRUE]
  BY <1>3, Zenon DEF Watch!RunLeaves
<1>6. LET p == [e EXCEPT !.stopped = TRUE] IN
      p \in Jobs /\ p.running = e.running /\ p.waiting = e.waiting
  BY <1>4, SetJob, Zenon
<1>7. /\ job' \in Jobs /\ job'.waiting = job.waiting /\ job'.running = -1
  BY <1>4, <1>5, <1>6, Zenon
<1>8. /\ view' \in Views /\ view'.owed = view.owed
      /\ view'.indexed = view.indexed
      /\ view'.left = Watch!Later(view.left, job.running)
  BY <1>0, <1>1, SMT DEF Watch!RunLeaves, Views, Jobs, Watch!Later
<1>9. /\ view'.left >= view.left /\ view'.left >= job.running
      /\ view'.left <= folder.ver
  BY <1>0, <1>8, SMT DEF Watch!Later, Views, Jobs, Folders, Rest, OfThePast
<1>10. Watch!TypeOK'
  BY <1>0, <1>1, <1>2, <1>3, <1>4, <1>5, <1>6, <1>7, <1>8, <1>9,
       TypedWatchNext, Zenon
<1>11. Rest'
  BY <1>0, <1>1, <1>2, <1>3, <1>4, <1>5, <1>6, <1>7, <1>8, <1>9, QuietIs,
       NoWatchIs DEF Rest, OfThePast, SomeoneWatches,
     ReplacedIsSeen, Watch!NeverForgotten, Watch!Pending, Folders, Views,
     Watchers, Debouncers, Jobs
<1> QED BY <1>10, <1>11 DEF WatchInv, Rest

LEMMA ResumeKeeps ==
    ASSUME Bounds, WatchInv, Watch!Resume
    PROVE  WatchInv'
<1>0. /\ folder \in Folders /\ view \in Views /\ watcher \in Watchers
      /\ debouncer \in Debouncers /\ news \in BOOLEAN /\ job \in Jobs
      /\ server \in {"down", "jobs", "up"} /\ faults \in 0..MaxFaults
      /\ Rest
  BY TypedWatch DEF WatchInv, Rest
<1>1. UNCHANGED <<folder, view, watcher, debouncer, news, server, faults>>
  BY DEF Watch!Resume
<1>2. /\ job' \in Jobs /\ job'.waiting = job.waiting
      /\ job'.running = job.running
  BY <1>0, SetJob, Zenon DEF Watch!Resume
<1>3. Watch!TypeOK'
  BY <1>0, <1>1, <1>2, TypedWatchNext, Zenon
<1>4. Rest'
  BY <1>0, <1>1, <1>2, QuietIs, NoWatchIs DEF Rest, OfThePast, SomeoneWatches,
     ReplacedIsSeen, Watch!NeverForgotten, Watch!Pending, Folders, Views,
     Watchers, Debouncers, Jobs
<1> QED BY <1>3, <1>4 DEF WatchInv, Rest

LEMMA ScheduledKeeps ==
    ASSUME Bounds, WatchInv, Watch!Scheduled
    PROVE  WatchInv'
<1>0. /\ folder \in Folders /\ view \in Views /\ watcher \in Watchers
      /\ debouncer \in Debouncers /\ news \in BOOLEAN /\ job \in Jobs
      /\ server \in {"down", "jobs", "up"} /\ faults \in 0..MaxFaults
      /\ Rest
  BY TypedWatch DEF WatchInv, Rest
<1>1. UNCHANGED <<folder, view, watcher, debouncer, news, server, faults>>
  BY DEF Watch!Scheduled
<1>2. job' \in Jobs /\ job'.waiting /\ job'.running = job.running
  BY <1>0, SentIs, Zenon DEF Watch!Scheduled
<1>3. Watch!TypeOK'
  BY <1>0, <1>1, <1>2, TypedWatchNext, Zenon
<1>4. Rest'
  BY <1>0, <1>1, <1>2, QuietIs, NoWatchIs DEF Rest, OfThePast, SomeoneWatches,
     ReplacedIsSeen, Watch!NeverForgotten, Watch!Pending, Folders, Views,
     Watchers, Debouncers, Jobs
<1> QED BY <1>3, <1>4 DEF WatchInv, Rest

LEMMA StartKeeps ==
    ASSUME Bounds, WatchInv, Watch!Start
    PROVE  WatchInv'
<1>0. /\ folder \in Folders /\ view \in Views /\ watcher \in Watchers
      /\ debouncer \in Debouncers /\ news \in BOOLEAN /\ job \in Jobs
      /\ server \in {"down", "jobs", "up"} /\ faults \in 0..MaxFaults
      /\ Rest
  BY TypedWatch DEF WatchInv, Rest
<1>1. server = "down" /\ server' = "jobs"
      /\ UNCHANGED <<folder, view, watcher, debouncer, news, faults>>
  BY DEF Watch!Start
<1>2. job' \in Jobs /\ job'.waiting /\ job'.running = job.running
  BY <1>0, SentIs, Zenon DEF Watch!Start
<1>3. Watch!TypeOK'
  BY <1>0, <1>1, <1>2, TypedWatchNext, Zenon
<1>4. Rest'
  BY <1>0, <1>1, <1>2, QuietIs, NoWatchIs DEF Rest, OfThePast, SomeoneWatches,
     ReplacedIsSeen, Watch!NeverForgotten, Watch!Pending, Folders, Views,
     Watchers, Debouncers, Jobs
<1> QED BY <1>3, <1>4 DEF WatchInv, Rest

LEMMA WatchKeeps ==
    ASSUME Bounds, WatchInv, Watch!Watch
    PROVE  WatchInv'
<1>0. /\ folder \in Folders /\ view \in Views /\ watcher \in Watchers
      /\ debouncer \in Debouncers /\ news \in BOOLEAN /\ job \in Jobs
      /\ server \in {"down", "jobs", "up"} /\ faults \in 0..MaxFaults
      /\ Rest
  BY TypedWatch DEF WatchInv, Rest
<1>1. server = "jobs" /\ server' = "up"
      /\ UNCHANGED <<folder, view, debouncer, news, job, faults>>
  BY DEF Watch!Watch
<1>2. /\ watcher' \in Watchers
      /\ \/ watcher'.on /\ watcher'.id = folder.id
         \/ ~watcher'.on /\ watcher'.retry /\ watcher'.id = 0
  BY <1>0, NoWatchIs, WatchingIs, Zenon DEF Watch!Watch
<1>3. ~news /\ watcher = Watch!NoWatch /\ debouncer = Watch!Quiet
  BY <1>0, <1>1 DEF Rest, SomeoneWatches
<1>4. Watch!TypeOK'
  BY <1>0, <1>1, <1>2, <1>3, TypedWatchNext, Zenon
<1>5. Rest'
  BY <1>0, <1>1, <1>2, <1>3, QuietIs, NoWatchIs DEF Rest, OfThePast,
       SomeoneWatches,
     ReplacedIsSeen, Watch!NeverForgotten, Watch!Pending, Folders, Views,
     Watchers, Debouncers, Jobs
<1> QED BY <1>4, <1>5 DEF WatchInv, Rest

LEMMA StopKeeps ==
    ASSUME Bounds, WatchInv, Watch!Stop
    PROVE  WatchInv'
<1>0. /\ folder \in Folders /\ view \in Views /\ watcher \in Watchers
      /\ debouncer \in Debouncers /\ news \in BOOLEAN /\ job \in Jobs
      /\ server \in {"down", "jobs", "up"} /\ faults \in 0..MaxFaults
      /\ Rest
  BY TypedWatch DEF WatchInv, Rest
<1>1. /\ server' = "down" /\ watcher' = Watch!NoWatch
      /\ debouncer' = Watch!Quiet /\ news' = FALSE
      /\ UNCHANGED <<folder, view>>
  BY DEF Watch!Stop
<1>2. faults' \in 0..MaxFaults
  BY <1>0, SMT DEF Watch!Stop, Watch!Fault, Bounds
<1>3. watcher' \in Watchers /\ debouncer' \in Debouncers
  BY <1>1, NoWatchIs, QuietIs, Zenon
<1>4. job' \in Jobs /\ job'.running = -1
  BY <1>0, EndedIs, SentIs, Zenon DEF Watch!Stop, Watch!NotRunning
<1>5. Watch!TypeOK'
  BY <1>0, <1>1, <1>2, <1>3, <1>4, TypedWatchNext, Zenon
<1>6. Rest'
  BY <1>0, <1>1, <1>2, <1>3, <1>4, QuietIs, NoWatchIs DEF Rest, OfThePast,
       SomeoneWatches,
     ReplacedIsSeen, Watch!NeverForgotten, Watch!Pending, Folders, Views,
     Watchers, Debouncers, Jobs
<1> QED BY <1>5, <1>6 DEF WatchInv, Rest

\* The folder changes: its watcher tells of it, or one that is to come will
\* ask for a run when it is ready, or the run of the next start reads it.
LEMMA ChangesKeeps ==
    ASSUME Bounds, WatchInv, Watch!Changes
    PROVE  WatchInv'
<1>0. /\ folder \in Folders /\ view \in Views /\ watcher \in Watchers
      /\ debouncer \in Debouncers /\ news \in BOOLEAN /\ job \in Jobs
      /\ server \in {"down", "jobs", "up"} /\ faults \in 0..MaxFaults
      /\ Rest
  BY TypedWatch DEF WatchInv, Rest
<1>1. UNCHANGED <<watcher, debouncer, job, server, faults>>
  BY DEF Watch!Changes
<1>2. PICK there \in BOOLEAN, id \in {folder.id, folder.id + 1} :
        /\ folder' = [ver |-> folder.ver + 1, id |-> id, there |-> there]
        /\ LET goes == ~there \/ id # folder.id IN
           /\ view' = IF Watch!Noticed(goes)
                      THEN [view EXCEPT !.owed = folder.ver + 1] ELSE view
           /\ news' \in IF ~watcher.on \/ watcher.id # folder.id THEN {news}
                        ELSE IF watcher.ready \/ goes THEN {TRUE}
                        ELSE {news, TRUE}
  BY Zenon DEF Watch!Changes
<1>3. /\ folder.ver \in Nat /\ folder.ver < MaxChanges
      /\ folder.id \in Nat /\ folder.id <= folder.ver
  BY <1>0, SMT DEF Bounds, Folders, Rest, OfThePast, Watch!Changes
<1>4. /\ folder' \in Folders /\ folder'.ver = folder.ver + 1
      /\ folder'.id = id /\ folder'.there = there
  BY <1>2, <1>3, SMT DEF Bounds, Folders
<1>5. /\ view' \in Views /\ view'.indexed = view.indexed
      /\ view'.left = view.left
      /\ \/ view'.owed = view.owed
         \/ /\ view'.owed = folder.ver + 1
            /\ Watch!Noticed(~there \/ id # folder.id)
  BY <1>0, <1>2, <1>3, SMT DEF Bounds, Views
<1>6. /\ news' \in BOOLEAN /\ (news => news')
      /\ ~watcher.on => news' = news
      /\ watcher.on /\ watcher.id = folder.id
           /\ (watcher.ready \/ ~there \/ id # folder.id) => news'
  BY <1>0, <1>2, Zenon
<1>7. folder.id <= folder'.id
  BY <1>2, <1>3, <1>4, SMT
<1>8. Watch!TypeOK'
  BY <1>0, <1>1, <1>2, <1>3, <1>4, <1>5, <1>6, <1>7, TypedWatchNext, Zenon
<1>9. Rest'
  BY <1>0, <1>1, <1>2, <1>3, <1>4, <1>5, <1>6, <1>7, QuietIs, NoWatchIs
       DEF Watch!Noticed, Rest, OfThePast, SomeoneWatches,
     ReplacedIsSeen, Watch!NeverForgotten, Watch!Pending, Folders, Views,
     Watchers, Debouncers, Jobs
<1> QED BY <1>8, <1>9 DEF WatchInv, Rest

-----------------------------------------------------------------------------
(* The theorems of the watch.                                               *)

LEMMA WatchInit ==
    ASSUME Bounds, Watch!Init
    PROVE  WatchInv
<1>1. /\ folder \in Folders /\ folder.ver = 0 /\ folder.id = 0
      /\ view \in Views /\ view.indexed = 0 /\ view.owed = 0 /\ view.left = 0
      /\ job \in Jobs /\ job.running = -1 /\ faults \in 0..MaxFaults
  BY SMT DEF Bounds, Watch!Init, Watch!NotRunning, Folders, Views, Jobs
<1>2. /\ watcher = Watch!NoWatch /\ debouncer = Watch!Quiet
      /\ news = FALSE /\ server = "down"
  BY DEF Watch!Init
<1>3. Watch!TypeOK
  BY <1>1, <1>2, NoWatchIs, QuietIs, TypedWatch, Zenon
<1>4. Rest
  BY <1>1, <1>2, NoWatchIs, QuietIs DEF Rest, OfThePast, SomeoneWatches,
     ReplacedIsSeen, Watch!NeverForgotten
<1> QED BY <1>3, <1>4 DEF WatchInv, Rest

LEMMA WatchStutters ==
    ASSUME WatchInv, UNCHANGED Watch!vars
    PROVE  WatchInv'
  BY DEF WatchInv, Watch!vars, Watch!TypeOK, OfThePast, SomeoneWatches,
     ReplacedIsSeen, Watch!NeverForgotten, Watch!Pending,
     Watch!NoWatch, Watch!Quiet

\* No step of the watch breaks it.
LEMMA WatchStep ==
    ASSUME Bounds, WatchInv, [Watch!Next]_(Watch!vars)
    PROVE  WatchInv'
BY WatchStutters, ChangesKeeps, EventKeeps, TimerFiresKeeps,
   StatAnswersKeeps, RequestedKeeps, AnsweredKeeps, RequestFailsKeeps,
   ReadyKeeps, WatchFailsKeeps, RetriedKeeps, RunBeginsKeeps,
   RunIsDoneKeeps, RunGoesOnKeeps, RunLeavesKeeps, ResumeKeeps,
   ScheduledKeeps, StartKeeps, WatchKeeps, StopKeeps DEF Watch!Next

-----------------------------------------------------------------------------
(* What people hold.  HoldsTheirOwn is inductive once the rows have their   *)
(* types: what is live belongs to a principal, and who signs in does so     *)
(* with an account of the provider.                                         *)

Takers == Held!People \cup {Held!Group}

Persons == [retired : BOOLEAN, locked : BOOLEAN, disabled : BOOLEAN,
            kind : {"member", "guest"}, admin : BOOLEAN,
            ext : ExtIds \cup {Held!NoId}]
Grants == [to : Takers \cup {"none"}, by : {"none", "person", "source"},
           until : 0..MaxNow, live : BOOLEAN]
Identities == [account : ExtIds, user : Held!People]
Databases == [users : [Held!People -> Persons], group : BOOLEAN,
              members : SUBSET Held!People,
              grants : [1..NumGrants -> Grants],
              identities : SUBSET Identities]

\* Whether a principal takes grants in the rows d.
Takes(d, p) == IF p = Held!Group THEN d.group ELSE ~d.users[p].retired

GrantsTaken(d) == \A g \in 1..NumGrants :
    d.grants[g].live => d.grants[g].to \in Takers /\ Takes(d, d.grants[g].to)
MembersAre(d) == \A u \in d.members : d.group /\ ~d.users[u].retired
IdentitiesAre(d) == \A i \in d.identities :
    ~d.users[i.user].retired /\ d.users[i.user].ext = i.account

\* The rows d are typed, and nobody holds in them what they should not.
Sound(d) == d \in Databases /\ GrantsTaken(d) /\ MembersAre(d)
                            /\ IdentitiesAre(d)

SignerTyped ==
    /\ signer \in [user : Held!People \cup {"none"},
                   as : ExtIds \cup {Held!NoId}]
    /\ signer.user /= "none" => signer.as \in ExtIds

Known == [ExtIds -> Held!People \cup {"unknown", "nobody"}]

HeldInv == Sound(db) /\ SignerTyped /\ known \in Known

LEMMA SoundHolds ==
    ASSUME HeldInv
    PROVE  Held!TypeOK /\ Held!HoldsTheirOwn
<1>1. db \in Databases
  BY DEF HeldInv, Sound
<1>2. /\ DOMAIN db.grants = 1..NumGrants /\ db.members \subseteq Held!People
      /\ \A g \in 1..NumGrants : db.grants[g].to \in Takers \cup {"none"}
      /\ \A u \in Held!People : db.users[u].ext \in ExtIds \cup {Held!NoId}
      /\ \A i \in db.identities : i.user \in Held!People
                                  /\ i.account \in ExtIds
  BY <1>1 DEF Databases, Grants, Persons, Identities
<1>3. Held!TypeOK
  BY <1>2, Zenon DEF Held!TypeOK, HeldInv, SignerTyped, Known, Takers
<1>4. Held!HoldsTheirOwn
  BY <1>2, Zenon DEF Held!HoldsTheirOwn, Held!NothingSurvives,
     Held!IdentityIsTheirs, Held!Grantable, HeldInv, Sound, GrantsTaken,
     MembersAre, IdentitiesAre, Takes
<1> QED BY <1>3, <1>4

-----------------------------------------------------------------------------
(* What the operators of the rows return.                                   *)

LEMMA SetGroup ==
    ASSUME NEW d \in Databases, NEW b \in BOOLEAN
    PROVE  LET e == [d EXCEPT !.group = b] IN
           /\ e \in Databases /\ e.group = b /\ e.users = d.users
           /\ e.members = d.members /\ e.grants = d.grants
           /\ e.identities = d.identities
  BY SMT DEF Databases

LEMMA SetMembers ==
    ASSUME NEW d \in Databases, NEW ms \in SUBSET Held!People
    PROVE  LET e == [d EXCEPT !.members = ms] IN
           /\ e \in Databases /\ e.members = ms /\ e.users = d.users
           /\ e.group = d.group /\ e.grants = d.grants
           /\ e.identities = d.identities
  BY SMT DEF Databases

LEMMA SetGrants ==
    ASSUME NEW d \in Databases, NEW gs \in [1..NumGrants -> Grants]
    PROVE  LET e == [d EXCEPT !.grants = gs] IN
           /\ e \in Databases /\ e.grants = gs /\ e.users = d.users
           /\ e.group = d.group /\ e.members = d.members
           /\ e.identities = d.identities
  BY SMT DEF Databases

LEMMA SetIdentities ==
    ASSUME NEW d \in Databases, NEW is \in SUBSET Identities
    PROVE  LET e == [d EXCEPT !.identities = is] IN
           /\ e \in Databases /\ e.identities = is /\ e.users = d.users
           /\ e.group = d.group /\ e.members = d.members
           /\ e.grants = d.grants
  BY SMT DEF Databases

LEMMA SetUser ==
    ASSUME NEW d \in Databases, NEW u \in Held!People, NEW x \in Persons
    PROVE  LET e == [d EXCEPT !.users[u] = x] IN
           /\ e \in Databases /\ e.users = [d.users EXCEPT ![u] = x]
           /\ e.members = d.members /\ e.group = d.group
           /\ e.grants = d.grants /\ e.identities = d.identities
  BY SMT DEF Databases

LEMMA SetPerson ==
    ASSUME NEW x \in Persons, NEW b \in BOOLEAN
    PROVE  /\ LET y == [x EXCEPT !.retired = b] IN
              y \in Persons /\ y.retired = b /\ y.ext = x.ext
           /\ LET y == [x EXCEPT !.admin = b] IN
              y \in Persons /\ y.retired = x.retired /\ y.ext = x.ext
           /\ LET y == [x EXCEPT !.locked = b] IN
              y \in Persons /\ y.retired = x.retired /\ y.ext = x.ext
           /\ LET y == [x EXCEPT !.disabled = b] IN
              y \in Persons /\ y.retired = x.retired /\ y.ext = x.ext
  BY SMT DEF Persons

LEMMA SetKindOf ==
    ASSUME NEW x \in Persons, NEW k \in {"member", "guest"}
    PROVE  LET y == [x EXCEPT !.kind = k] IN
           y \in Persons /\ y.retired = x.retired /\ y.ext = x.ext
  BY SMT DEF Persons

LEMMA SetExt ==
    ASSUME NEW x \in Persons, NEW e \in ExtIds
    PROVE  LET y == [x EXCEPT !.ext = e] IN
           y \in Persons /\ y.retired = x.retired /\ y.ext = e
  BY SMT DEF Persons

LEMMA SetLive ==
    ASSUME NEW r \in Grants, NEW b \in BOOLEAN
    PROVE  LET q == [r EXCEPT !.live = b] IN
           q \in Grants /\ q.live = b /\ q.to = r.to
  BY SMT DEF Grants

LEMMA RevokedIs ==
    ASSUME NEW d \in Databases, NEW gs
    PROVE  LET e == Held!Revoked(d, gs) IN
           /\ e \in Databases /\ e.users = d.users /\ e.group = d.group
           /\ e.members = d.members /\ e.identities = d.identities
           /\ \A g \in 1..NumGrants :
                /\ e.grants[g].to = d.grants[g].to
                /\ e.grants[g].live => d.grants[g].live /\ g \notin gs
<1>1. DOMAIN d.grants = 1..NumGrants /\ d.grants \in [1..NumGrants -> Grants]
  BY DEF Databases
<1>2. PICK rs : rs = [g \in DOMAIN d.grants |->
         IF g \in gs THEN [d.grants[g] EXCEPT !.live = FALSE] ELSE d.grants[g]]
  OBVIOUS
<1>3. ASSUME NEW g \in 1..NumGrants
      PROVE  /\ rs[g] \in Grants /\ rs[g].to = d.grants[g].to
             /\ rs[g].live => d.grants[g].live /\ g \notin gs
  <2>1. d.grants[g] \in Grants
    BY <1>1
  <2>2. rs[g] = IF g \in gs THEN [d.grants[g] EXCEPT !.live = FALSE]
                ELSE d.grants[g]
    BY <1>1, <1>2
  <2> QED BY <2>1, <2>2, SetLive, Zenon
<1>4. rs \in [1..NumGrants -> Grants]
  BY <1>1, <1>2, <1>3
<1>5. Held!Revoked(d, gs) = [d EXCEPT !.grants = rs]
  BY <1>2, Zenon DEF Held!Revoked
<1>6. LET e == [d EXCEPT !.grants = rs] IN
      /\ e \in Databases /\ e.grants = rs /\ e.users = d.users
      /\ e.group = d.group /\ e.members = d.members
      /\ e.identities = d.identities
  BY <1>4, SetGrants, Zenon
<1> QED BY <1>3, <1>5, <1>6, Zenon

-----------------------------------------------------------------------------
(* What keeps rows sound.                                                   *)

\* A person changes but for retirement and the provider's id.
LEMMA ChangeSound ==
    ASSUME Sound(db), NEW u \in Held!People, NEW x \in Persons,
           x.retired = db.users[u].retired, x.ext = db.users[u].ext
    PROVE  Sound(Held!Change(u, x))
<1>1. PICK e : e = Held!Change(u, x)
  OBVIOUS
<1>2. db \in Databases
  BY DEF Sound
<1>3. /\ e \in Databases /\ e.users = [db.users EXCEPT ![u] = x]
      /\ e.members = db.members /\ e.group = db.group
      /\ e.grants = db.grants /\ e.identities = db.identities
  BY <1>1, <1>2, SetUser, Zenon DEF Held!Change
<1>4. \A v \in Held!People : /\ e.users[v].retired = db.users[v].retired
                             /\ e.users[v].ext = db.users[v].ext
  BY <1>2, <1>3 DEF Databases
<1>5. /\ db.members \subseteq Held!People
      /\ \A i \in db.identities : i.user \in Held!People
  BY <1>2 DEF Databases, Identities
<1>6. GrantsTaken(e)
  <2>1. ASSUME NEW p \in Takers, Takes(db, p) PROVE Takes(e, p)
    BY <1>3, <1>4, <2>1, Zenon DEF Takes, Takers
  <2> QED BY <1>3, <2>1, Zenon DEF Sound, GrantsTaken
<1>7. MembersAre(e)
  BY <1>3, <1>4, <1>5, Zenon DEF Sound, MembersAre
<1>8. IdentitiesAre(e)
  BY <1>3, <1>4, <1>5, Zenon DEF Sound, IdentitiesAre
<1> QED BY <1>1, <1>3, <1>6, <1>7, <1>8 DEF Sound

LEMMA RevokedSound ==
    ASSUME NEW d, Sound(d), NEW gs
    PROVE  Sound(Held!Revoked(d, gs))
<1>1. PICK e : e = Held!Revoked(d, gs)
  OBVIOUS
<1>2. /\ e \in Databases /\ e.users = d.users /\ e.group = d.group
      /\ e.members = d.members /\ e.identities = d.identities
      /\ \A g \in 1..NumGrants :
           /\ e.grants[g].to = d.grants[g].to
           /\ e.grants[g].live => d.grants[g].live /\ g \notin gs
  <2>1. d \in Databases
    BY DEF Sound
  <2> QED BY <1>1, <2>1, RevokedIs
<1>3. GrantsTaken(e) /\ MembersAre(e) /\ IdentitiesAre(e)
  BY <1>2, Zenon DEF Sound, GrantsTaken, Takes, MembersAre, IdentitiesAre
<1> QED BY <1>1, <1>2, <1>3 DEF Sound

-----------------------------------------------------------------------------
(* One step, one lemma.                                                     *)

LEMMA WritesKeeps ==
    ASSUME HeldInv, NEW d, Held!Writes(d), Sound(d)
    PROVE  HeldInv'
<1>1. db' = d /\ UNCHANGED <<signer, known>>
  BY DEF Held!Writes
<1> QED BY <1>1 DEF HeldInv, SignerTyped, Sound, GrantsTaken, Takes,
             MembersAre, IdentitiesAre

LEMMA PersonTyped ==
    ASSUME Sound(db), NEW u \in Held!People
    PROVE  db.users[u] \in Persons
  BY DEF Sound, Databases

LEMMA PersonKeeps ==
    ASSUME HeldInv, NEW u \in Held!People,
           \/ Held!lockUser(u) \/ Held!unlockUser(u)
           \/ Held!setProviderActive(u) \/ Held!setKind(u)
           \/ Held!grantAdmin(u) \/ Held!revokeAdmin(u)
    PROVE  HeldInv'
<1>1. Sound(db)
  BY DEF HeldInv
<1>2. PICK r : r = db.users[u]
  OBVIOUS
<1>3. r \in Persons
  BY <1>1, <1>2, PersonTyped
<1>4. ASSUME NEW y \in Persons, y.retired = r.retired, y.ext = r.ext,
             Held!Writes(Held!Change(u, y))
      PROVE  HeldInv'
  <2>1. Sound(Held!Change(u, y))
    BY <1>1, <1>2, <1>4, ChangeSound, Zenon
  <2> QED BY <1>4, <2>1, WritesKeeps, Zenon
<1>5. CASE Held!lockUser(u)
  <2>1. PICK y : y = [r EXCEPT !.locked = TRUE]
    OBVIOUS
  <2>2. y \in Persons /\ y.retired = r.retired /\ y.ext = r.ext
    BY <1>3, <2>1, SetPerson, Zenon
  <2>3. Held!Writes(Held!Change(u, y))
    BY <1>2, <1>5, <2>1, Zenon DEF Held!lockUser
  <2> QED BY <1>4, <2>2, <2>3, Zenon
<1>6. CASE Held!unlockUser(u)
  <2>1. PICK y : y = [r EXCEPT !.locked = FALSE]
    OBVIOUS
  <2>2. y \in Persons /\ y.retired = r.retired /\ y.ext = r.ext
    BY <1>3, <2>1, SetPerson, Zenon
  <2>3. Held!Writes(Held!Change(u, y))
    BY <1>2, <1>6, <2>1, Zenon DEF Held!unlockUser
  <2> QED BY <1>4, <2>2, <2>3, Zenon
<1>7. CASE Held!setProviderActive(u)
  <2>1. PICK y : y = [r EXCEPT !.disabled = ~@]
    OBVIOUS
  <2>2. y \in Persons /\ y.retired = r.retired /\ y.ext = r.ext
    <3>1. PICK b \in BOOLEAN : b = ~r.disabled
      OBVIOUS
    <3>2. y = [r EXCEPT !.disabled = b]
      BY <2>1, <3>1, Zenon
    <3>3. LET q == [r EXCEPT !.disabled = b] IN
          q \in Persons /\ q.retired = r.retired /\ q.ext = r.ext
      <4>1. b \in BOOLEAN
        BY <3>1
      <4> QED BY <1>3, <4>1, SMT DEF Persons
    <3> QED BY <3>2, <3>3, Zenon
  <2>3. Held!Writes(Held!Change(u, y))
    BY <1>2, <1>7, <2>1, Zenon DEF Held!setProviderActive
  <2> QED BY <1>4, <2>2, <2>3, Zenon
<1>8. CASE Held!setKind(u)
  <2>1. PICK y : y = [r EXCEPT !.kind =
                        IF @ = "member" THEN "guest" ELSE "member"]
    OBVIOUS
  <2>2. y \in Persons /\ y.retired = r.retired /\ y.ext = r.ext
    BY <1>3, <2>1, SMT DEF Persons
  <2>3. Held!Writes(Held!Change(u, y))
    BY <1>2, <1>8, <2>1, Zenon DEF Held!setKind
  <2> QED BY <1>4, <2>2, <2>3, Zenon
<1>9. CASE Held!grantAdmin(u)
  <2>1. PICK y : y = [r EXCEPT !.admin = TRUE]
    OBVIOUS
  <2>2. y \in Persons /\ y.retired = r.retired /\ y.ext = r.ext
    BY <1>3, <2>1, SetPerson, Zenon
  <2>3. Held!Writes(Held!Change(u, y))
    BY <1>2, <1>9, <2>1, Zenon DEF Held!grantAdmin
  <2> QED BY <1>4, <2>2, <2>3, Zenon
<1>10. CASE Held!revokeAdmin(u)
  <2>1. PICK y : y = [r EXCEPT !.admin = FALSE]
    OBVIOUS
  <2>2. y \in Persons /\ y.retired = r.retired /\ y.ext = r.ext
    BY <1>3, <2>1, SetPerson, Zenon
  <2>3. Held!Writes(Held!Change(u, y))
    BY <1>2, <1>10, <2>1, Zenon DEF Held!revokeAdmin
  <2> QED BY <1>4, <2>2, <2>3, Zenon
<1> QED BY <1>5, <1>6, <1>7, <1>8, <1>9, <1>10

\* Who is retired leaves nothing: no grant, no membership, no identity.
LEMMA RetireKeeps ==
    ASSUME HeldInv, NEW u \in Held!People, Held!retireUser(u)
    PROVE  HeldInv'
<1>1. Sound(db)
  BY DEF HeldInv
<1>2. PICK gone : gone = Held!Revoked(db, Held!GrantsOf(u))
  OBVIOUS
<1>3. /\ gone \in Databases /\ gone.users = db.users /\ gone.group = db.group
      /\ gone.members = db.members /\ gone.identities = db.identities
      /\ \A g \in 1..NumGrants :
           /\ gone.grants[g].to = db.grants[g].to
           /\ gone.grants[g].live =>
                db.grants[g].live /\ g \notin Held!GrantsOf(u)
  <2>1. db \in Databases
    BY <1>1 DEF Sound
  <2> QED BY <1>2, <2>1, RevokedIs
<1>4. PICK a : a = [gone EXCEPT !.members = @ \ {u}]
  OBVIOUS
<1>5. /\ a \in Databases /\ a.users = db.users /\ a.group = db.group
      /\ a.members = db.members \ {u} /\ a.identities = db.identities
      /\ a.grants = gone.grants
  BY <1>3, <1>4, SMT DEF Databases
<1>6. PICK b : b = [a EXCEPT !.identities = {i \in @ : i.user # u}]
  OBVIOUS
<1>7. /\ b \in Databases /\ b.users = db.users /\ b.group = db.group
      /\ b.members = db.members \ {u} /\ b.grants = gone.grants
      /\ b.identities = {i \in db.identities : i.user # u}
  <2>1. {i \in db.identities : i.user # u} \in SUBSET Identities
    BY <1>5 DEF Databases
  <2>2. b = [a EXCEPT !.identities = {i \in db.identities : i.user # u}]
    BY <1>5, <1>6
  <2> QED BY <1>5, <2>1, <2>2, SetIdentities
<1>8. PICK x : x = [b.users[u] EXCEPT !.retired = TRUE]
  OBVIOUS
<1>9. x \in Persons /\ x.retired
  <2>1. b.users[u] \in Persons
    BY <1>7 DEF Databases
  <2> QED BY <1>8, <2>1, SetPerson, Zenon
<1>10. PICK c : c = [b EXCEPT !.users[u] = x]
  OBVIOUS
<1>11. /\ c \in Databases /\ c.users = [db.users EXCEPT ![u] = x]
       /\ c.group = db.group /\ c.members = db.members \ {u}
       /\ c.grants = gone.grants
       /\ c.identities = {i \in db.identities : i.user # u}
  BY <1>7, <1>9, <1>10, SetUser
<1>12. c.users[u] = x
  BY <1>3, <1>11 DEF Databases
<1>13. PICK y : y = [x EXCEPT !.admin = FALSE]
  OBVIOUS
<1>14. y \in Persons /\ y.retired
  <2>1. y \in Persons /\ y.retired = x.retired
    BY <1>9, <1>13, SetPerson, Zenon
  <2> QED BY <1>9, <2>1
<1>15. PICK d : d = [c EXCEPT !.users[u] = y]
  OBVIOUS
<1>16. /\ d \in Databases /\ d.users = [c.users EXCEPT ![u] = y]
       /\ d.group = db.group /\ d.members = db.members \ {u}
       /\ d.grants = gone.grants
       /\ d.identities = {i \in db.identities : i.user # u}
  BY <1>11, <1>14, <1>15, SetUser
<1>17. Held!Writes(d)
  <2>1. c = [b EXCEPT !.users[u].retired = TRUE]
    BY <1>8, <1>10, Zenon
  <2>2. d = [c EXCEPT !.users[u].admin = FALSE]
    BY <1>12, <1>13, <1>15, Zenon
  <2>3. d = [gone EXCEPT !.members = @ \ {u},
               !.identities = {i \in @ : i.user # u},
               !.users[u].retired = TRUE, !.users[u].admin = FALSE]
    BY <1>4, <1>6, <2>1, <2>2
  <2> QED BY <1>2, <2>3, Zenon DEF Held!retireUser
<1>18. \A v \in Held!People : v /= u => d.users[v] = db.users[v]
  BY <1>3, <1>11, <1>16 DEF Databases
<1>19. /\ db.members \subseteq Held!People
       /\ \A i \in db.identities : i.user \in Held!People
       /\ DOMAIN db.grants = 1..NumGrants
  BY <1>1 DEF Sound, Databases, Identities
<1>20. GrantsTaken(d)
  <2>1. ASSUME NEW g \in 1..NumGrants, d.grants[g].live
        PROVE  d.grants[g].to \in Takers /\ Takes(d, d.grants[g].to)
    <3>1. PICK p : p = d.grants[g].to
      OBVIOUS
    <3>2. p \in Takers /\ Takes(db, p) /\ p /= u
      <4>1. /\ db.grants[g].live /\ db.grants[g].to = p
            /\ g \notin Held!GrantsOf(u)
        BY <1>3, <1>16, <2>1, <3>1, Zenon
      <4>2. p /= u
        BY <1>19, <4>1, Zenon DEF Held!GrantsOf
      <4> QED BY <1>1, <4>1, <4>2 DEF Sound, GrantsTaken
    <3>3. Takes(d, p)
      BY <1>16, <1>18, <3>2, Zenon DEF Takes, Takers
    <3> QED BY <3>1, <3>2, <3>3
  <2> QED BY <2>1 DEF GrantsTaken
<1>21. MembersAre(d)
  BY <1>1, <1>16, <1>18, <1>19 DEF Sound, MembersAre
<1>22. IdentitiesAre(d)
  BY <1>1, <1>16, <1>18, <1>19 DEF Sound, IdentitiesAre
<1> QED BY <1>16, <1>17, <1>20, <1>21, <1>22, WritesKeeps, Zenon DEF Sound

\* Another id of the provider: nobody signs in under the old one.
LEMMA NewIdKeeps ==
    ASSUME HeldInv, NEW u \in Held!People, NEW e \in ExtIds,
           Held!updateExternalId(u, e)
    PROVE  HeldInv'
<1>1. PICK d : d = Held!Revoked(db, Held!SourceGrants \cap Held!GrantsOf(u))
  OBVIOUS
<1>2. Sound(d)
  BY <1>1, RevokedSound, Zenon DEF HeldInv
<1>3. d.users = db.users /\ d.identities = db.identities
  <2>1. db \in Databases
    BY DEF HeldInv, Sound
  <2> QED BY <1>1, <2>1, RevokedIs
<1>4. PICK x : x = [d.users[u] EXCEPT !.ext = e]
  OBVIOUS
<1>5. d.users[u] \in Persons
  BY <1>2 DEF Sound, Databases
<1>6. x \in Persons /\ x.retired = d.users[u].retired
  BY <1>4, <1>5, SetExt, Zenon
<1>7. PICK f : f = [d EXCEPT !.users[u] = x]
  OBVIOUS
<1>8. /\ f \in Databases /\ f.users = [d.users EXCEPT ![u] = x]
      /\ f.members = d.members /\ f.group = d.group
      /\ f.grants = d.grants /\ f.identities = d.identities
  <2>1. d \in Databases
    BY <1>2 DEF Sound
  <2> QED BY <1>6, <1>7, <2>1, SetUser
<1>9. \A v \in Held!People : /\ f.users[v].retired = d.users[v].retired
                             /\ v /= u => f.users[v] = d.users[v]
  BY <1>2, <1>6, <1>8 DEF Sound, Databases
<1>10. /\ d.members \subseteq Held!People
       /\ \A i \in d.identities : i.user \in Held!People /\ i.user /= u
  <2>1. \A i \in db.identities : i.user /= u
    BY Zenon DEF Held!updateExternalId
  <2> QED BY <1>2, <1>3, <2>1 DEF Sound, Databases, Identities
<1>11. GrantsTaken(f)
  <2>1. ASSUME NEW p \in Takers, Takes(d, p) PROVE Takes(f, p)
    BY <1>8, <1>9, <2>1, Zenon DEF Takes, Takers
  <2> QED BY <1>2, <1>8, <2>1, Zenon DEF Sound, GrantsTaken
<1>12. MembersAre(f)
  BY <1>2, <1>8, <1>9, <1>10, Zenon DEF Sound, MembersAre
<1>13. IdentitiesAre(f)
  <2>1. ASSUME NEW i \in d.identities
        PROVE  ~f.users[i.user].retired /\ f.users[i.user].ext = i.account
    <3>1. i.user \in Held!People /\ i.user /= u
      BY <1>10
    <3>2. f.users[i.user] = d.users[i.user]
      BY <1>9, <3>1
    <3> QED BY <1>2, <3>2 DEF Sound, IdentitiesAre
  <2> QED BY <1>8, <2>1 DEF IdentitiesAre
<1>14. Held!Writes(f)
  <2>1. f = [d EXCEPT !.users[u].ext = e]
    BY <1>4, <1>7, Zenon
  <2> QED BY <1>1, <2>1, Zenon DEF Held!updateExternalId
<1> QED BY <1>8, <1>11, <1>12, <1>13, <1>14, WritesKeeps, Zenon DEF Sound

LEMMA MembersKeeps ==
    ASSUME HeldInv, NEW u \in Held!People,
           Held!addMember(u) \/ Held!removeMember(u)
    PROVE  HeldInv'
<1>1. Sound(db) /\ db \in Databases
  BY DEF HeldInv, Sound
<1>2. ASSUME NEW ms \in SUBSET Held!People,
             \A v \in ms : db.group /\ ~db.users[v].retired,
             Held!Writes([db EXCEPT !.members = ms])
      PROVE  HeldInv'
  <2>1. PICK d : d = [db EXCEPT !.members = ms]
    OBVIOUS
  <2>2. /\ d \in Databases /\ d.members = ms /\ d.users = db.users
        /\ d.group = db.group /\ d.grants = db.grants
        /\ d.identities = db.identities
    BY <1>1, <2>1, SetMembers
  <2>3. Sound(d)
    BY <1>1, <1>2, <2>2, Zenon
    DEF Sound, GrantsTaken, Takes, MembersAre, IdentitiesAre
  <2> QED BY <1>2, <2>1, <2>3, WritesKeeps, Zenon
<1>3. /\ db.members \subseteq Held!People
      /\ \A v \in db.members : db.group /\ ~db.users[v].retired
  BY <1>1 DEF Sound, Databases, MembersAre
<1>4. CASE Held!addMember(u)
  <2>1. /\ db.group /\ ~db.users[u].retired
        /\ Held!Writes([db EXCEPT !.members = db.members \cup {u}])
    BY <1>4 DEF Held!addMember
  <2>2. PICK ms : ms = db.members \cup {u}
    OBVIOUS
  <2>3. /\ ms \in SUBSET Held!People
        /\ \A v \in ms : db.group /\ ~db.users[v].retired
    BY <1>3, <2>1, <2>2
  <2> QED BY <1>2, <2>1, <2>2, <2>3
<1>5. CASE Held!removeMember(u)
  <2>1. Held!Writes([db EXCEPT !.members = db.members \ {u}])
    BY <1>5 DEF Held!removeMember
  <2>2. PICK ms : ms = db.members \ {u}
    OBVIOUS
  <2>3. /\ ms \in SUBSET Held!People
        /\ \A v \in ms : db.group /\ ~db.users[v].retired
    BY <1>3, <2>2
  <2> QED BY <1>2, <2>1, <2>2, <2>3
<1> QED BY <1>4, <1>5

LEMMA DeleteGroupKeeps ==
    ASSUME HeldInv, Held!deleteGroup
    PROVE  HeldInv'
<1>1. Sound(db) /\ db \in Databases /\ DOMAIN db.grants = 1..NumGrants
  BY DEF HeldInv, Sound, Databases
<1>2. PICK d : d = Held!Revoked(db, Held!GrantsOf(Held!Group))
  OBVIOUS
<1>3. /\ d \in Databases /\ d.users = db.users
      /\ d.identities = db.identities
      /\ \A g \in 1..NumGrants :
           /\ d.grants[g].to = db.grants[g].to
           /\ d.grants[g].live =>
                db.grants[g].live /\ g \notin Held!GrantsOf(Held!Group)
  BY <1>1, <1>2, RevokedIs
<1>4. PICK a : a = [d EXCEPT !.group = FALSE]
  OBVIOUS
<1>5. /\ a \in Databases /\ a.users = d.users /\ a.grants = d.grants
      /\ a.identities = d.identities
  BY <1>3, <1>4, SetGroup, Zenon
<1>6. PICK b : b = [a EXCEPT !.members = {}]
  OBVIOUS
<1>7. /\ b \in Databases /\ b.users = db.users /\ b.grants = d.grants
      /\ b.identities = db.identities /\ b.members = {}
  <2>1. {} \in SUBSET Held!People
    OBVIOUS
  <2> QED BY <1>3, <1>5, <1>6, <2>1, SetMembers
<1>8. Held!Writes(b)
  <2>1. b = [d EXCEPT !.group = FALSE, !.members = {}]
    BY <1>4, <1>6
  <2> QED BY <1>2, <2>1, Zenon DEF Held!deleteGroup
<1>9. GrantsTaken(b)
  <2>1. ASSUME NEW g \in 1..NumGrants, b.grants[g].live
        PROVE  b.grants[g].to \in Takers /\ Takes(b, b.grants[g].to)
    <3>1. /\ db.grants[g].live /\ b.grants[g].to = db.grants[g].to
          /\ g \notin Held!GrantsOf(Held!Group)
      BY <1>3, <1>7, <2>1, Zenon
    <3>2. db.grants[g].to /= Held!Group
      BY <1>1, <3>1, Zenon DEF Held!GrantsOf
    <3>3. db.grants[g].to \in Takers /\ Takes(db, db.grants[g].to)
      BY <1>1, <3>1 DEF Sound, GrantsTaken
    <3> QED BY <1>7, <3>1, <3>2, <3>3, Zenon DEF Takes
  <2> QED BY <2>1 DEF GrantsTaken
<1>10. MembersAre(b) /\ IdentitiesAre(b)
  BY <1>1, <1>7, Zenon DEF Sound, MembersAre, IdentitiesAre
<1> QED BY <1>7, <1>8, <1>9, <1>10, WritesKeeps, Zenon DEF Sound

\* Rows that change only in grants, each live one taken by who takes it.
LEMMA GrantsSound ==
    ASSUME NEW d, Sound(d), NEW gs \in [1..NumGrants -> Grants],
           \A g \in 1..NumGrants : gs[g].live =>
              gs[g].to \in Takers /\ Takes(d, gs[g].to)
    PROVE  Sound([d EXCEPT !.grants = gs])
<1>1. PICK e : e = [d EXCEPT !.grants = gs]
  OBVIOUS
<1>2. /\ e \in Databases /\ e.grants = gs /\ e.users = d.users
      /\ e.group = d.group /\ e.members = d.members
      /\ e.identities = d.identities
  <2>1. d \in Databases
    BY DEF Sound
  <2> QED BY <1>1, <2>1, SetGrants
<1>3. Sound(e)
  BY <1>2, Zenon DEF Sound, GrantsTaken, Takes, MembersAre, IdentitiesAre
<1> QED BY <1>1, <1>3

LEMMA GiveKeeps ==
    ASSUME HeldInv, NEW p \in Takers, NEW until \in 0..MaxNow,
           Held!giveTagGrant(p, until)
    PROVE  HeldInv'
<1>1. Sound(db) /\ db \in Databases
  BY DEF HeldInv, Sound
<1>2. DOMAIN db.grants = 1..NumGrants
      /\ db.grants \in [1..NumGrants -> Grants]
  BY <1>1 DEF Databases
<1>3. PICK r : r = [to |-> p, by |-> "person", until |-> until, live |-> TRUE]
  OBVIOUS
<1>4. r \in Grants /\ r.to = p
  BY <1>3 DEF Grants
<1>5. Takes(db, p)
  BY Zenon DEF Held!giveTagGrant, Held!Grantable, Takes
<1>6. PICK g \in 1..NumGrants :
         Held!Writes([db EXCEPT !.grants[g] = r])
  BY <1>2, <1>3, Zenon DEF Held!giveTagGrant, Held!NextGrants
<1>7. PICK gs : gs = [db.grants EXCEPT ![g] = r]
  OBVIOUS
<1>8. /\ gs \in [1..NumGrants -> Grants]
      /\ \A h \in 1..NumGrants : gs[h] = IF h = g THEN r ELSE db.grants[h]
  BY <1>2, <1>4, <1>7
<1>9. \A h \in 1..NumGrants : gs[h].live =>
          gs[h].to \in Takers /\ Takes(db, gs[h].to)
  BY <1>1, <1>4, <1>5, <1>8, Zenon DEF Sound, GrantsTaken
<1>10. Sound([db EXCEPT !.grants = gs])
  BY <1>1, <1>8, <1>9, GrantsSound, Zenon
<1>11. [db EXCEPT !.grants[g] = r] = [db EXCEPT !.grants = gs]
  BY <1>7, Zenon
<1> QED BY <1>6, <1>10, <1>11, WritesKeeps, Zenon

LEMMA TakeKeeps ==
    ASSUME HeldInv,
           \/ \E p \in Takers : Held!takeTagGrant(p)
           \/ Held!withdrawSourceGrants
    PROVE  HeldInv'
<1>1. PICK gs : Held!Writes(Held!Revoked(db, gs))
  BY Zenon DEF Held!takeTagGrant, Held!withdrawSourceGrants
<1>2. Sound(Held!Revoked(db, gs))
  BY RevokedSound, Zenon DEF HeldInv
<1> QED BY <1>1, <1>2, WritesKeeps, Zenon

\* The provider's id names here only someone who is not retired.
LEMMA MatchIs ==
    ASSUME Sound(db), NEW e \in ExtIds
    PROVE  Held!Match(e) \in Held!People \cup {"nobody"}
<1>1. CASE Held!findUserByExternalId(e) = {}
  BY <1>1 DEF Held!Match
<1>2. CASE Held!findUserByExternalId(e) /= {}
  <2>1. PICK u : u = Held!Match(e)
    OBVIOUS
  <2>2. u \in Held!findUserByExternalId(e)
    BY <1>2, <2>1 DEF Held!Match
  <2> QED BY <2>1, <2>2 DEF Held!findUserByExternalId
<1> QED BY <1>1, <1>2

\* What a file's visit grants is granted to who is there: the principals are
\* looked at again, whatever the run remembers of them.
LEMMA AddSound ==
    ASSUME MaxNow \in Nat, NEW d, Sound(d), d.users = db.users,
           d.group = db.group,
           NEW ps \in SUBSET Takers, Held!AddObjectGrants(d, ps)
    PROVE  Sound(db')
<1>1. DOMAIN d.grants = 1..NumGrants /\ d.grants \in [1..NumGrants -> Grants]
  BY DEF Sound, Databases
<1>2. PICK there : there = {p \in ps : Held!Grantable(p)}
  OBVIOUS
<1>3. PICK gs \in SUBSET Held!NextGrants(d) : \E to \in [gs -> there] :
          db' = [d EXCEPT !.grants = [g \in DOMAIN d.grants |->
             IF g \in gs THEN [to |-> to[g], by |-> "source", until |-> 0,
                               live |-> TRUE] ELSE d.grants[g]]]
  BY <1>2, Zenon DEF Held!AddObjectGrants
<1>4. PICK to \in [gs -> there] :
          db' = [d EXCEPT !.grants = [g \in DOMAIN d.grants |->
             IF g \in gs THEN [to |-> to[g], by |-> "source", until |-> 0,
                               live |-> TRUE] ELSE d.grants[g]]]
  BY <1>3
<1>5. PICK rs : rs = [g \in DOMAIN d.grants |->
             IF g \in gs THEN [to |-> to[g], by |-> "source", until |-> 0,
                               live |-> TRUE] ELSE d.grants[g]]
  OBVIOUS
<1>6. \A p \in there : p \in Takers /\ Takes(d, p)
  BY <1>2, Zenon DEF Held!Grantable, Takes
<1>7. ASSUME NEW g \in 1..NumGrants
      PROVE  /\ rs[g] \in Grants
             /\ rs[g].live => rs[g].to \in Takers /\ Takes(d, rs[g].to)
  <2>1. CASE g \in gs
    <3>1. PICK r : r = [to |-> to[g], by |-> "source", until |-> 0,
                        live |-> TRUE]
      OBVIOUS
    <3>2. rs[g] = r
      BY <1>1, <1>5, <2>1, <3>1
    <3>3. to[g] \in there
      BY <1>4, <2>1
    <3>4. r \in Grants /\ r.to = to[g]
      BY <1>6, <3>1, <3>3 DEF Grants
    <3> QED BY <1>6, <3>2, <3>3, <3>4
  <2>2. CASE g \notin gs
    <3>1. rs[g] = d.grants[g]
      BY <1>1, <1>5, <2>2
    <3> QED BY <1>1, <3>1 DEF Sound, GrantsTaken
  <2> QED BY <2>1, <2>2
<1>8. rs \in [1..NumGrants -> Grants]
  BY <1>1, <1>5, <1>7
<1>9. db' = [d EXCEPT !.grants = rs]
  BY <1>4, <1>5, Zenon
<1> QED BY <1>7, <1>8, <1>9, GrantsSound, Zenon

LEMMA AclKeeps ==
    ASSUME MaxNow \in Nat, HeldInv, NEW says \in SUBSET ExtIds,
           Held!applySourceAcl(says)
    PROVE  HeldInv'
<1>1. Sound(db) /\ known \in Known
  BY DEF HeldInv
<1>2. PICK match : match = Held!Remembered(says)
  OBVIOUS
<1>3. \A e \in ExtIds : match[e] =
          IF e \in says /\ known[e] = "unknown" THEN Held!Match(e)
          ELSE known[e]
  BY <1>2 DEF Held!Remembered
<1>4. \A e \in ExtIds : match[e] \in Held!People \cup {"unknown", "nobody"}
  BY <1>1, <1>3, MatchIs DEF Known
<1>5. \A e \in says : match[e] \in Held!People \cup {"nobody"}
  BY <1>1, <1>3, MatchIs DEF Known
<1>6. PICK keep, add :
        /\ add \subseteq {match[e] : e \in says} \ {"nobody"}
        /\ Held!AddObjectGrants(
              Held!Revoked(db, Held!SourceGrants \ keep), add)
        /\ known' = [e \in ExtIds |->
              IF match[e] \in add /\ ~Held!Grantable(match[e])
              THEN "unknown" ELSE match[e]]
  <2>1. PICK wanted : wanted = {match[e] : e \in says} \ {"nobody"}
    OBVIOUS
  <2>2. PICK keep : keep = {g \in Held!SourceGrants :
                              db.grants[g].to \in wanted}
    OBVIOUS
  <2>3. PICK add : add = wanted \ {db.grants[g].to : g \in keep}
    OBVIOUS
  <2>4. /\ Held!AddObjectGrants(
              Held!Revoked(db, Held!SourceGrants \ keep), add)
        /\ known' = [e \in ExtIds |->
              IF match[e] \in add /\ ~Held!Grantable(match[e])
              THEN "unknown" ELSE match[e]]
    BY <1>2, <2>1, <2>2, <2>3 DEF Held!applySourceAcl
  <2> QED BY <2>1, <2>3, <2>4
<1>7. add \in SUBSET Takers
  BY <1>5, <1>6 DEF Takers
<1>8. PICK d : d = Held!Revoked(db, Held!SourceGrants \ keep)
  OBVIOUS
<1>9. Sound(d)
  BY <1>1, <1>8, RevokedSound, Zenon
<1>10. d.users = db.users /\ d.group = db.group
  <2>1. db \in Databases
    BY <1>1 DEF Sound
  <2> QED BY <1>8, <2>1, RevokedIs
<1>11. Sound(db')
  BY <1>6, <1>7, <1>8, <1>9, <1>10, AddSound, Zenon
<1>12. known' \in Known
  BY <1>4, <1>6 DEF Known
<1>13. UNCHANGED signer
  BY DEF Held!applySourceAcl
<1> QED BY <1>11, <1>12, <1>13 DEF HeldInv, SignerTyped, Sound, GrantsTaken,
     Takes, MembersAre, IdentitiesAre

\* Who matched is linked only if the row, locked, has the id still.
LEMMA SignInKeeps ==
    ASSUME HeldInv,
           (\E e \in ExtIds : Held!BeginSignIn(e)) \/ Held!linkIdentity
    PROVE  HeldInv'
<1>1. /\ Sound(db) /\ db \in Databases /\ known \in Known
      /\ SignerTyped
  BY DEF HeldInv, Sound
<1>2. ASSUME NEW e \in ExtIds, Held!BeginSignIn(e) PROVE HeldInv'
  <2>1. PICK u \in Held!findUserByExternalId(e) :
           signer' = [user |-> u, as |-> e]
    BY <1>2 DEF Held!BeginSignIn
  <2>2. u \in Held!People
    BY <2>1 DEF Held!findUserByExternalId
  <2>3. SignerTyped'
    BY <2>1, <2>2 DEF SignerTyped
  <2>4. UNCHANGED <<db, known>>
    BY <1>2 DEF Held!BeginSignIn
  <2> QED BY <1>1, <2>3, <2>4 DEF HeldInv, Sound, GrantsTaken, Takes,
       MembersAre, IdentitiesAre
<1>3. CASE Held!linkIdentity
  <2>1. /\ signer.user /= "none" /\ signer' = [user |-> "none",
                                               as |-> Held!NoId]
        /\ UNCHANGED known
    BY <1>3 DEF Held!linkIdentity
  <2>2. SignerTyped'
    BY <2>1 DEF SignerTyped
  <2>3. CASE UNCHANGED db
    BY <1>1, <2>1, <2>2, <2>3 DEF HeldInv, Sound, GrantsTaken, Takes,
       MembersAre, IdentitiesAre
  <2>4. CASE ~UNCHANGED db
    <3>1. PICK i : i = [account |-> signer.as, user |-> signer.user]
      OBVIOUS
    <3>2. i \in Identities /\ i.account = signer.as /\ i.user = signer.user
      BY <1>1, <2>1, <3>1 DEF SignerTyped, Identities
    <3>3. /\ db.users[signer.user].ext = signer.as
          /\ ~db.users[signer.user].retired
          /\ db' = [db EXCEPT !.identities = db.identities \cup {i}]
      BY <1>3, <2>4, <3>1, Zenon DEF Held!linkIdentity, Held!StillNamed
    <3>4. db.identities \cup {i} \in SUBSET Identities
      BY <1>1, <3>2 DEF Databases
    <3>5. PICK is : is = db.identities \cup {i}
      OBVIOUS
    <3>6. /\ db' \in Databases /\ db'.identities = is
          /\ db'.users = db.users /\ db'.group = db.group
          /\ db'.members = db.members /\ db'.grants = db.grants
      BY <1>1, <3>3, <3>4, <3>5, SetIdentities
    <3>7. \A j \in is : ~db.users[j.user].retired
                        /\ db.users[j.user].ext = j.account
      BY <1>1, <3>2, <3>3, <3>5 DEF Sound, IdentitiesAre
    <3>8. Sound(db')
      BY <1>1, <3>6, <3>7, Zenon DEF Sound, GrantsTaken, Takes, MembersAre,
         IdentitiesAre
    <3> QED BY <1>1, <2>1, <2>2, <3>8 DEF HeldInv, Sound, GrantsTaken,
         Takes, MembersAre, IdentitiesAre
  <2> QED BY <2>3, <2>4
<1> QED BY <1>2, <1>3

-----------------------------------------------------------------------------
(* The theorems of what people hold.                                        *)

LEMMA HeldInit ==
    ASSUME ExtIds /= {}, MaxNow \in Nat, Held!Init
    PROVE  HeldInv
<1>1. ASSUME NEW u \in Held!People
      PROVE  Held!User(u) \in Persons /\ ~Held!User(u).retired
  <2>1. PICK e : e = IF u \in Provisioned THEN CHOOSE x \in ExtIds : TRUE
                     ELSE Held!NoId
    OBVIOUS
  <2>2. e \in ExtIds \cup {Held!NoId}
    BY <2>1
  <2>3. PICK a : a = (u \in Local) /\ a \in BOOLEAN
    <3>1. (u \in Local) \in BOOLEAN
      OBVIOUS
    <3> QED BY <3>1, Zenon
  <2>4. Held!User(u) = [retired |-> FALSE, locked |-> FALSE,
           disabled |-> FALSE, kind |-> "member", admin |-> a, ext |-> e]
    BY <2>1, <2>3, Zenon DEF Held!User
  <2>5. a \in BOOLEAN
    BY <2>3
  <2> QED BY <2>2, <2>4, <2>5 DEF Persons
<1>2. PICK us, gs : /\ us = [u \in Held!People |-> Held!User(u)]
                    /\ gs = [g \in 1..NumGrants |-> Held!NoGrant]
  OBVIOUS
<1>3. us \in [Held!People -> Persons]
      /\ \A u \in Held!People : ~us[u].retired
  BY <1>1, <1>2
<1>4. /\ Held!NoGrant \in Grants /\ ~Held!NoGrant.live
  BY DEF Held!NoGrant, Grants
<1>5. gs \in [1..NumGrants -> Grants]
      /\ \A g \in 1..NumGrants : ~gs[g].live
  BY <1>2, <1>4
<1>6. db = [users |-> us, group |-> TRUE, members |-> {}, grants |-> gs,
            identities |-> {}]
  BY <1>2 DEF Held!Init
<1>7. /\ db \in Databases /\ db.grants = gs /\ db.members = {}
      /\ db.identities = {}
  BY <1>3, <1>5, <1>6 DEF Databases
<1>8. Sound(db)
  BY <1>5, <1>7 DEF Sound, GrantsTaken, MembersAre, IdentitiesAre
<1>9. SignerTyped /\ known \in Known
  BY DEF Held!Init, SignerTyped, Known
<1> QED BY <1>8, <1>9 DEF HeldInv

LEMMA HeldStutters ==
    ASSUME HeldInv, UNCHANGED <<db, signer, known>>
    PROVE  HeldInv'
  BY DEF HeldInv, SignerTyped, Sound, GrantsTaken, Takes, MembersAre,
     IdentitiesAre

LEMMA RunEndsKeeps ==
    ASSUME HeldInv, Held!RunEnds
    PROVE  HeldInv'
<1>1. UNCHANGED <<db, signer>> /\ known' \in Known
  BY DEF Held!RunEnds, Known
<1> QED BY <1>1 DEF HeldInv, SignerTyped, Sound, GrantsTaken, Takes,
     MembersAre, IdentitiesAre

LEMMA HeldNext ==
    ASSUME MaxNow \in Nat, HeldInv, [Held!Next]_(Held!vars)
    PROVE  HeldInv'
<1>1. CASE UNCHANGED Held!vars
  BY <1>1, HeldStutters DEF Held!vars
<1>2. ASSUME NEW u \in Held!People,
             \/ Held!lockUser(u) \/ Held!unlockUser(u)
             \/ Held!setProviderActive(u) \/ Held!retireUser(u)
             \/ Held!setKind(u) \/ Held!addMember(u)
             \/ Held!removeMember(u) \/ Held!grantAdmin(u)
             \/ Held!revokeAdmin(u)
             \/ \E e \in ExtIds : Held!updateExternalId(u, e)
      PROVE  HeldInv'
  BY <1>2, PersonKeeps, RetireKeeps, MembersKeeps, NewIdKeeps, Zenon
<1>3. CASE Held!deleteGroup
  BY <1>3, DeleteGroupKeeps, Zenon
<1>4. ASSUME NEW p \in Takers,
             \/ Held!takeTagGrant(p)
             \/ \E until \in 0..MaxNow : Held!giveTagGrant(p, until)
      PROVE  HeldInv'
  BY <1>4, GiveKeeps, TakeKeeps, Zenon
<1>5. CASE \E says \in SUBSET ExtIds : Held!applySourceAcl(says)
  BY <1>5, AclKeeps, Zenon
<1>6. CASE Held!RunEnds
  BY <1>6, RunEndsKeeps, Zenon
<1>7. CASE Held!withdrawSourceGrants
  BY <1>7, TakeKeeps, Zenon
<1>8. CASE (\E e \in ExtIds : Held!BeginSignIn(e)) \/ Held!linkIdentity
  BY <1>8, SignInKeeps, Zenon
<1>9. CASE Held!Tick
  BY <1>9, HeldStutters DEF Held!Tick
<1> QED BY <1>1, <1>2, <1>3, <1>4, <1>5, <1>6, <1>7, <1>8, <1>9
    DEF Held!Next, Takers

-----------------------------------------------------------------------------
(* The levels kept beside each object.  LevelsAreExact is not inductive: a  *)
(* transaction that is about to commit has worked its levels out, and they  *)
(* are right still, for nobody else moves a tag of its objects, nor the     *)
(* level of a value they carry: that writer holds the value, which a tag    *)
(* shares, or the object, which it carries.  Where neither is so, a pack    *)
(* was applied, and the refresh it owes takes the object.                   *)

LevelBounds ==
    /\ Objects /= {} /\ Values /= {} /\ Lev!Admin \notin Writers
    /\ MaxLevel \in Nat \ {0} /\ MaxLevelEvents \in Nat

Ops == {"none", "tag", "untag", "value", "apply", "refresh"}
Ats == {"idle", "begun", "wrote", "shared", "held"}
Rows == [op : Ops, at : Ats, o : Objects, v : Values, level : 1..Lev!Unset,
         objs : SUBSET Objects, shared : SUBSET Values,
         got : [Objects -> 1..Lev!Unset], snap : SUBSET Lev!Database]
Plans == [v : Values, before : 1..Lev!Unset, after : 1..Lev!Unset]

LevelsTyped ==
    /\ data \in Lev!Database
    /\ txn \in [Lev!Txns -> Rows]
    /\ plan \in Plans /\ (plan /= Lev!NoPlan => plan.after \in Lev!Ranks)
    /\ owed \in {"none", "refresh", "all"}
    /\ touched \subseteq Objects
    /\ begun \in 0..MaxLevelEvents

\* What a transaction that is not serializable sees of the data d.
SeenTags(d, x) ==
    IF x.op = "tag" THEN d.tags \cup {<<x.o, x.v>>}
    ELSE IF x.op = "untag" THEN d.tags \ {<<x.o, x.v>>} ELSE d.tags
SeenLevel(d, x) ==
    IF x.op = "value" THEN [d.level EXCEPT ![x.v] = x.level] ELSE d.level

\* The objects and values a transaction of a writer is about.
WritersRow(d, x) ==
    /\ x.op \in {"none", "tag", "untag", "value"}
    /\ x.op \in {"tag", "untag"} => x.objs = {x.o}
    /\ x.op = "tag" /\ x.at \in {"shared", "held"} => x.v \in x.shared
    /\ x.op = "value" =>
         x.level \in Lev!Ranks /\ Lev!Carriers(d.tags, x.v) \subseteq x.objs

\* The admin's: a pack is applied as planned, and then a refresh is owed.
AdminsRow(d, x) ==
    /\ x.op \in {"none", "apply", "refresh"}
    /\ x.op = "refresh" => owed /= "none"
    /\ x.op = "apply" =>
         /\ owed = "none" /\ x.v = plan.v /\ x.level \in Lev!Ranks
         /\ x.snap /= {}
         /\ x.at = "begun" =>
              \A e \in x.snap : e.level[plan.v] = plan.before
         /\ x.at /= "begun" =>
              /\ x.objs = Lev!Carriers(Lev!Base(x).tags, x.v)
              /\ d.level[plan.v] = plan.before

RowInOrder(t, x) ==
    /\ x.at = "idle" <=> x.op = "none"
    /\ x.at = "begun" => x.op = "apply"
    /\ x.at \notin {"shared", "held"} => x.shared = {}
    /\ t \in Writers => WritersRow(data, x)
    /\ t = Lev!Admin => AdminsRow(data, x)

RowsInOrder == \A t \in Lev!Txns : RowInOrder(t, txn[t])

\* Two transactions never hold what one of them needs for itself.
TwoApart(x, y) ==
    /\ x.shared \cap Lev!Changing(y) = {}
    /\ y.shared \cap Lev!Changing(x) = {}
    /\ Lev!Changing(x) \cap Lev!Changing(y) = {}
    /\ x.at = "held" /\ y.at = "held" => x.objs \cap y.objs = {}

AllApart == \A t, u \in Lev!Txns : t /= u => TwoApart(txn[t], txn[u])

\* The refresh of an applied pack, when it runs, has the object.
Refreshing(x, o) == x.op = "refresh" => o \in x.objs

\* The object's levels are the owed refresh's to work out.
Owed(o) ==
    /\ owed /= "none"
    /\ o \in touched \/ <<o, plan.v>> \in data.tags
    /\ Refreshing(txn[Lev!Admin], o)

\* What x worked out for o, before the pack was applied.
Stale(x, o) ==
    /\ owed /= "none"
    /\ <<o, plan.v>> \in data.tags /\ <<o, plan.v>> \in SeenTags(data, x)
    /\ Refreshing(txn[Lev!Admin], o)

Right(d, x, o) == x.got[o] = Lev!Worked(SeenLevel(d, x), SeenTags(d, x), o)

GotInOrder(t, x) == x.at = "held" =>
    /\ t \in Writers => \A o \in x.objs : Right(data, x, o) \/ Stale(x, o)
    /\ t = Lev!Admin /\ x.op = "refresh" =>
         \A o \in x.objs : Right(data, x, o)

AllGot == \A t \in Lev!Txns : GotInOrder(t, txn[t])

AllExact == \A o \in Objects :
    data.kept[o] = Lev!Worked(data.level, data.tags, o) \/ Owed(o)

LevelsInv ==
    LevelsTyped /\ RowsInOrder /\ AllApart /\ AllGot /\ AllExact

-----------------------------------------------------------------------------
(* The operators.                                                           *)

LEMMA LowestIs ==
    ASSUME NEW S, S \subseteq Nat, S /= {}
    PROVE  Lev!Lowest(S) \in S
<1>1. \E n \in S : \A m \in S : n <= m
  BY LeastIs
<1> QED BY <1>1 DEF Lev!Lowest

LEMMA WorkedIs ==
    ASSUME LevelBounds, NEW level \in [Values -> Lev!Ranks],
           NEW tags, NEW o
    PROVE  Lev!Worked(level, tags, o) \in 1..Lev!Unset
<1>1. PICK S : S = {level[v] : v \in Lev!Named(tags, {o})}
                     \cup {Lev!Unset}
  OBVIOUS
<1>2. Lev!Unset \in Nat /\ Lev!Ranks \subseteq 1..Lev!Unset
      /\ Lev!Unset \in 1..Lev!Unset
  BY DEF LevelBounds, Lev!Unset, Lev!Ranks
<1>3. S \subseteq 1..Lev!Unset /\ S /= {}
  BY <1>1, <1>2 DEF Lev!Named
<1>4. S \subseteq Nat
  BY <1>2, <1>3
<1>5. Lev!Lowest(S) \in S
  BY <1>3, <1>4, LowestIs
<1>6. Lev!Worked(level, tags, o) = Lev!Lowest(S)
  BY <1>1 DEF Lev!Worked
<1> QED BY <1>3, <1>5, <1>6

\* The levels of an object depend on its tags and its values' levels alone.
LEMMA WorkedSame ==
    ASSUME NEW level, NEW newLevel, NEW tags, NEW newTags, NEW o,
           \A v \in Values : <<o, v>> \in newTags <=> <<o, v>> \in tags,
           \A v \in Values : <<o, v>> \in tags => newLevel[v] = level[v]
    PROVE  Lev!Worked(newLevel, newTags, o) = Lev!Worked(level, tags, o)
<1>1. Lev!Named(newTags, {o}) = Lev!Named(tags, {o})
  BY DEF Lev!Named
<1>2. \A v \in Lev!Named(tags, {o}) : newLevel[v] = level[v]
  BY DEF Lev!Named
<1>3. {newLevel[v] : v \in Lev!Named(newTags, {o})}
         = {level[v] : v \in Lev!Named(tags, {o})}
  BY <1>1, <1>2
<1> QED BY <1>3, Zenon DEF Lev!Worked

LEMMA SeenIs ==
    ASSUME NEW x \in Rows, x.op /= "apply"
    PROVE  /\ Lev!TagsSeen(x) = SeenTags(data, x)
           /\ Lev!LevelSeen(x) = SeenLevel(data, x)
<1>1. Lev!Base(x) = data
  BY DEF Lev!Base, Lev!Serializable
<1> QED BY <1>1, Zenon DEF Lev!TagsSeen, Lev!LevelSeen, SeenTags, SeenLevel

\* What a transaction sees of an object's tags and of levels.
LEMMA SeenOf ==
    ASSUME NEW d, NEW x, NEW o, NEW v
    PROVE  <<o, v>> \in SeenTags(d, x) <=>
             \/ x.op = "tag" /\ (<<o, v>> \in d.tags \/ (o = x.o /\ v = x.v))
             \/ /\ x.op = "untag" /\ <<o, v>> \in d.tags
                /\ ~(o = x.o /\ v = x.v)
             \/ x.op \notin {"tag", "untag"} /\ <<o, v>> \in d.tags
  BY DEF SeenTags

-----------------------------------------------------------------------------
(* A step that moves one transaction and commits nothing.                   *)

OthersApart(t, y) == \A u \in Lev!Txns : u /= t => TwoApart(y, txn[u])

LEMMA OneMoves ==
    ASSUME LevelBounds, LevelsInv, NEW t \in Lev!Txns, NEW y \in Rows,
           txn' = [txn EXCEPT ![t] = y],
           UNCHANGED <<data, plan, owed, touched>>,
           begun' \in 0..MaxLevelEvents,
           RowInOrder(t, y), OthersApart(t, y), GotInOrder(t, y),
           t = Lev!Admin => \A o \in Objects :
             \/ Refreshing(txn[t], o) => Refreshing(y, o)
             \/ Refreshing(y, o)
             \/ owed = "none"
             \/ o \notin touched /\ <<o, plan.v>> \notin data.tags
    PROVE  LevelsInv'
<1>1. /\ txn \in [Lev!Txns -> Rows] /\ LevelsTyped /\ RowsInOrder
      /\ AllApart /\ AllGot /\ AllExact
  BY DEF LevelsInv, LevelsTyped
<1>2. /\ txn' \in [Lev!Txns -> Rows] /\ txn'[t] = y
      /\ \A u \in Lev!Txns : u /= t => txn'[u] = txn[u]
  BY <1>1
<1>3. LevelsTyped'
  BY <1>1, <1>2 DEF LevelsTyped
<1>4. ASSUME NEW u \in Lev!Txns PROVE RowInOrder(u, txn[u])'
  <2>1. RowInOrder(u, txn'[u])
    BY <1>1, <1>2 DEF RowsInOrder
  <2> QED BY <2>1 DEF RowInOrder, WritersRow, AdminsRow, Lev!Base,
       Lev!Serializable
<1>5. RowsInOrder'
  BY <1>4 DEF RowsInOrder
<1>6. AllApart'
  <2>1. ASSUME NEW u \in Lev!Txns, NEW w \in Lev!Txns, u /= w
        PROVE  TwoApart(txn'[u], txn'[w])
    <3>1. CASE u /= t /\ w /= t
      BY <1>1, <1>2, <2>1, <3>1 DEF AllApart
    <3>2. CASE u = t
      BY <1>2, <2>1, <3>2 DEF OthersApart
    <3>3. CASE w = t
      <4>1. TwoApart(y, txn[u])
        BY <2>1, <3>3 DEF OthersApart
      <4> QED BY <1>2, <2>1, <3>3, <4>1 DEF TwoApart
    <3> QED BY <3>1, <3>2, <3>3
  <2> QED BY <2>1 DEF AllApart, TwoApart
<1>7. ASSUME NEW o \in Objects,
             owed /= "none", o \in touched \/ <<o, plan.v>> \in data.tags,
             Refreshing(txn[Lev!Admin], o)
      PROVE  Refreshing(txn'[Lev!Admin], o)
  <2>1. CASE t = Lev!Admin
    BY <1>2, <1>7, <2>1
  <2>2. CASE t /= Lev!Admin
    BY <1>2, <1>7, <2>2 DEF Lev!Txns
  <2> QED BY <2>1, <2>2
<1>8. AllExact'
  BY <1>1, <1>7 DEF AllExact, Owed
<1>9. ASSUME NEW u \in Lev!Txns PROVE GotInOrder(u, txn[u])'
  <2>1. GotInOrder(u, txn'[u])
    BY <1>1, <1>2 DEF AllGot
  <2>2. txn'[u].objs \subseteq Objects
    BY <1>2 DEF Rows
  <2>3. ASSUME NEW o \in txn'[u].objs, Stale(txn'[u], o)
        PROVE  Stale(txn[u], o)'
    BY <1>7, <2>2, <2>3 DEF Stale, SeenTags
  <2> QED BY <2>1, <2>3 DEF GotInOrder, Right
<1>10. AllGot'
  BY <1>9 DEF AllGot
<1> QED BY <1>3, <1>5, <1>6, <1>8, <1>10 DEF LevelsInv

LEMMA IdleIs ==
    ASSUME LevelBounds, LevelsInv, NEW t \in Lev!Txns
    PROVE  /\ Lev!Idle \in Rows
           /\ RowInOrder(t, Lev!Idle)
           /\ \A x : Lev!Idle.shared \cap Lev!Changing(x) = {}
           /\ Lev!Changing(Lev!Idle) = {}
           /\ OthersApart(t, Lev!Idle)
           /\ GotInOrder(t, Lev!Idle)
           /\ \A o \in Objects : Refreshing(Lev!Idle, o)
           /\ Lev!Idle.op = "none" /\ Lev!Idle.at = "idle"
<1>1. PICK o \in Objects : o = Lev!Idle.o
  BY DEF Lev!Idle, LevelBounds
<1>2. PICK v \in Values : v = Lev!Idle.v
  BY DEF Lev!Idle, LevelBounds
<1>3. /\ Lev!Idle.op = "none" /\ Lev!Idle.at = "idle"
      /\ Lev!Idle.level = Lev!Unset
      /\ Lev!Idle.objs = {} /\ Lev!Idle.shared = {} /\ Lev!Idle.snap = {}
      /\ Lev!Idle.got = [w \in Objects |-> Lev!Unset]
  BY DEF Lev!Idle
<1>4. Lev!Unset \in 1..Lev!Unset
  BY DEF LevelBounds, Lev!Unset
<1>5. Lev!Idle \in Rows
  <2>1. Lev!Idle = [op |-> "none", at |-> "idle", o |-> o, v |-> v,
                    level |-> Lev!Unset, objs |-> {}, shared |-> {},
                    got |-> [w \in Objects |-> Lev!Unset], snap |-> {}]
    BY <1>1, <1>2 DEF Lev!Idle
  <2> QED BY <1>4, <2>1 DEF Rows, Ops, Ats
<1>6. RowInOrder(t, Lev!Idle)
  BY <1>3 DEF RowInOrder, WritersRow, AdminsRow
<1>7. Lev!Changing(Lev!Idle) = {}
  BY <1>3 DEF Lev!Changing
<1>8. OthersApart(t, Lev!Idle)
  BY <1>3, <1>7 DEF OthersApart, TwoApart
<1>9. GotInOrder(t, Lev!Idle)
  BY <1>3 DEF GotInOrder
<1>10. \A w \in Objects : Refreshing(Lev!Idle, w)
  BY <1>3 DEF Refreshing
<1> QED BY <1>3, <1>5, <1>6, <1>7, <1>8, <1>9, <1>10

LEMMA CountedIs ==
    ASSUME LevelBounds, LevelsInv, Lev!Counted
    PROVE  begun' \in 0..MaxLevelEvents
  BY DEF LevelBounds, LevelsInv, LevelsTyped, Lev!Counted

LEMMA TagsKeeps ==
    ASSUME LevelBounds, LevelsInv, NEW t \in Writers, Lev!Tags(t)
    PROVE  LevelsInv'
<1>1. PICK o \in Objects, v \in Values :
        txn' = [txn EXCEPT ![t] =
          [Lev!Idle EXCEPT !.op = IF <<o, v>> \in data.tags
                                  THEN "untag" ELSE "tag",
                           !.at = "wrote", !.o = o, !.v = v, !.objs = {o}]]
  BY DEF Lev!Tags, Lev!Begin
<1>2. PICK y : y = [Lev!Idle EXCEPT
                      !.op = IF <<o, v>> \in data.tags
                             THEN "untag" ELSE "tag",
                      !.at = "wrote", !.o = o, !.v = v, !.objs = {o}]
  OBVIOUS
<1>3. t \in Lev!Txns /\ t /= Lev!Admin
  BY DEF Lev!Txns, LevelBounds
<1>4. /\ Lev!Idle \in Rows /\ Lev!Idle.shared = {}
  BY <1>3, IdleIs DEF Lev!Idle
<1>5. /\ y \in Rows /\ y.op \in {"tag", "untag"} /\ y.at = "wrote"
      /\ y.o = o /\ y.objs = {o} /\ y.shared = {}
  BY <1>2, <1>4 DEF Rows, Ops, Ats
<1>6. RowInOrder(t, y)
  BY <1>3, <1>5 DEF RowInOrder, WritersRow
<1>7. OthersApart(t, y)
  BY <1>5 DEF OthersApart, TwoApart, Lev!Changing
<1>8. GotInOrder(t, y)
  BY <1>5 DEF GotInOrder
<1>9. begun' \in 0..MaxLevelEvents
  BY CountedIs DEF Lev!Tags
<1>10. UNCHANGED <<data, plan, owed, touched>>
  BY DEF Lev!Tags
<1>11. txn' = [txn EXCEPT ![t] = y]
  BY <1>1, <1>2
<1> QED BY <1>3, <1>5, <1>6, <1>7, <1>8, <1>9, <1>10, <1>11, OneMoves

LEMMA ReviewsKeeps ==
    ASSUME LevelBounds, LevelsInv, NEW t \in Writers, Lev!Reviews(t)
    PROVE  LevelsInv'
<1>1. PICK v \in Values, l \in Lev!Ranks :
        /\ Lev!ValuesFree(t, {v}) /\ Lev!UnsharedBy(t, v)
        /\ txn' = [txn EXCEPT ![t] =
             [Lev!Idle EXCEPT !.op = "value", !.at = "wrote", !.v = v,
                              !.level = l,
                              !.objs = Lev!Carriers(data.tags, v)]]
  BY DEF Lev!Reviews, Lev!Begin
<1>2. PICK y : y = [Lev!Idle EXCEPT
                      !.op = "value", !.at = "wrote", !.v = v, !.level = l,
                      !.objs = Lev!Carriers(data.tags, v)]
  OBVIOUS
<1>3. t \in Lev!Txns /\ t /= Lev!Admin
  BY DEF Lev!Txns, LevelBounds
<1>4. /\ Lev!Idle \in Rows /\ Lev!Idle.shared = {}
  BY <1>3, IdleIs DEF Lev!Idle
<1>5. l \in 1..Lev!Unset /\ Lev!Carriers(data.tags, v) \subseteq Objects
  BY DEF LevelBounds, Lev!Ranks, Lev!Unset, Lev!Carriers
<1>6. /\ y \in Rows /\ y.op = "value" /\ y.at = "wrote" /\ y.v = v
      /\ y.level = l /\ y.objs = Lev!Carriers(data.tags, v)
      /\ y.shared = {}
  BY <1>2, <1>4, <1>5 DEF Rows, Ops, Ats
<1>7. RowInOrder(t, y)
  BY <1>3, <1>6 DEF RowInOrder, WritersRow
<1>8. OthersApart(t, y)
  <2>1. Lev!Changing(y) = {v}
    BY <1>6 DEF Lev!Changing
  <2> QED BY <1>1, <1>6, <2>1
       DEF OthersApart, TwoApart, Lev!ValuesFree, Lev!UnsharedBy
<1>9. GotInOrder(t, y)
  BY <1>6 DEF GotInOrder
<1>10. begun' \in 0..MaxLevelEvents
  BY CountedIs DEF Lev!Reviews
<1>11. UNCHANGED <<data, plan, owed, touched>>
  BY DEF Lev!Reviews
<1>12. txn' = [txn EXCEPT ![t] = y]
  BY <1>1, <1>2
<1> QED BY <1>3, <1>6, <1>7, <1>8, <1>9, <1>10, <1>11, <1>12, OneMoves

LEMMA SharesKeeps ==
    ASSUME LevelBounds, LevelsInv, NEW t \in Lev!Txns, Lev!SharesValues(t)
    PROVE  LevelsInv'
<1>1. PICK x : x = txn[t]
  OBVIOUS
<1>2. PICK vs : vs = Lev!Named(Lev!TagsSeen(x), x.objs)
  OBVIOUS
<1>3. PICK y : y = [x EXCEPT !.at = "shared", !.shared = vs]
  OBVIOUS
<1>4. txn \in [Lev!Txns -> Rows] /\ begun \in 0..MaxLevelEvents
  BY DEF LevelsInv, LevelsTyped
<1>5. /\ x.at = "wrote" /\ Lev!ValuesFree(t, vs)
      /\ txn' = [txn EXCEPT ![t].at = "shared", ![t].shared = vs]
      /\ UNCHANGED <<data, plan, owed, touched, begun>>
  BY <1>1, <1>2 DEF Lev!SharesValues
<1>6. x \in Rows /\ RowInOrder(t, x) /\ vs \subseteq Values
  BY <1>1, <1>2, <1>4 DEF LevelsInv, RowsInOrder, Lev!Named
<1>7. /\ y \in Rows /\ y.at = "shared" /\ y.shared = vs /\ y.op = x.op
      /\ y.o = x.o /\ y.v = x.v /\ y.objs = x.objs /\ y.snap = x.snap
      /\ y.level = x.level
  BY <1>3, <1>6 DEF Rows, Ats
<1>8. txn' = [txn EXCEPT ![t] = y]
  BY <1>1, <1>3, <1>4, <1>5 DEF Rows
<1>9. RowInOrder(t, y)
  <2>1. ASSUME t \in Writers, y.op = "tag"
        PROVE  y.v \in y.shared
    <3>1. x.objs = {x.o}
      BY <1>6, <1>7, <2>1 DEF RowInOrder, WritersRow
    <3>2. <<x.o, x.v>> \in Lev!TagsSeen(x)
      BY <1>7, <2>1 DEF Lev!TagsSeen
    <3>3. x.v \in Values
      BY <1>6 DEF Rows
    <3> QED BY <1>2, <1>7, <3>1, <3>2, <3>3 DEF Lev!Named
  <2>2. t \in Writers => WritersRow(data, y)
    BY <1>6, <1>7, <2>1 DEF RowInOrder, WritersRow
  <2>3. Lev!Base(y) = Lev!Base(x)
    BY <1>7 DEF Lev!Base, Lev!Serializable
  <2>4. t = Lev!Admin => AdminsRow(data, y)
    BY <1>5, <1>6, <1>7, <2>3 DEF RowInOrder, AdminsRow
  <2> QED BY <1>5, <1>6, <1>7, <2>2, <2>4 DEF RowInOrder
<1>10. OthersApart(t, y)
  <2>1. Lev!Changing(y) = Lev!Changing(x)
    BY <1>5, <1>7 DEF Lev!Changing
  <2>2. ASSUME NEW u \in Lev!Txns, u /= t PROVE TwoApart(y, txn[u])
    <3>1. TwoApart(x, txn[u])
      BY <1>1, <2>2 DEF LevelsInv, AllApart
    <3>2. vs \cap Lev!Changing(txn[u]) = {}
      BY <1>5, <2>2 DEF Lev!ValuesFree
    <3> QED BY <1>7, <2>1, <3>1, <3>2 DEF TwoApart
  <2> QED BY <2>2 DEF OthersApart
<1>11. GotInOrder(t, y)
  BY <1>7 DEF GotInOrder
<1>12. \A o \in Objects : Refreshing(txn[t], o) => Refreshing(y, o)
  BY <1>1, <1>7 DEF Refreshing
<1>13. begun' \in 0..MaxLevelEvents
  BY <1>4, <1>5
<1> QED BY <1>5, <1>7, <1>8, <1>9, <1>10, <1>11, <1>12, <1>13, OneMoves

LEMMA BaseIs ==
    ASSUME LevelsInv, NEW t \in Lev!Txns, LevelBounds
    PROVE  Lev!Base(txn[t]) \in Lev!Database
<1>1. txn[t] \in Rows /\ data \in Lev!Database /\ RowInOrder(t, txn[t])
  BY DEF LevelsInv, LevelsTyped, RowsInOrder
<1>2. CASE txn[t].op = "apply"
  <2>1. t = Lev!Admin
    BY <1>1, <1>2 DEF RowInOrder, WritersRow, Lev!Txns
  <2>2. txn[t].snap /= {} /\ txn[t].snap \subseteq Lev!Database
    BY <1>1, <1>2, <2>1 DEF RowInOrder, AdminsRow, Rows
  <2>3. (CHOOSE d \in txn[t].snap : TRUE) \in txn[t].snap
    BY <2>2
  <2> QED BY <1>2, <2>2, <2>3 DEF Lev!Base, Lev!Serializable
<1>3. CASE txn[t].op /= "apply"
  BY <1>1, <1>3 DEF Lev!Base, Lev!Serializable
<1> QED BY <1>2, <1>3

LEMMA WorksKeeps ==
    ASSUME LevelBounds, LevelsInv, NEW t \in Lev!Txns, Lev!WorksLevels(t)
    PROVE  LevelsInv'
<1>1. PICK x : x = txn[t]
  OBVIOUS
<1>2. PICK g : g = [o \in Objects |->
                      IF o \in x.objs
                      THEN Lev!Worked(Lev!LevelSeen(x), Lev!TagsSeen(x), o)
                      ELSE Lev!Unset]
  OBVIOUS
<1>3. PICK y : y = [x EXCEPT !.at = "held", !.got = g]
  OBVIOUS
<1>4. txn \in [Lev!Txns -> Rows] /\ begun \in 0..MaxLevelEvents
  BY DEF LevelsInv, LevelsTyped
<1>5. /\ x.at = "shared" /\ Lev!LevelsFree(t, x.objs)
      /\ txn' = [txn EXCEPT ![t].at = "held", ![t].got = g]
      /\ UNCHANGED <<data, plan, owed, touched, begun>>
  BY <1>1, <1>2 DEF Lev!WorksLevels
<1>6. x \in Rows /\ RowInOrder(t, x)
  BY <1>1, <1>4 DEF LevelsInv, RowsInOrder
<1>7. Lev!Base(x) \in Lev!Database
  BY <1>1, BaseIs
<1>8. Lev!LevelSeen(x) \in [Values -> Lev!Ranks]
  <2>1. x.op \in {"value", "apply"} => x.level \in Lev!Ranks
    BY <1>6 DEF RowInOrder, WritersRow, AdminsRow, Lev!Txns
  <2>2. Lev!Base(x).level \in [Values -> Lev!Ranks]
    BY <1>7 DEF Lev!Database
  <2> QED BY <2>1, <2>2 DEF Lev!LevelSeen
<1>9. g \in [Objects -> 1..Lev!Unset]
  <2>1. \A o \in Objects :
          Lev!Worked(Lev!LevelSeen(x), Lev!TagsSeen(x), o) \in 1..Lev!Unset
    BY <1>8, WorkedIs
  <2>2. Lev!Unset \in 1..Lev!Unset
    BY DEF LevelBounds, Lev!Unset
  <2> QED BY <1>2, <2>1, <2>2
<1>10. /\ y \in Rows /\ y.at = "held" /\ y.got = g /\ y.op = x.op
       /\ y.o = x.o /\ y.v = x.v /\ y.objs = x.objs /\ y.snap = x.snap
       /\ y.level = x.level /\ y.shared = x.shared
  BY <1>3, <1>6, <1>9 DEF Rows, Ats
<1>11. txn' = [txn EXCEPT ![t] = y]
  BY <1>1, <1>3, <1>4, <1>5 DEF Rows
<1>12. RowInOrder(t, y)
  <2>1. t \in Writers => WritersRow(data, y)
    BY <1>5, <1>6, <1>10 DEF RowInOrder, WritersRow
  <2>2. Lev!Base(y) = Lev!Base(x)
    BY <1>10 DEF Lev!Base, Lev!Serializable
  <2>3. t = Lev!Admin => AdminsRow(data, y)
    BY <1>5, <1>6, <1>10, <2>2 DEF RowInOrder, AdminsRow
  <2> QED BY <1>5, <1>6, <1>10, <2>1, <2>3 DEF RowInOrder
<1>13. OthersApart(t, y)
  <2>1. Lev!Changing(y) = Lev!Changing(x)
    BY <1>5, <1>10 DEF Lev!Changing
  <2>2. ASSUME NEW u \in Lev!Txns, u /= t PROVE TwoApart(y, txn[u])
    <3>1. TwoApart(x, txn[u])
      BY <1>1, <2>2 DEF LevelsInv, AllApart
    <3>2. txn[u].at = "held" => x.objs \cap txn[u].objs = {}
      BY <1>5, <2>2 DEF Lev!LevelsFree
    <3> QED BY <1>10, <2>1, <3>1, <3>2 DEF TwoApart
  <2> QED BY <2>2 DEF OthersApart
<1>14. GotInOrder(t, y)
  <2>1. ASSUME x.op /= "apply", NEW o \in x.objs PROVE Right(data, y, o)
    <3>1. /\ Lev!TagsSeen(x) = SeenTags(data, x)
          /\ Lev!LevelSeen(x) = SeenLevel(data, x)
      BY <1>6, <2>1, SeenIs
    <3>2. /\ SeenTags(data, y) = SeenTags(data, x)
          /\ SeenLevel(data, y) = SeenLevel(data, x)
      BY <1>10 DEF SeenTags, SeenLevel
    <3>3. o \in Objects
      BY <1>6, <2>1 DEF Rows
    <3>4. g[o] = Lev!Worked(Lev!LevelSeen(x), Lev!TagsSeen(x), o)
      BY <1>2, <2>1, <3>3
    <3> QED BY <1>10, <3>1, <3>2, <3>4 DEF Right
  <2>2. t \in Writers => x.op /= "apply"
    BY <1>6 DEF RowInOrder, WritersRow
  <2> QED BY <1>10, <2>1, <2>2 DEF GotInOrder
<1>15. \A o \in Objects : Refreshing(txn[t], o) => Refreshing(y, o)
  BY <1>1, <1>10 DEF Refreshing
<1>16. begun' \in 0..MaxLevelEvents
  BY <1>4, <1>5
<1> QED BY <1>5, <1>10, <1>11, <1>12, <1>13, <1>14, <1>15, <1>16, OneMoves

LEMMA RollsKeeps ==
    ASSUME LevelBounds, LevelsInv, NEW t \in Lev!Txns, Lev!RollsBack(t)
    PROVE  LevelsInv'
<1>1. begun' \in 0..MaxLevelEvents
  BY DEF LevelsInv, LevelsTyped, Lev!RollsBack
<1>2. /\ txn' = [txn EXCEPT ![t] = Lev!Idle]
      /\ UNCHANGED <<data, plan, owed, touched>>
  BY DEF Lev!RollsBack
<1>3. /\ Lev!Idle \in Rows /\ RowInOrder(t, Lev!Idle)
      /\ OthersApart(t, Lev!Idle) /\ GotInOrder(t, Lev!Idle)
      /\ \A o \in Objects : Refreshing(Lev!Idle, o)
  BY IdleIs
<1> QED BY <1>1, <1>2, <1>3, OneMoves

-----------------------------------------------------------------------------
(* The admin's steps.                                                       *)

LEMMA AppliesKeeps ==
    ASSUME LevelBounds, LevelsInv, Lev!ApplyPack
    PROVE  LevelsInv'
<1>1. PICK t \in Lev!Txns : t = Lev!Admin
  BY DEF Lev!Txns
<1>2. PICK y : y = [Lev!Idle EXCEPT
                      !.op = "apply", !.at = "begun", !.v = plan.v,
                      !.level = plan.after, !.snap = {data}]
  OBVIOUS
<1>3. /\ Lev!Idle \in Rows /\ Lev!Idle.shared = {}
  BY <1>1, IdleIs DEF Lev!Idle
<1>4. /\ plan /= Lev!NoPlan /\ owed = "none"
      /\ data.level[plan.v] = plan.before
      /\ txn' = [txn EXCEPT ![t] = y]
      /\ UNCHANGED <<data, plan, owed, touched, begun>>
  BY <1>1, <1>2 DEF Lev!ApplyPack, Lev!Begin, Lev!StillPlanned
<1>5. /\ plan \in Plans /\ plan.after \in Lev!Ranks
      /\ data \in Lev!Database /\ begun \in 0..MaxLevelEvents
  BY <1>4 DEF LevelsInv, LevelsTyped
<1>6. /\ y \in Rows /\ y.op = "apply" /\ y.at = "begun" /\ y.v = plan.v
      /\ y.level = plan.after /\ y.snap = {data} /\ y.shared = {}
  BY <1>2, <1>3, <1>5 DEF Rows, Ops, Ats, Plans
<1>7. RowInOrder(t, y)
  <2>1. t \notin Writers
    BY <1>1 DEF LevelBounds
  <2>2. AdminsRow(data, y)
    BY <1>4, <1>5, <1>6 DEF AdminsRow
  <2> QED BY <1>6, <2>1, <2>2 DEF RowInOrder
<1>8. OthersApart(t, y)
  BY <1>6 DEF OthersApart, TwoApart, Lev!Changing
<1>9. GotInOrder(t, y)
  BY <1>6 DEF GotInOrder
<1>10. begun' \in 0..MaxLevelEvents
  BY <1>4, <1>5
<1> QED BY <1>4, <1>6, <1>7, <1>8, <1>9, <1>10, OneMoves

LEMMA WritesValueKeeps ==
    ASSUME LevelBounds, LevelsInv, Lev!WritesValue
    PROVE  LevelsInv'
<1>1. PICK t \in Lev!Txns : t = Lev!Admin
  BY DEF Lev!Txns
<1>2. PICK x : x = txn[t]
  OBVIOUS
<1>3. PICK y : y = [x EXCEPT
                      !.at = "wrote",
                      !.objs = Lev!Carriers(Lev!Base(x).tags, plan.v)]
  OBVIOUS
<1>4. txn \in [Lev!Txns -> Rows] /\ begun \in 0..MaxLevelEvents
  BY DEF LevelsInv, LevelsTyped
<1>5. /\ x.at = "begun"
      /\ Lev!ValuesFree(t, {plan.v}) /\ Lev!UnsharedBy(t, plan.v)
      /\ Lev!Unmoved(x, plan.v)
      /\ txn' = [txn EXCEPT
                   ![t].at = "wrote",
                   ![t].objs = Lev!Carriers(Lev!Base(x).tags, plan.v)]
      /\ UNCHANGED <<data, plan, owed, touched, begun>>
  BY <1>1, <1>2 DEF Lev!WritesValue
<1>6. x \in Rows /\ RowInOrder(t, x)
  BY <1>2, <1>4 DEF LevelsInv, RowsInOrder
<1>7. t \notin Writers
  BY <1>1 DEF LevelBounds
<1>8. x.op = "apply" /\ x.shared = {}
  BY <1>5, <1>6 DEF RowInOrder
<1>9. AdminsRow(data, x)
  BY <1>1, <1>6 DEF RowInOrder
<1>10. Lev!Carriers(Lev!Base(x).tags, plan.v) \subseteq Objects
  BY DEF Lev!Carriers
<1>11. /\ y \in Rows /\ y.op = "apply" /\ y.at = "wrote" /\ y.v = x.v
       /\ y.objs = Lev!Carriers(Lev!Base(x).tags, plan.v)
       /\ y.level = x.level /\ y.snap = x.snap /\ y.shared = {}
  BY <1>3, <1>6, <1>8, <1>10 DEF Rows, Ats
<1>12. txn' = [txn EXCEPT ![t] = y]
  BY <1>2, <1>3, <1>4, <1>5 DEF Rows
<1>13. data.level[plan.v] = plan.before
  <2>1. x.snap /= {} /\ \A e \in x.snap : e.level[plan.v] = plan.before
    BY <1>5, <1>8, <1>9 DEF AdminsRow
  <2>2. (CHOOSE d \in x.snap : TRUE) \in x.snap
    BY <2>1
  <2>3. Lev!Base(x) \in x.snap
    BY <1>8, <2>2 DEF Lev!Base, Lev!Serializable
  <2> QED BY <1>5, <1>8, <2>1, <2>3 DEF Lev!Unmoved, Lev!Serializable
<1>14. RowInOrder(t, y)
  <2>1. Lev!Base(y) = Lev!Base(x)
    BY <1>8, <1>11 DEF Lev!Base, Lev!Serializable
  <2>2. AdminsRow(data, y)
    BY <1>8, <1>9, <1>11, <1>13, <2>1 DEF AdminsRow
  <2> QED BY <1>7, <1>11, <2>2 DEF RowInOrder
<1>15. OthersApart(t, y)
  <2>1. y.v = plan.v
    BY <1>8, <1>9, <1>11 DEF AdminsRow
  <2>2. Lev!Changing(y) = {plan.v}
    BY <1>11, <2>1 DEF Lev!Changing
  <2> QED BY <1>5, <1>11, <2>2
       DEF OthersApart, TwoApart, Lev!ValuesFree, Lev!UnsharedBy
<1>16. GotInOrder(t, y)
  BY <1>11 DEF GotInOrder
<1>17. \A o \in Objects : Refreshing(y, o)
  BY <1>11 DEF Refreshing
<1>18. begun' \in 0..MaxLevelEvents
  BY <1>4, <1>5
<1> QED BY <1>5, <1>11, <1>12, <1>14, <1>15, <1>16, <1>17, <1>18, OneMoves

\* A refresh that takes every object whose levels are owed.
LEMMA RefreshBegins ==
    ASSUME LevelBounds, LevelsInv, NEW objs \in SUBSET Objects,
           owed /= "none",
           touched \cup Lev!Carriers(data.tags, plan.v) \subseteq objs,
           Lev!Begin(Lev!Admin, [Lev!Idle EXCEPT
                       !.op = "refresh", !.at = "wrote", !.objs = objs]),
           UNCHANGED <<data, plan, owed, touched, begun>>
    PROVE  LevelsInv'
<1>1. PICK t \in Lev!Txns : t = Lev!Admin
  BY DEF Lev!Txns
<1>2. PICK y : y = [Lev!Idle EXCEPT
                      !.op = "refresh", !.at = "wrote", !.objs = objs]
  OBVIOUS
<1>3. Lev!Idle \in Rows /\ Lev!Idle.shared = {}
  BY <1>1, IdleIs DEF Lev!Idle
<1>4. /\ y \in Rows /\ y.op = "refresh" /\ y.at = "wrote"
      /\ y.objs = objs /\ y.shared = {}
  BY <1>2, <1>3 DEF Rows, Ops, Ats
<1>5. txn' = [txn EXCEPT ![t] = y]
  BY <1>1, <1>2 DEF Lev!Begin
<1>6. RowInOrder(t, y)
  <2>1. t \notin Writers
    BY <1>1 DEF LevelBounds
  <2> QED BY <1>4, <2>1 DEF RowInOrder, AdminsRow
<1>7. OthersApart(t, y)
  BY <1>4 DEF OthersApart, TwoApart, Lev!Changing
<1>8. GotInOrder(t, y)
  BY <1>4 DEF GotInOrder
<1>9. \A o \in Objects :
        \/ Refreshing(y, o)
        \/ o \notin touched /\ <<o, plan.v>> \notin data.tags
  BY <1>4 DEF Refreshing, Lev!Carriers
<1>10. begun' \in 0..MaxLevelEvents
  BY DEF LevelsInv, LevelsTyped
<1> QED BY <1>4, <1>5, <1>6, <1>7, <1>8, <1>9, <1>10, OneMoves

LEMMA RefreshPackKeeps ==
    ASSUME LevelBounds, LevelsInv, Lev!RefreshPackLevels
    PROVE  LevelsInv'
<1>1. touched \subseteq Objects
  BY DEF LevelsInv, LevelsTyped
<1>2. Lev!Refreshed \in SUBSET Objects
  BY <1>1 DEF Lev!Refreshed, Lev!Carriers
<1>3. touched \cup Lev!Carriers(data.tags, plan.v) \subseteq Lev!Refreshed
  BY DEF Lev!Refreshed
<1> QED BY <1>2, <1>3, RefreshBegins DEF Lev!RefreshPackLevels

LEMMA RefreshAllKeeps ==
    ASSUME LevelBounds, LevelsInv, Lev!RefreshAllLevels
    PROVE  LevelsInv'
<1>1. touched \cup Lev!Carriers(data.tags, plan.v) \subseteq Objects
  BY DEF LevelsInv, LevelsTyped, Lev!Carriers
<1> QED BY <1>1, RefreshBegins DEF Lev!RefreshAllLevels

LEMMA LosesKeeps ==
    ASSUME LevelBounds, LevelsInv, Lev!RefreshIsLost
    PROVE  LevelsInv'
<1>1. Lev!Admin \in Lev!Txns /\ Lev!Admin \notin Writers
  BY DEF Lev!Txns, LevelBounds
<1>2. /\ owed = "refresh" /\ owed' = "all"
      /\ txn' = [txn EXCEPT ![Lev!Admin] = Lev!Idle]
      /\ UNCHANGED <<data, plan, touched, begun>>
  BY DEF Lev!RefreshIsLost
<1>3. /\ LevelsTyped /\ RowsInOrder /\ AllApart /\ AllGot /\ AllExact
      /\ txn \in [Lev!Txns -> Rows]
  BY DEF LevelsInv, LevelsTyped
<1>4. /\ Lev!Idle \in Rows /\ RowInOrder(Lev!Admin, Lev!Idle)
      /\ OthersApart(Lev!Admin, Lev!Idle)
      /\ Lev!Idle.op = "none" /\ Lev!Idle.at = "idle"
      /\ Lev!Idle.shared = {} /\ Lev!Changing(Lev!Idle) = {}
  BY <1>1, IdleIs DEF Lev!Idle
<1>5. /\ txn' \in [Lev!Txns -> Rows] /\ txn'[Lev!Admin] = Lev!Idle
      /\ \A u \in Lev!Txns : u /= Lev!Admin => txn'[u] = txn[u]
  BY <1>1, <1>2, <1>3, <1>4
<1>6. LevelsTyped'
  BY <1>2, <1>3, <1>5 DEF LevelsTyped
<1>7. RowsInOrder'
  <2>1. ASSUME NEW u \in Lev!Txns PROVE RowInOrder(u, txn[u])'
    <3>1. CASE u = Lev!Admin
      BY <1>1, <1>4, <1>5, <3>1 DEF RowInOrder, AdminsRow
    <3>2. CASE u /= Lev!Admin
      BY <1>2, <1>3, <1>5, <3>2 DEF RowsInOrder, RowInOrder, WritersRow
    <3> QED BY <3>1, <3>2
  <2> QED BY <2>1 DEF RowsInOrder
<1>8. AllApart'
  <2>1. ASSUME NEW u \in Lev!Txns, NEW w \in Lev!Txns, u /= w
        PROVE  TwoApart(txn'[u], txn'[w])
    <3>1. CASE u /= Lev!Admin /\ w /= Lev!Admin
      BY <1>3, <1>5, <2>1, <3>1 DEF AllApart
    <3>2. CASE u = Lev!Admin \/ w = Lev!Admin
      BY <1>4, <1>5, <2>1, <3>2 DEF TwoApart
    <3> QED BY <3>1, <3>2
  <2> QED BY <2>1 DEF AllApart, TwoApart
<1>9. AllGot'
  <2>1. ASSUME NEW u \in Lev!Txns PROVE GotInOrder(u, txn[u])'
    <3>1. CASE u = Lev!Admin
      BY <1>4, <1>5, <3>1 DEF GotInOrder
    <3>2. CASE u /= Lev!Admin
      <4>1. GotInOrder(u, txn'[u])
        BY <1>3, <1>5, <3>2 DEF AllGot
      <4>2. ASSUME NEW o, Stale(txn'[u], o) PROVE Stale(txn[u], o)'
        BY <1>2, <1>4, <1>5, <4>2 DEF Stale, SeenTags, Refreshing
      <4> QED BY <1>2, <3>2, <4>1, <4>2 DEF GotInOrder, Right
    <3> QED BY <3>1, <3>2
  <2> QED BY <2>1 DEF AllGot
<1>10. AllExact'
  BY <1>2, <1>3, <1>4, <1>5 DEF AllExact, Owed, Refreshing
<1> QED BY <1>6, <1>7, <1>8, <1>9, <1>10 DEF LevelsInv

LEMMA PlansKeeps ==
    ASSUME LevelBounds, LevelsInv, Lev!PlanPack
    PROVE  LevelsInv'
<1>1. PICK v \in Values, l \in Lev!Ranks :
        plan' = [v |-> v, before |-> data.level[v], after |-> l]
  BY DEF Lev!PlanPack
<1>2. /\ txn[Lev!Admin].at = "idle" /\ owed = "none"
      /\ UNCHANGED <<data, txn, owed, touched>>
  BY DEF Lev!PlanPack
<1>3. begun' \in 0..MaxLevelEvents
  BY CountedIs DEF Lev!PlanPack
<1>4. /\ LevelsTyped /\ RowsInOrder /\ AllApart /\ AllGot /\ AllExact
  BY DEF LevelsInv
<1>5. data.level[v] \in 1..Lev!Unset /\ l \in 1..Lev!Unset
  BY <1>4 DEF LevelsTyped, Lev!Database, LevelBounds, Lev!Ranks, Lev!Unset
<1>6. plan' \in Plans /\ plan'.after \in Lev!Ranks
  BY <1>1, <1>5 DEF Plans
<1>7. LevelsTyped'
  BY <1>2, <1>3, <1>4, <1>6 DEF LevelsTyped
<1>8. RowsInOrder'
  <2>1. ASSUME NEW u \in Lev!Txns PROVE RowInOrder(u, txn[u])'
    <3>1. RowInOrder(u, txn[u])
      BY <1>4 DEF RowsInOrder
    <3>2. (u \in Writers => WritersRow(data, txn[u]))'
      BY <1>2, <3>1 DEF RowInOrder, WritersRow
    <3>3. (u = Lev!Admin => AdminsRow(data, txn[u]))'
      BY <1>2, <3>1 DEF RowInOrder, AdminsRow
    <3> QED BY <1>2, <3>1, <3>2, <3>3 DEF RowInOrder
  <2> QED BY <2>1 DEF RowsInOrder
<1>9. AllApart'
  BY <1>2, <1>4 DEF AllApart, TwoApart
<1>10. AllGot'
  BY <1>2, <1>4 DEF AllGot, GotInOrder, Right, Stale, SeenTags, SeenLevel
<1>11. AllExact'
  BY <1>2, <1>4 DEF AllExact, Owed
<1> QED BY <1>7, <1>8, <1>9, <1>10, <1>11 DEF LevelsInv

-----------------------------------------------------------------------------
(* A commit.                                                                *)

CommitsOf(t) == /\ LevelBounds /\ LevelsInv /\ t \in Lev!Txns /\ Lev!Commits(t)

LEMMA CommitIs ==
    ASSUME NEW t, CommitsOf(t)
    PROVE  /\ txn[t] \in Rows /\ txn[t].at = "held"
           /\ t \in Writers =>
                /\ WritersRow(data, txn[t])
                /\ txn[t].op \in {"tag", "untag", "value"}
           /\ t = Lev!Admin =>
                AdminsRow(data, txn[t]) /\ txn[t].op \in {"apply", "refresh"}
           /\ txn' \in [Lev!Txns -> Rows] /\ txn'[t] = Lev!Idle
           /\ \A u \in Lev!Txns : u /= t => txn'[u] = txn[u]
           /\ t \in Writers <=> t /= Lev!Admin
           /\ data' \in Lev!Database
           /\ data'.tags = SeenTags(data, txn[t])
           /\ \A o \in Objects :
                data'.kept[o] = IF o \in txn[t].objs THEN txn[t].got[o]
                                ELSE data.kept[o]
           /\ UNCHANGED <<plan, begun>>
<1>1. PICK x : x = txn[t]
  OBVIOUS
<1>2. /\ txn \in [Lev!Txns -> Rows] /\ data \in Lev!Database
      /\ t \in Lev!Txns /\ x \in Rows /\ RowInOrder(t, x)
  BY <1>1 DEF CommitsOf, LevelsInv, LevelsTyped, RowsInOrder
<1>3. /\ x.at = "held" /\ data' = Lev!Committed(x)
      /\ txn' = [txn EXCEPT ![t] = Lev!Idle] /\ UNCHANGED <<plan, begun>>
  BY <1>1 DEF CommitsOf, Lev!Commits
<1>4. Lev!Idle \in Rows
  BY <1>2, IdleIs DEF CommitsOf
<1>5. /\ txn' \in [Lev!Txns -> Rows] /\ txn'[t] = Lev!Idle
      /\ \A u \in Lev!Txns : u /= t => txn'[u] = txn[u]
  BY <1>2, <1>3, <1>4
<1>6. t \in Writers <=> t /= Lev!Admin
  BY <1>2 DEF Lev!Txns, CommitsOf, LevelBounds
<1>7. /\ t \in Writers =>
           WritersRow(data, x) /\ x.op \in {"tag", "untag", "value"}
      /\ t = Lev!Admin => AdminsRow(data, x) /\ x.op \in {"apply", "refresh"}
  BY <1>2, <1>3 DEF RowInOrder, WritersRow, AdminsRow
<1>8. PICK l : l = IF Lev!Changing(x) = {} THEN data.level
                   ELSE [data.level EXCEPT ![x.v] = x.level]
  OBVIOUS
<1>9. l \in [Values -> Lev!Ranks]
  <2>1. data.level \in [Values -> Lev!Ranks]
    BY <1>2 DEF Lev!Database
  <2>2. Lev!Changing(x) /= {} => x.op \in {"value", "apply"}
    BY DEF Lev!Changing
  <2>3. Lev!Changing(x) /= {} => x.level \in Lev!Ranks
    BY <1>6, <1>7, <2>2 DEF WritersRow, AdminsRow
  <2> QED BY <1>8, <2>1, <2>3
<1>10. PICK g : g = SeenTags(data, x)
  OBVIOUS
<1>11. g \in SUBSET (Objects \X Values)
  BY <1>2, <1>10 DEF SeenTags, Lev!Database, Rows
<1>12. PICK k : k = [o \in Objects |->
                       IF o \in x.objs THEN x.got[o] ELSE data.kept[o]]
  OBVIOUS
<1>13. k \in [Objects -> 1..Lev!Unset]
  BY <1>2, <1>12 DEF Lev!Database, Rows
<1>14. data' = [level |-> l, tags |-> g, kept |-> k]
  BY <1>3, <1>8, <1>10, <1>12 DEF Lev!Committed, SeenTags
<1>15. data' \in Lev!Database
  BY <1>9, <1>11, <1>13, <1>14 DEF Lev!Database
<1>16. data'.tags = SeenTags(data, x)
  BY <1>10, <1>14
<1>17. \A o \in Objects :
         data'.kept[o] = IF o \in x.objs THEN x.got[o] ELSE data.kept[o]
  BY <1>12, <1>14
<1> QED BY <1>1, <1>2, <1>3, <1>5, <1>6, <1>7, <1>15, <1>16, <1>17

LEMMA CommitLevels ==
    ASSUME NEW t, CommitsOf(t)
    PROVE  /\ txn[t].op \in {"tag", "untag", "refresh"} =>
                data'.level = data.level
           /\ txn[t].op \in {"value", "apply"} =>
                /\ data'.level = [data.level EXCEPT ![txn[t].v] = txn[t].level]
                /\ Lev!Changing(txn[t]) = {txn[t].v}
<1>1. PICK x : x = txn[t]
  OBVIOUS
<1>2. x.at = "held" /\ data' = Lev!Committed(x)
  BY <1>1 DEF CommitsOf, Lev!Commits
<1>3. data'.level = IF Lev!Changing(x) = {} THEN data.level
                    ELSE [data.level EXCEPT ![x.v] = x.level]
  BY <1>2 DEF Lev!Committed
<1>4. x.op \in {"tag", "untag", "refresh"} => Lev!Changing(x) = {}
  BY DEF Lev!Changing
<1>5. x.op \in {"value", "apply"} => Lev!Changing(x) = {x.v}
  BY <1>2 DEF Lev!Changing
<1> QED BY <1>1, <1>3, <1>4, <1>5

LEMMA CommitOwes ==
    ASSUME NEW t, CommitsOf(t)
    PROVE  /\ t \in Writers => owed' = owed /\ touched' = touched
           /\ txn[t].op = "refresh" => owed' = "none" /\ touched' = touched
           /\ txn[t].op = "apply" =>
                /\ owed = "none" /\ owed' = "refresh"
                /\ touched' = txn[t].objs /\ txn[t].v = plan.v
                /\ data.level[plan.v] = plan.before
<1>1. PICK x : x = txn[t]
  OBVIOUS
<1>2. /\ x.at = "held" /\ x \in Rows
      /\ t \in Writers => x.op \in {"tag", "untag", "value"}
      /\ t = Lev!Admin => AdminsRow(data, x)
      /\ t \in Writers <=> t /= Lev!Admin
  BY <1>1, CommitIs
<1>3. /\ owed' = IF x.op = "apply" THEN "refresh"
                 ELSE IF x.op = "refresh" THEN "none" ELSE owed
      /\ touched' = IF x.op = "apply"
                    THEN Lev!Carriers(Lev!Base(x).tags, x.v) ELSE touched
  BY <1>1 DEF CommitsOf, Lev!Commits
<1>4. x.op = "apply" =>
        /\ owed = "none" /\ x.v = plan.v
        /\ x.objs = Lev!Carriers(Lev!Base(x).tags, x.v)
        /\ data.level[plan.v] = plan.before
  BY <1>2 DEF AdminsRow
<1> QED BY <1>1, <1>2, <1>3, <1>4

LEMMA CommitTyped ==
    ASSUME NEW t, CommitsOf(t)
    PROVE  LevelsTyped'
<1>1. /\ data' \in Lev!Database /\ txn' \in [Lev!Txns -> Rows]
      /\ UNCHANGED <<plan, begun>> /\ txn[t] \in Rows
      /\ t \in Writers <=> t /= Lev!Admin
      /\ t = Lev!Admin => txn[t].op \in {"apply", "refresh"}
  BY CommitIs
<1>2. LevelsTyped
  BY DEF CommitsOf, LevelsInv
<1>3. owed' \in {"none", "refresh", "all"} /\ touched' \subseteq Objects
  BY <1>1, <1>2, CommitOwes DEF LevelsTyped, Rows
<1> QED BY <1>1, <1>2, <1>3 DEF LevelsTyped

LEMMA CommitRows ==
    ASSUME NEW t, CommitsOf(t)
    PROVE  RowsInOrder'
<1>1. /\ LevelsTyped /\ RowsInOrder /\ AllApart /\ LevelBounds /\ LevelsInv
      /\ t \in Lev!Txns
  BY DEF CommitsOf, LevelsInv
<1>2. PICK x : x = txn[t]
  OBVIOUS
<1>3. /\ x \in Rows /\ x.at = "held"
      /\ t \in Writers =>
           WritersRow(data, x) /\ x.op \in {"tag", "untag", "value"}
      /\ t = Lev!Admin => x.op \in {"apply", "refresh"}
      /\ txn'[t] = Lev!Idle
      /\ \A u \in Lev!Txns : u /= t => txn'[u] = txn[u]
      /\ t \in Writers <=> t /= Lev!Admin
      /\ data'.tags = SeenTags(data, x)
      /\ UNCHANGED plan
  BY <1>2, CommitIs
<1>4. /\ x.op \in {"tag", "untag", "refresh"} => data'.level = data.level
      /\ x.op \in {"value", "apply"} =>
           /\ data'.level = [data.level EXCEPT ![x.v] = x.level]
           /\ Lev!Changing(x) = {x.v}
  BY <1>2, CommitLevels
<1>5. t \in Writers => owed' = owed
  BY CommitOwes
<1>6. /\ Lev!Idle.op = "none" /\ Lev!Idle.at = "idle"
      /\ Lev!Idle.shared = {}
  BY <1>1, IdleIs DEF Lev!Idle
<1>7. ASSUME NEW u \in Lev!Txns PROVE RowInOrder(u, txn[u])'
  <2>1. CASE u = t
    <3>1. RowInOrder(u, Lev!Idle)'
      BY <1>6 DEF RowInOrder, WritersRow, AdminsRow
    <3> QED BY <1>3, <1>6, <2>1
          DEF RowInOrder, WritersRow, AdminsRow
  <2>2. CASE u /= t
    <3>1. txn'[u] = txn[u] /\ RowInOrder(u, txn[u]) /\ TwoApart(x, txn[u])
      BY <1>1, <1>2, <1>3, <2>2 DEF RowsInOrder, AllApart
    <3>2. (u \in Writers => WritersRow(data, txn[u]))'
      <4>1. ASSUME u \in Writers, txn[u].op = "value", x.op = "tag"
            PROVE  x.v /= txn[u].v
        <5>1. x.v \in x.shared
          BY <1>3, <4>1 DEF WritersRow
        <5>2. Lev!Changing(txn[u]) = {txn[u].v}
          <6>1. txn[u] \in Rows
            BY <1>1 DEF LevelsTyped
          <6>2. txn[u].at \in {"wrote", "shared", "held"}
            BY <3>1, <4>1, <6>1 DEF RowInOrder, Rows, Ats
          <6> QED BY <4>1, <6>2 DEF Lev!Changing
        <5> QED BY <3>1, <5>1, <5>2 DEF TwoApart
      <4>2. ASSUME u \in Writers, txn[u].op = "value"
            PROVE  Lev!Carriers(data'.tags, txn[u].v)
                     \subseteq Lev!Carriers(data.tags, txn[u].v)
        <5>1. CASE x.op = "tag"
          BY <1>3, <4>1, <4>2, <5>1 DEF Lev!Carriers, SeenTags
        <5>2. CASE x.op /= "tag"
          BY <1>3, <5>2 DEF Lev!Carriers, SeenTags
        <5> QED BY <5>1, <5>2
      <4> QED BY <3>1, <4>2 DEF RowInOrder, WritersRow
    <3>3. (u = Lev!Admin => AdminsRow(data, txn[u]))'
      <4>1. SUFFICES ASSUME u = Lev!Admin PROVE AdminsRow(data, txn[u])'
        BY <3>1
      <4>2. AdminsRow(data, txn[u]) /\ owed' = owed
        BY <1>3, <1>5, <2>2, <3>1, <4>1 DEF RowInOrder
      <4>3. ASSUME txn[u].op = "apply", txn[u].at /= "begun"
            PROVE  data'.level[plan.v] = data.level[plan.v]
        <5>1. txn[u].at \in {"wrote", "shared", "held"}
          BY <1>1, <3>1, <4>3 DEF LevelsTyped, Rows, Ats, RowInOrder
        <5>2. Lev!Changing(txn[u]) = {plan.v}
          BY <4>2, <4>3, <5>1 DEF Lev!Changing, AdminsRow
        <5>3. x.op = "value" => x.v /= plan.v
          BY <1>4, <3>1, <5>2 DEF TwoApart
        <5>4. plan.v \in Values /\ data.level \in [Values -> Lev!Ranks]
          BY <1>1 DEF LevelsTyped, Plans, Lev!Database
        <5> QED BY <1>3, <1>4, <2>2, <4>1, <5>3, <5>4
      <4>4. (Lev!Base(txn[u])' = Lev!Base(txn[u])) \/ txn[u].op /= "apply"
        BY <3>1 DEF Lev!Base, Lev!Serializable
      <4> QED BY <1>3, <3>1, <4>2, <4>3, <4>4 DEF AdminsRow
    <3> QED BY <3>1, <3>2, <3>3 DEF RowInOrder
  <2> QED BY <2>1, <2>2
<1> QED BY <1>7 DEF RowsInOrder

LEMMA CommitApart ==
    ASSUME NEW t, CommitsOf(t)
    PROVE  AllApart'
<1>1. AllApart /\ LevelBounds /\ LevelsInv /\ t \in Lev!Txns
  BY DEF CommitsOf, LevelsInv
<1>2. /\ txn'[t] = Lev!Idle
      /\ \A u \in Lev!Txns : u /= t => txn'[u] = txn[u]
  BY CommitIs
<1>3. /\ Lev!Idle.op = "none" /\ Lev!Idle.at = "idle"
      /\ Lev!Idle.shared = {} /\ Lev!Changing(Lev!Idle) = {}
  BY <1>1, IdleIs DEF Lev!Idle
<1>4. ASSUME NEW u \in Lev!Txns, NEW w \in Lev!Txns, u /= w
      PROVE  TwoApart(txn'[u], txn'[w])
  <2>1. CASE u /= t /\ w /= t
    BY <1>1, <1>2, <1>4, <2>1 DEF AllApart
  <2>2. CASE u = t \/ w = t
    BY <1>2, <1>3, <1>4, <2>2 DEF TwoApart
  <2> QED BY <2>1, <2>2
<1> QED BY <1>4 DEF AllApart, TwoApart

\* What a commit leaves of an object that is none of its own: its tags, and
\* the levels of its values, unless a pack moves a value it carries.
LEMMA CommitSpares ==
    ASSUME NEW t, CommitsOf(t), NEW o \in Objects, o \notin txn[t].objs,
           txn[t].op = "apply" => <<o, plan.v>> \notin data.tags
    PROVE  /\ \A v \in Values :
                <<o, v>> \in data'.tags <=> <<o, v>> \in data.tags
           /\ \A v \in Values :
                <<o, v>> \in data.tags => data'.level[v] = data.level[v]
<1>1. PICK x : x = txn[t]
  OBVIOUS
<1>2. /\ x \in Rows
      /\ t \in Writers =>
           WritersRow(data, x) /\ x.op \in {"tag", "untag", "value"}
      /\ t = Lev!Admin => x.op \in {"apply", "refresh"}
      /\ t \in Writers <=> t /= Lev!Admin
      /\ data'.tags = SeenTags(data, x)
  BY <1>1, CommitIs
<1>3. x.op \in {"tag", "untag"} => o /= x.o
  BY <1>1, <1>2 DEF WritersRow
<1>4. \A v \in Values : <<o, v>> \in data'.tags <=> <<o, v>> \in data.tags
  BY <1>2, <1>3 DEF SeenTags
<1>5. ASSUME NEW v \in Values, <<o, v>> \in data.tags
      PROVE  data'.level[v] = data.level[v]
  <2>1. data.level \in [Values -> Lev!Ranks]
    BY DEF CommitsOf, LevelsInv, LevelsTyped, Lev!Database
  <2>2. x.op \in {"value", "apply"} => v /= x.v
    <3>1. x.op = "value" => o \notin Lev!Carriers(data.tags, x.v)
      BY <1>1, <1>2 DEF WritersRow
    <3>2. x.op = "apply" => x.v = plan.v
      BY <1>1, CommitOwes
    <3> QED BY <1>1, <1>5, <3>1, <3>2 DEF Lev!Carriers
  <2>3. /\ x.op \in {"tag", "untag", "refresh"} => data'.level = data.level
        /\ x.op \in {"value", "apply"} =>
             data'.level = [data.level EXCEPT ![x.v] = x.level]
    BY <1>1, CommitLevels
  <2> QED BY <1>2, <2>1, <2>2, <2>3
<1> QED BY <1>4, <1>5

LEMMA CommitGot ==
    ASSUME NEW t, CommitsOf(t)
    PROVE  AllGot'
<1>1. /\ LevelsTyped /\ RowsInOrder /\ AllApart /\ AllGot /\ LevelBounds
      /\ LevelsInv /\ t \in Lev!Txns
  BY DEF CommitsOf, LevelsInv
<1>2. PICK x : x = txn[t]
  OBVIOUS
<1>3. /\ x \in Rows /\ x.at = "held"
      /\ t \in Writers => x.op \in {"tag", "untag", "value"}
      /\ t = Lev!Admin => x.op \in {"apply", "refresh"}
      /\ txn'[t] = Lev!Idle
      /\ \A u \in Lev!Txns : u /= t => txn'[u] = txn[u]
      /\ t \in Writers <=> t /= Lev!Admin
      /\ data'.tags = SeenTags(data, x)
      /\ UNCHANGED plan
  BY <1>2, CommitIs
<1>4. /\ Lev!Idle.at = "idle" /\ \A o \in Objects : Refreshing(Lev!Idle, o)
  BY <1>1, IdleIs
<1>5. ASSUME NEW u \in Lev!Txns, u /= t, txn[u].at = "held",
             NEW o \in txn[u].objs
      PROVE  /\ Right(data, txn[u], o) =>
                  \/ Right(data, txn[u], o)'
                  \/ u \in Writers /\ Stale(txn[u], o)'
             /\ u \in Writers /\ Stale(txn[u], o) => Stale(txn[u], o)'
  <2>1. PICK y : y = txn[u]
    OBVIOUS
  <2>2. /\ y \in Rows /\ RowInOrder(u, y) /\ TwoApart(x, y) /\ y.at = "held"
        /\ txn'[u] = y /\ o \in Objects /\ o \notin x.objs
    BY <1>1, <1>2, <1>3, <1>5, <2>1
       DEF LevelsTyped, RowsInOrder, AllApart, TwoApart, Rows
  <2>3. y.op = "tag" => y.v \notin Lev!Changing(x)
    <3>1. y.op = "tag" => y.v \in y.shared
      BY <2>2 DEF RowInOrder, WritersRow, AdminsRow, Lev!Txns
    <3> QED BY <2>2, <3>1 DEF TwoApart
  <2>4. CASE x.op = "apply" /\ <<o, plan.v>> \in SeenTags(data, y)
    <3>1. /\ owed = "none" /\ owed' = "refresh" /\ x.v = plan.v
      BY <1>2, <2>4, CommitOwes
    <3>2. Lev!Changing(x) = {plan.v}
      BY <1>2, <2>4, <3>1, CommitLevels
    <3>3. <<o, plan.v>> \in data.tags
      BY <2>3, <2>4, <3>2 DEF SeenTags
    <3>4. data'.tags = data.tags
      BY <1>3, <2>4 DEF SeenTags
    <3>5. t = Lev!Admin /\ u \in Writers
      BY <1>3, <1>5, <2>4 DEF Lev!Txns
    <3>6. Refreshing(txn'[Lev!Admin], o)
      BY <1>3, <1>4, <2>2, <3>5
    <3>7. <<o, plan'.v>> \in SeenTags(data', txn'[u])
      BY <1>3, <2>2, <2>4, <3>4 DEF SeenTags
    <3>8. Stale(txn[u], o)'
      BY <1>3, <3>1, <3>3, <3>4, <3>6, <3>7 DEF Stale, SeenTags
    <3> QED BY <3>5, <3>8
  <2>5. CASE x.op = "apply" /\ <<o, plan.v>> \notin SeenTags(data, y)
    <3>1. /\ owed = "none" /\ x.v = plan.v
      BY <1>2, <2>5, CommitOwes
    <3>2. data'.tags = data.tags
      BY <1>3, <2>5 DEF SeenTags
    <3>3. data.level \in [Values -> Lev!Ranks]
      BY <1>1 DEF LevelsTyped, Lev!Database
    <3>4. data'.level = [data.level EXCEPT ![x.v] = x.level]
      BY <1>2, <2>5, CommitLevels
    <3>5. SeenTags(data', y) = SeenTags(data, y)
      BY <3>2 DEF SeenTags
    <3>6. ASSUME NEW v \in Values, <<o, v>> \in SeenTags(data, y)
          PROVE  SeenLevel(data', y)[v] = SeenLevel(data, y)[v]
      BY <2>5, <3>1, <3>3, <3>4, <3>6 DEF SeenLevel
    <3>7. Lev!Worked(SeenLevel(data', y), SeenTags(data', y), o)
             = Lev!Worked(SeenLevel(data, y), SeenTags(data, y), o)
      BY <3>5, <3>6, WorkedSame
    <3>8. Right(data, y, o) => Right(data', y, o)
      BY <3>7 DEF Right
    <3> QED BY <2>1, <2>2, <3>1, <3>8 DEF Right, Stale
  <2>6. CASE x.op /= "apply"
    <3>1. /\ \A v \in Values :
               <<o, v>> \in data'.tags <=> <<o, v>> \in data.tags
          /\ \A v \in Values :
               <<o, v>> \in data.tags => data'.level[v] = data.level[v]
      BY <1>2, <2>2, <2>6, CommitSpares
    <3>2. \A v \in Values :
            <<o, v>> \in SeenTags(data', y) <=> <<o, v>> \in SeenTags(data, y)
      BY <3>1, SeenOf
    <3>3. ASSUME NEW v \in Values, <<o, v>> \in SeenTags(data, y)
          PROVE  SeenLevel(data', y)[v] = SeenLevel(data, y)[v]
      <4>1. data.level \in [Values -> Lev!Ranks]
            /\ data'.level \in [Values -> Lev!Ranks]
        <5>1. data' \in Lev!Database
          BY CommitIs
        <5> QED BY <1>1, <5>1 DEF LevelsTyped, Lev!Database
      <4>2. data'.level[v] = data.level[v]
        <5>1. CASE <<o, v>> \in data.tags
          BY <3>1, <5>1
        <5>2. CASE <<o, v>> \notin data.tags
          <6>1. y.op = "tag" /\ v = y.v
            BY <3>3, <5>2 DEF SeenTags
          <6>2. v \notin Lev!Changing(x)
            BY <2>3, <6>1
          <6>3. /\ x.op \in {"tag", "untag", "refresh"} =>
                     data'.level = data.level
                /\ x.op \in {"value", "apply"} =>
                     /\ data'.level = [data.level EXCEPT ![x.v] = x.level]
                     /\ Lev!Changing(x) = {x.v}
            BY <1>2, CommitLevels
          <6>4. x.op \in {"tag", "untag", "refresh", "value", "apply"}
            BY <1>3
          <6> QED BY <4>1, <6>2, <6>3, <6>4
        <5> QED BY <5>1, <5>2
      <4> QED BY <4>1, <4>2 DEF SeenLevel
    <3>4. Lev!Worked(SeenLevel(data', y), SeenTags(data', y), o)
             = Lev!Worked(SeenLevel(data, y), SeenTags(data, y), o)
      BY <3>2, <3>3, WorkedSame
    <3>5. Right(data, y, o) => Right(data', y, o)
      BY <3>4 DEF Right
    <3>6. Right(data, txn[u], o) => Right(data, txn[u], o)'
      BY <2>1, <2>2, <3>5 DEF Right
    <3>7. u \in Writers /\ Stale(txn[u], o) => Stale(txn[u], o)'
      <4>1. SUFFICES ASSUME u \in Writers, Stale(y, o)
                     PROVE  Stale(txn[u], o)'
        BY <2>1
      <4>2. t \in Writers
        <5>1. ASSUME t = Lev!Admin PROVE FALSE
          <6>1. x.op = "refresh"
            BY <1>3, <2>6, <5>1
          <6>2. Refreshing(x, o)
            BY <1>2, <4>1, <5>1 DEF Stale
          <6> QED BY <2>2, <6>1, <6>2 DEF Refreshing
        <5> QED BY <1>3, <5>1
      <4>3. owed' = owed
        BY <4>2, CommitOwes
      <4>4. txn'[Lev!Admin] = txn[Lev!Admin]
        BY <1>3, <4>2 DEF Lev!Txns
      <4>5. plan.v \in Values
        BY <1>1 DEF LevelsTyped, Plans
      <4>6. /\ <<o, plan.v>> \in data'.tags
            /\ <<o, plan.v>> \in SeenTags(data', y)
        BY <3>1, <3>2, <4>1, <4>5 DEF Stale
      <4> QED BY <1>3, <2>2, <4>1, <4>3, <4>4, <4>6 DEF Stale, SeenTags
    <3> QED BY <3>6, <3>7
  <2> QED BY <2>4, <2>5, <2>6
<1>6. ASSUME NEW u \in Lev!Txns PROVE GotInOrder(u, txn[u])'
  <2>1. CASE u = t
    BY <1>3, <1>4, <2>1 DEF GotInOrder
  <2>2. CASE u /= t
    <3>1. txn'[u] = txn[u] /\ GotInOrder(u, txn[u])
      BY <1>1, <1>3, <2>2 DEF AllGot
    <3>2. CASE txn[u].at /= "held"
      BY <3>1, <3>2 DEF GotInOrder
    <3>3. CASE txn[u].at = "held"
      <4>1. ASSUME u \in Writers, NEW o \in txn[u].objs
            PROVE  Right(data, txn[u], o)' \/ Stale(txn[u], o)'
        BY <1>5, <2>2, <3>1, <3>3, <4>1 DEF GotInOrder
      <4>2. ASSUME u = Lev!Admin, txn[u].op = "refresh",
                   NEW o \in txn[u].objs
            PROVE  Right(data, txn[u], o)'
        <5>1. u \notin Writers
          BY <1>1, <4>2 DEF LevelBounds
        <5> QED BY <1>5, <2>2, <3>1, <3>3, <4>2, <5>1 DEF GotInOrder
      <4>3. \A o \in (txn[u].objs)' :
              u \in Writers => Right(data, txn[u], o)' \/ Stale(txn[u], o)'
        BY <3>1, <4>1
      <4>4. u = Lev!Admin /\ (txn[u].op)' = "refresh" =>
              \A o \in (txn[u].objs)' : Right(data, txn[u], o)'
        BY <3>1, <4>2
      <4> QED BY <4>3, <4>4 DEF GotInOrder
    <3> QED BY <3>2, <3>3
  <2> QED BY <2>1, <2>2
<1> QED BY <1>6 DEF AllGot

LEMMA CommitExact ==
    ASSUME NEW t, CommitsOf(t)
    PROVE  AllExact'
<1>1. /\ LevelsTyped /\ AllGot /\ AllExact /\ LevelBounds /\ LevelsInv
      /\ t \in Lev!Txns
  BY DEF CommitsOf, LevelsInv
<1>2. PICK x : x = txn[t]
  OBVIOUS
<1>3. /\ x \in Rows /\ x.at = "held"
      /\ t \in Writers =>
           WritersRow(data, x) /\ x.op \in {"tag", "untag", "value"}
      /\ t = Lev!Admin => x.op \in {"apply", "refresh"}
      /\ txn'[t] = Lev!Idle
      /\ \A u \in Lev!Txns : u /= t => txn'[u] = txn[u]
      /\ t \in Writers <=> t /= Lev!Admin
      /\ data'.tags = SeenTags(data, x)
      /\ \A o \in Objects :
           data'.kept[o] = IF o \in x.objs THEN x.got[o] ELSE data.kept[o]
      /\ UNCHANGED plan
  BY <1>2, CommitIs
<1>4. \A o \in Objects : Refreshing(Lev!Idle, o)
  BY <1>1, IdleIs
<1>5. ASSUME t \in Writers
      PROVE  owed' = owed /\ touched' = touched
             /\ txn'[Lev!Admin] = txn[Lev!Admin]
  BY <1>3, <1>5, CommitOwes DEF Lev!Txns
<1>6. x.op /= "apply" => data'.level = SeenLevel(data, x)
  <2>1. /\ x.op \in {"tag", "untag", "refresh"} => data'.level = data.level
        /\ x.op \in {"value", "apply"} =>
             data'.level = [data.level EXCEPT ![x.v] = x.level]
    BY <1>2, CommitLevels
  <2> QED BY <1>3, <2>1 DEF SeenLevel
<1>7. ASSUME NEW o \in Objects, o \in x.objs, x.op /= "apply"
      PROVE  data'.kept[o] = Lev!Worked(data'.level, data'.tags, o) \/ Owed(o)'
  <2>1. Right(data, x, o) \/ (t \in Writers /\ Stale(x, o))
    BY <1>1, <1>2, <1>3, <1>7 DEF AllGot, GotInOrder
  <2>2. CASE Right(data, x, o)
    BY <1>3, <1>6, <1>7, <2>2 DEF Right
  <2>3. CASE t \in Writers /\ Stale(x, o)
    BY <1>3, <1>5, <2>3 DEF Stale, Owed
  <2> QED BY <2>1, <2>2, <2>3
<1>8. ASSUME NEW o \in Objects, o \notin x.objs,
             x.op = "apply" => <<o, plan.v>> \notin data.tags
      PROVE  data'.kept[o] = Lev!Worked(data'.level, data'.tags, o) \/ Owed(o)'
  <2>1. /\ \A v \in Values : <<o, v>> \in data'.tags <=> <<o, v>> \in data.tags
        /\ \A v \in Values :
             <<o, v>> \in data.tags => data'.level[v] = data.level[v]
    BY <1>2, <1>8, CommitSpares
  <2>2. Lev!Worked(data'.level, data'.tags, o)
          = Lev!Worked(data.level, data.tags, o)
    BY <2>1, WorkedSame
  <2>3. data'.kept[o] = data.kept[o]
    BY <1>3, <1>8
  <2>4. Owed(o) => Owed(o)'
    <3>1. SUFFICES ASSUME Owed(o) PROVE Owed(o)'
      OBVIOUS
    <3>2. t \in Writers
      <4>1. ASSUME t = Lev!Admin PROVE FALSE
        <5>1. CASE x.op = "refresh"
          BY <1>2, <1>8, <3>1, <4>1, <5>1 DEF Owed, Refreshing
        <5>2. CASE x.op = "apply"
          BY <1>2, <3>1, <5>2, CommitOwes DEF Owed
        <5> QED BY <1>3, <4>1, <5>1, <5>2
      <4> QED BY <1>3, <4>1
    <3>3. plan.v \in Values
      BY <1>1 DEF LevelsTyped, Plans
    <3> QED BY <1>3, <1>5, <2>1, <3>1, <3>2, <3>3 DEF Owed
  <2>5. data.kept[o] = Lev!Worked(data.level, data.tags, o) \/ Owed(o)
    BY <1>1 DEF AllExact
  <2> QED BY <2>2, <2>3, <2>4, <2>5
<1>9. ASSUME NEW o \in Objects, x.op = "apply",
             o \in x.objs \/ <<o, plan.v>> \in data.tags
      PROVE  Owed(o)'
  <2>1. owed' = "refresh" /\ touched' = x.objs
    BY <1>2, <1>9, CommitOwes
  <2>2. t = Lev!Admin
    BY <1>3, <1>9
  <2>3. data'.tags = data.tags
    BY <1>3, <1>9 DEF SeenTags
  <2>4. Refreshing(txn'[Lev!Admin], o)
    BY <1>3, <1>4, <2>2
  <2> QED BY <1>3, <1>9, <2>1, <2>3, <2>4 DEF Owed
<1>10. ASSUME NEW o \in Objects
       PROVE  \/ data'.kept[o] = Lev!Worked(data'.level, data'.tags, o)
              \/ Owed(o)'
  BY <1>7, <1>8, <1>9
<1> QED BY <1>10 DEF AllExact

LEMMA CommitKeeps ==
    ASSUME NEW t, CommitsOf(t)
    PROVE  LevelsInv'
  BY CommitTyped, CommitRows, CommitApart, CommitGot, CommitExact, Zenon
     DEF LevelsInv

-----------------------------------------------------------------------------

LEMMA LevelsBegin ==
    ASSUME LevelBounds, Lev!Init
    PROVE  LevelsInv
<1>1. \A t \in Lev!Txns : txn[t] = Lev!Idle
  BY DEF Lev!Init
<1>2. /\ owed = "none" /\ touched = {} /\ begun = 0 /\ data.tags = {}
      /\ data.kept = [o \in Objects |-> Lev!Unset] /\ plan = Lev!NoPlan
      /\ data.level = [v \in Values |-> MaxLevel]
  BY DEF Lev!Init
<1>3. /\ Lev!Unset \in 1..Lev!Unset /\ MaxLevel \in Lev!Ranks
  BY DEF LevelBounds, Lev!Unset, Lev!Ranks
<1>4. data \in Lev!Database
  BY <1>3 DEF Lev!Init, Lev!Database
<1>5. plan \in Plans
  <2>1. (CHOOSE v \in Values : TRUE) \in Values
    BY DEF LevelBounds
  <2> QED BY <1>2, <1>3, <2>1 DEF Lev!NoPlan, Plans
<1>6. Lev!Idle \in Rows
  <2>1. (CHOOSE o \in Objects : TRUE) \in Objects
    BY DEF LevelBounds
  <2>2. (CHOOSE v \in Values : TRUE) \in Values
    BY DEF LevelBounds
  <2> QED BY <1>3, <2>1, <2>2 DEF Lev!Idle, Rows, Ops, Ats
<1>7. LevelsTyped
  <2>1. txn \in [Lev!Txns -> Rows]
    BY <1>6 DEF Lev!Init
  <2>2. begun \in 0..MaxLevelEvents
    BY <1>2 DEF LevelBounds
  <2> QED BY <1>2, <1>4, <1>5, <2>1, <2>2 DEF LevelsTyped
<1>8. /\ Lev!Idle.op = "none" /\ Lev!Idle.at = "idle"
      /\ Lev!Idle.shared = {} /\ Lev!Idle.objs = {}
  BY DEF Lev!Idle
<1>9. RowsInOrder
  BY <1>1, <1>8 DEF RowsInOrder, RowInOrder, WritersRow, AdminsRow
<1>10. AllApart
  BY <1>1, <1>8 DEF AllApart, TwoApart, Lev!Changing
<1>11. AllGot
  BY <1>1, <1>8 DEF AllGot, GotInOrder
<1>12. AllExact
  <2>1. ASSUME NEW o \in Objects
        PROVE  data.kept[o] = Lev!Worked(data.level, data.tags, o)
    <3>1. Lev!Named(data.tags, {o}) = {}
      BY <1>2 DEF Lev!Named
    <3>2. {data.level[v] : v \in Lev!Named(data.tags, {o})}
            \cup {Lev!Unset} = {Lev!Unset}
      BY <3>1
    <3>3. Lev!Worked(data.level, data.tags, o) = Lev!Lowest({Lev!Unset})
      BY <3>2 DEF Lev!Worked
    <3>4. Lev!Unset \in Nat
      BY DEF LevelBounds, Lev!Unset
    <3>5. Lev!Lowest({Lev!Unset}) \in {Lev!Unset}
      BY <3>4, LowestIs
    <3> QED BY <1>2, <3>3, <3>5
  <2> QED BY <2>1 DEF AllExact
<1> QED BY <1>7, <1>9, <1>10, <1>11, <1>12 DEF LevelsInv

LEMMA LevelsStep ==
    ASSUME LevelBounds, LevelsInv, [Lev!Next]_(Lev!vars)
    PROVE  LevelsInv'
<1>1. ASSUME NEW t \in Writers, Lev!Tags(t) PROVE LevelsInv'
  BY <1>1, TagsKeeps
<1>2. ASSUME NEW t \in Writers, Lev!Reviews(t) PROVE LevelsInv'
  BY <1>2, ReviewsKeeps
<1>3. ASSUME NEW t \in Lev!Txns, Lev!SharesValues(t) PROVE LevelsInv'
  BY <1>3, SharesKeeps
<1>4. ASSUME NEW t \in Lev!Txns, Lev!WorksLevels(t) PROVE LevelsInv'
  BY <1>4, WorksKeeps
<1>5. ASSUME NEW t \in Lev!Txns, Lev!Commits(t) PROVE LevelsInv'
  BY <1>5, CommitKeeps DEF CommitsOf
<1>6. ASSUME NEW t \in Lev!Txns, Lev!RollsBack(t) PROVE LevelsInv'
  BY <1>6, RollsKeeps
<1>7. CASE Lev!PlanPack
  BY <1>7, PlansKeeps
<1>8. CASE Lev!ApplyPack
  BY <1>8, AppliesKeeps
<1>9. CASE Lev!WritesValue
  BY <1>9, WritesValueKeeps
<1>10. CASE Lev!RefreshPackLevels
  BY <1>10, RefreshPackKeeps
<1>11. CASE Lev!RefreshIsLost
  BY <1>11, LosesKeeps
<1>12. CASE Lev!RefreshAllLevels
  BY <1>12, RefreshAllKeeps
<1>13. CASE UNCHANGED Lev!vars
  <2>1. UNCHANGED <<data, txn, plan, owed, touched, begun>>
    BY <1>13 DEF Lev!vars
  <2>2. LevelsTyped'
    BY <2>1 DEF LevelsInv, LevelsTyped
  <2>3. RowsInOrder'
    <3> SUFFICES ASSUME NEW t \in Lev!Txns PROVE RowInOrder(t, txn[t])'
      BY DEF RowsInOrder
    <3>1. RowInOrder(t, txn[t])
      BY DEF LevelsInv, RowsInOrder
    <3>2. t \in Writers => WritersRow(data, txn[t])'
      BY <2>1, <3>1 DEF RowInOrder, WritersRow
    <3>3. t = Lev!Admin => AdminsRow(data, txn[t])'
      BY <2>1, <3>1 DEF RowInOrder, AdminsRow, Lev!Base, Lev!Serializable
    <3> QED BY <2>1, <3>1, <3>2, <3>3 DEF RowInOrder
  <2>4. AllApart'
    BY <2>1 DEF LevelsInv, AllApart, TwoApart
  <2>5. AllGot'
    <3> SUFFICES ASSUME NEW t \in Lev!Txns PROVE GotInOrder(t, txn[t])'
      BY DEF AllGot
    <3>1. GotInOrder(t, txn[t])
      BY DEF LevelsInv, AllGot
    <3>2. \A o : Stale(txn[t], o) => Stale(txn[t], o)'
      BY <2>1 DEF Stale, Refreshing
    <3>3. \A o : Right(data, txn[t], o) => Right(data, txn[t], o)'
      BY <2>1
    <3> QED BY <2>1, <3>1, <3>2, <3>3 DEF GotInOrder
  <2>6. AllExact'
    <3>1. \A o : Owed(o) => Owed(o)'
      BY <2>1 DEF Owed, Refreshing
    <3> QED BY <2>1, <3>1 DEF LevelsInv, AllExact
  <2> QED BY <2>2, <2>3, <2>4, <2>5, <2>6 DEF LevelsInv
<1> QED BY <1>1, <1>2, <1>3, <1>4, <1>5, <1>6, <1>7, <1>8, <1>9, <1>10,
     <1>11, <1>12, <1>13 DEF Lev!Next

\* A pack's apply commits only while the value has the level the admin was
\* shown.
LEMMA AppliesAsPlanned ==
    ASSUME LevelBounds, LevelsInv, [Lev!Next]_(Lev!vars)
    PROVE  Lev!AsPlanned
<1>1. SUFFICES ASSUME owed = "none", owed' = "refresh"
               PROVE  data.level[plan.v] = plan.before
  BY DEF Lev!AsPlanned
<1>2. PICK t \in Lev!Txns : Lev!Commits(t)
  BY <1>1 DEF Lev!Next, Lev!vars, Lev!Tags, Lev!Reviews,
     Lev!SharesValues, Lev!WorksLevels, Lev!RollsBack, Lev!PlanPack,
     Lev!ApplyPack, Lev!WritesValue, Lev!RefreshPackLevels,
     Lev!RefreshIsLost, Lev!RefreshAllLevels
<1>3. CommitsOf(t)
  BY <1>1, <1>2 DEF CommitsOf
<1>4. txn[t].op = "apply"
  BY <1>1, <1>2 DEF Lev!Commits
<1> QED BY <1>3, <1>4, CommitOwes

-----------------------------------------------------------------------------
(* What arrives by upload and by mail.  ArrivesOnce is not inductive: that  *)
(* a file's second copy stands beside another person's first is so because  *)
(* each key has one first file, and that a message audited as taken has all *)
(* its files because the run that says so had recorded each before it.      *)

ArrivalBounds == NumMessages \in Nat /\ NumParts \in Nat /\ MaxFiles \in Nat

Owners == {"ann", "bob"}
Boxes == [seen : BOOLEAN, flagged : BOOLEAN, allow : BOOLEAN, deny : BOOLEAN]

FileShaped(f) ==
    /\ f = [key |-> f.key, n |-> f.n, owner |-> f.owner,
            content |-> f.content]
    /\ f.n \in Nat /\ f.owner \in Owners

FilesInOrder ==
    /\ IsFiniteSet(files) /\ Cardinality(files) <= MaxFiles
    /\ \A f \in files : FileShaped(f) /\ f.n \in 0..MaxFiles
    /\ \A f, g \in files : f.key = g.key /\ f.n = 0 /\ g.n = 0 => f = g
    /\ \A f \in files : \E h \in files : h.key = f.key /\ h.n = 0
    /\ Mail!OneFileEach

RunShaped(x) ==
    /\ x = [pc |-> x.pc, msg |-> x.msg, part |-> x.part, todo |-> x.todo]
    /\ x.pc \in {"idle", "look", "files", "taken", "refused"}
    /\ x.msg \in 0..NumMessages /\ x.part \in Nat
    /\ x.todo \subseteq Mail!Messages
    /\ x.pc /= "idle" => x.msg \in Mail!Messages

RunInOrder(x) ==
    /\ RunShaped(x)
    /\ x.pc = "files" =>
         \A n \in 1..Mail!Parts[x.msg] :
            n < x.part => Mail!Of(Mail!MailKey(x.msg, n)) /= {}
    /\ x.pc = "taken" => box[x.msg].allow
    /\ x.pc = "refused" => box[x.msg].deny

RunsAreInOrder ==
    /\ \A p \in Pollers : RunInOrder(run[p])
    /\ run = [p \in Pollers |-> run[p]]

UploadsInOrder ==
    /\ upload = [q \in Posts |-> upload[q]]
    /\ \A q \in Posts : upload[q].pc \in {"idle", "body"}

RestInOrder ==
    /\ member \in [Owners -> BOOLEAN] /\ granted \in BOOLEAN
    /\ zone \in {"none", "managed", "indexed"}
    /\ box \in [Mail!Messages -> Boxes]

ArrivalInv ==
    /\ FilesInOrder /\ RunsAreInOrder /\ UploadsInOrder /\ RestInOrder
    /\ Mail!MailIsHandled

-----------------------------------------------------------------------------
(* A file recorded.                                                         *)

LEMMA CardinalityIs ==
    ASSUME NEW S PROVE Mail!Cardinality(S) = Cardinality(S)
  BY Zenon DEF Mail!Cardinality, Cardinality

\* A file that is there gets its new content, and stays the one it was.
LEMMA KnownIsUpdated ==
    ASSUME FilesInOrder, NEW f0 \in files, NEW f1, f0.n = 0,
           FileShaped(f1), f1.key = f0.key, f1.n = 0, f1.owner = f0.owner,
           files' = (files \ {f0}) \cup {f1},
           Cardinality(files') <= MaxFiles, MaxFiles \in Nat
    PROVE  /\ FilesInOrder'
           /\ \A k : Mail!Of(k) /= {} => Mail!Of(k)' /= {}
<1>1. IsFiniteSet(files')
  BY FS_AddElement, FS_Subset DEF FilesInOrder
<1>2. \A f \in files' : FileShaped(f) /\ f.n \in 0..MaxFiles
  BY DEF FilesInOrder
<1>3. \A f, g \in files' : f.key = g.key /\ f.n = 0 /\ g.n = 0 => f = g
  BY DEF FilesInOrder
<1>4. \A f \in files : \E g \in files' :
        g.key = f.key /\ g.n = f.n /\ g.owner = f.owner
  OBVIOUS
<1>5. \A f \in files' : \E h \in files' : h.key = f.key /\ h.n = 0
  BY DEF FilesInOrder
<1>6. ASSUME NEW f \in files', NEW g \in files',
             f.key = g.key, f.owner = g.owner, f /= g
      PROVE  \E h \in files' : h.key = f.key /\ h.n = 0 /\ h.owner /= f.owner
  <2>1. PICK e \in files, d \in files :
          /\ e.key = f.key /\ e.owner = f.owner
          /\ d.key = f.key /\ d.owner = f.owner /\ e /= d
    BY <1>6
  <2>2. PICK h \in files : h.key = f.key /\ h.n = 0 /\ h.owner /= f.owner
    BY <2>1 DEF FilesInOrder, Mail!OneFileEach
  <2> QED BY <1>4, <2>2
<1>7. Mail!OneFileEach'
  BY <1>6 DEF Mail!OneFileEach
<1>8. ASSUME NEW k, Mail!Of(k) /= {} PROVE Mail!Of(k)' /= {}
  <2>1. PICK f \in files : f.key = k
    BY <1>8 DEF Mail!Of
  <2>2. PICK g \in files' : g.key = k
    BY <1>4, <2>1
  <2> QED BY <2>2 DEF Mail!Of
<1> QED BY <1>1, <1>2, <1>3, <1>5, <1>7, <1>8 DEF FilesInOrder

\* A file not there: the next of its key.
Unknown(k, o) == \A f \in files : ~(f.key = k /\ f.n = 0 /\ f.owner = o)
NextOf(w, k, o) ==
    /\ w = [key |-> w.key, n |-> w.n, owner |-> w.owner,
            content |-> w.content]
    /\ w.n = Cardinality(Mail!Of(k)) /\ w.key = k /\ w.owner = o

\* One that is not is the first for its key, or stands beside the first.
LEMMA NewIsAdded ==
    ASSUME FilesInOrder, NEW k, NEW o \in Owners, NEW w,
           NextOf(w, k, o), Unknown(k, o), files' = files \cup {w},
           Cardinality(files') <= MaxFiles, MaxFiles \in Nat
    PROVE  FilesInOrder'
<1>0. w.n = Cardinality(Mail!Of(k)) /\ w.key = k /\ w.owner = o
  BY DEF NextOf
<1>1. \A f \in files : ~(f.key = k /\ f.n = 0 /\ f.owner = o)
  BY DEF Unknown
<1>2. IsFiniteSet(files') /\ files' = files \cup {w}
  BY FS_AddElement DEF FilesInOrder
<1>3. IsFiniteSet(Mail!Of(k)) /\ Cardinality(Mail!Of(k)) \in 0..MaxFiles
  <2>1. Mail!Of(k) \subseteq files'
    BY DEF Mail!Of
  <2>2. /\ IsFiniteSet(Mail!Of(k))
        /\ Cardinality(Mail!Of(k)) <= Cardinality(files')
    BY <1>2, <2>1, FS_Subset
  <2>3. Cardinality(Mail!Of(k)) \in Nat /\ Cardinality(files') \in Nat
    BY <1>2, <2>2, FS_CardinalityType
  <2> QED BY <2>2, <2>3
<1>4. /\ w.key = k /\ w.owner = o /\ w.n \in 0..MaxFiles /\ FileShaped(w)
  BY <1>0, <1>3 DEF FileShaped, NextOf
<1>5. w.n = 0 <=> \A f \in files : f.key /= k
  <2>1. w.n = 0 <=> Mail!Of(k) = {}
    BY <1>0, <1>3, FS_EmptySet
  <2> QED BY <2>1 DEF Mail!Of
<1>6. \A f \in files' : FileShaped(f) /\ f.n \in 0..MaxFiles
  BY <1>2, <1>4 DEF FilesInOrder
<1>7. \A f, g \in files' : f.key = g.key /\ f.n = 0 /\ g.n = 0 => f = g
  BY <1>2, <1>4, <1>5 DEF FilesInOrder
<1>8. \A f \in files' : \E h \in files' : h.key = f.key /\ h.n = 0
  BY <1>2, <1>4, <1>5 DEF FilesInOrder
<1>9. ASSUME NEW f \in files', NEW g \in files',
             f.key = g.key, f.owner = g.owner, f /= g
      PROVE  \E h \in files' : h.key = f.key /\ h.n = 0 /\ h.owner /= f.owner
  <2>1. CASE f \in files /\ g \in files
    BY <1>2, <1>9, <2>1 DEF FilesInOrder, Mail!OneFileEach
  <2>2. CASE f = w \/ g = w
    <3>1. PICK e \in files : e.key = k
      BY <1>2, <1>4, <1>9, <2>2
    <3>2. PICK h \in files : h.key = k /\ h.n = 0
      BY <3>1 DEF FilesInOrder
    <3> QED BY <1>1, <1>2, <1>4, <1>9, <2>2, <3>2
  <2> QED BY <1>2, <2>1, <2>2
<1>10. Mail!OneFileEach'
  BY <1>9 DEF Mail!OneFileEach
<1> QED BY <1>2, <1>6, <1>7, <1>8, <1>10 DEF FilesInOrder

LEMMA RecordedIs ==
    ASSUME FilesInOrder, NEW k, NEW o \in Owners, NEW c,
           Mail!ingestManaged(k, o, c), MaxFiles \in Nat
    PROVE  /\ FilesInOrder'
           /\ \A j : Mail!Of(j) /= {} => Mail!Of(j)' /= {}
           /\ Mail!Of(k)' /= {}
           /\ \A f \in files' \ files : f.owner = o
           /\ zone' = "managed"
<1> DEFINE there == {f \in Mail!Of(k) : f.n = 0 /\ f.owner = o}
<1>2. /\ files' = IF there /= {}
                  THEN (files \ there) \cup
                       {[f EXCEPT !.content = c] : f \in there}
                  ELSE files \cup
                       {[key |-> k, n |-> Cardinality(Mail!Of(k)),
                         owner |-> o, content |-> c]}
      /\ Cardinality(files') <= MaxFiles /\ zone' = "managed"
  <2>1. /\ files' = IF there /= {}
                    THEN (files \ there) \cup
                         {[f EXCEPT !.content = c] : f \in there}
                    ELSE files \cup
                         {[key |-> k, n |-> Mail!Cardinality(Mail!Of(k)),
                           owner |-> o, content |-> c]}
        /\ Mail!Cardinality(files') <= MaxFiles /\ zone' = "managed"
    BY Zenon DEF Mail!ingestManaged, Mail!Ingested, there
  <2>2. Mail!Cardinality(Mail!Of(k)) = Cardinality(Mail!Of(k))
    BY CardinalityIs
  <2>3. Mail!Cardinality(files') = Cardinality(files')
    BY CardinalityIs
  <2> QED BY <2>1, <2>2, <2>3, Zenon
<1>3. CASE there /= {}
  <2>1. PICK f0 \in files : /\ f0 \in there /\ f0.key = k /\ f0.n = 0
                            /\ f0.owner = o
    BY <1>3 DEF Mail!Of
  <2>2. there = {f0}
    BY <2>1 DEF Mail!Of, FilesInOrder
  <2>3. PICK f1 : f1 = [f0 EXCEPT !.content = c]
    OBVIOUS
  <2>4. files' = (files \ {f0}) \cup {f1}
    BY <1>2, <1>3, <2>2, <2>3
  <2>5. FileShaped(f1) /\ f1.key = k /\ f1.n = 0 /\ f1.owner = o
    <3>1. FileShaped(f0)
      BY DEF FilesInOrder
    <3>2. f1 = [key |-> k, n |-> 0, owner |-> o, content |-> c]
      BY <2>1, <2>3, <3>1 DEF FileShaped
    <3> QED BY <3>2 DEF FileShaped
  <2>6. /\ FilesInOrder' /\ \A j : Mail!Of(j) /= {} => Mail!Of(j)' /= {}
    BY <1>2, <2>1, <2>4, <2>5, KnownIsUpdated
  <2>7. \A f \in files' \ files : f = f1
    BY <2>4
  <2>8. f1 \in Mail!Of(k)'
    BY <2>4, <2>5 DEF Mail!Of
  <2> QED BY <1>2, <2>5, <2>6, <2>7, <2>8
<1>4. CASE there = {}
  <2>1. PICK w : w = [key |-> k, n |-> Cardinality(Mail!Of(k)),
                      owner |-> o, content |-> c]
    OBVIOUS
  <2>2. files' = files \cup {w} /\ w.key = k /\ w.owner = o
    BY <1>2, <1>4, <2>1
  <2>3. Unknown(k, o)
    BY <1>4 DEF Mail!Of, Unknown
  <2>4. NextOf(w, k, o)
    BY <2>1 DEF NextOf
  <2>7. FilesInOrder'
    BY <1>2, <2>2, <2>3, <2>4, NewIsAdded
  <2>5. w \in Mail!Of(k)' /\ \A j : Mail!Of(j) \subseteq Mail!Of(j)'
    BY <2>2 DEF Mail!Of
  <2>6. \A f \in files' \ files : f = w
    BY <2>2
  <2> QED BY <1>2, <2>2, <2>5, <2>6, <2>7
<1> QED BY <1>3, <1>4

-----------------------------------------------------------------------------
(* What a step must keep.                                                   *)

FilesGrow == \A k : Mail!Of(k) /= {} => Mail!Of(k)' /= {}

\* What the audit says of a message is never unsaid.
SaidStays == \A m \in Mail!Messages :
    (box[m].allow => box[m].allow') /\ (box[m].deny => box[m].deny')

LEMMA FilesStay ==
    ASSUME UNCHANGED files
    PROVE  FilesGrow /\ (FilesInOrder => FilesInOrder')
  BY DEF FilesGrow, FilesInOrder, Mail!OneFileEach, Mail!Of

LEMMA BoxStays ==
    ASSUME UNCHANGED box
    PROVE  SaidStays
  BY DEF SaidStays

LEMMA RunStays ==
    ASSUME NEW x, RunInOrder(x), FilesGrow, SaidStays
    PROVE  RunInOrder(x)'
<1>1. RunShaped(x)
  BY DEF RunInOrder
<1>2. x.pc = "files" => \A n \in 1..Mail!Parts[x.msg] :
        n < x.part => Mail!Of(Mail!MailKey(x.msg, n))' /= {}
  BY DEF RunInOrder, FilesGrow
<1>3. x.pc = "taken" => box[x.msg].allow'
  BY <1>1, Zenon DEF RunInOrder, RunShaped, SaidStays
<1>4. x.pc = "refused" => box[x.msg].deny'
  BY <1>1, Zenon DEF RunInOrder, RunShaped, SaidStays
<1> QED BY <1>1, <1>2, <1>3, <1>4 DEF RunInOrder, Mail!Of, Mail!MailKey

LEMMA RunsStay ==
    ASSUME RunsAreInOrder, UNCHANGED run, FilesGrow, SaidStays
    PROVE  RunsAreInOrder'
<1>1. ASSUME NEW p \in Pollers PROVE RunInOrder(run[p])'
  <2>1. PICK x : x = run[p]
    OBVIOUS
  <2>2. RunInOrder(x)'
    BY <2>1, RunStays DEF RunsAreInOrder
  <2>3. run'[p] = x
    BY <2>1
  <2> QED BY <2>2, <2>3 DEF RunInOrder, RunShaped
<1> QED BY <1>1 DEF RunsAreInOrder

LEMMA OneRunMoves ==
    ASSUME RunsAreInOrder, NEW p \in Pollers, NEW y, RunInOrder(y)',
           run' = [run EXCEPT ![p] = y], FilesGrow, SaidStays
    PROVE  RunsAreInOrder'
<1>1. /\ run = [q \in Pollers |-> run[q]]
      /\ \A q \in Pollers : RunInOrder(run[q])
  BY DEF RunsAreInOrder
<1>2. /\ run' = [q \in Pollers |-> run'[q]] /\ run'[p] = y
      /\ \A q \in Pollers : q /= p => run'[q] = run[q]
  BY <1>1
<1>3. ASSUME NEW q \in Pollers PROVE RunInOrder(run[q])'
  <2>1. PICK x : x = run'[q]
    OBVIOUS
  <2>2. RunInOrder(x)'
    <3>1. CASE q = p
      BY <1>2, <2>1, <3>1
    <3>2. CASE q /= p
      BY <1>1, <1>2, <2>1, <3>2, RunStays
    <3> QED BY <3>1, <3>2
  <2> QED BY <2>1, <2>2 DEF RunInOrder, RunShaped
<1> QED BY <1>2, <1>3 DEF RunsAreInOrder

\* A run that is over, or looks at a message, says nothing of it yet.
LEMMA LooksInOrder ==
    ASSUME NEW y, RunShaped(y), y.pc \in {"idle", "look"}
    PROVE  RunInOrder(y)'
  BY DEF RunInOrder, RunShaped

LEMMA OnwardIs ==
    ASSUME ArrivalBounds, NEW p, NEW x, x.todo \subseteq Mail!Messages,
           Mail!Onward(p, x)
    PROVE  \E y : /\ run' = [run EXCEPT ![p] = y]
                  /\ RunShaped(y) /\ y.pc \in {"idle", "look"}
<1>1. CASE x.todo = {}
  <2>1. run' = [run EXCEPT ![p] = Mail!Asleep]
    BY <1>1 DEF Mail!Onward, Mail!Runs
  <2>2. RunShaped(Mail!Asleep) /\ Mail!Asleep.pc = "idle"
    BY DEF RunShaped, Mail!Asleep, ArrivalBounds
  <2> QED BY <2>1, <2>2
<1>2. CASE x.todo /= {}
  <2>1. PICK m : m = CHOOSE i \in x.todo : \A j \in x.todo : i <= j
    OBVIOUS
  <2>2. m \in x.todo
    <3>1. x.todo \subseteq Nat
      BY DEF Mail!Messages, ArrivalBounds
    <3> QED BY <1>2, <2>1, <3>1, LeastIs
  <2>3. PICK y : y = [pc |-> "look", msg |-> m, part |-> 0,
                      todo |-> x.todo \ {m}]
    OBVIOUS
  <2>4. run' = [run EXCEPT ![p] = y]
    BY <1>2, <2>1, <2>3 DEF Mail!Onward, Mail!Runs
  <2>5. RunShaped(y) /\ y.pc = "look"
    BY <2>2, <2>3 DEF RunShaped, Mail!Messages, ArrivalBounds
  <2> QED BY <2>4, <2>5
<1> QED BY <1>1, <1>2

LEMMA HandledStays ==
    ASSUME Mail!MailIsHandled, UNCHANGED box, FilesGrow
    PROVE  Mail!MailIsHandled'
  BY DEF Mail!MailIsHandled, FilesGrow, Mail!Of, Mail!MailKey

-----------------------------------------------------------------------------
(* A message's marks.                                                       *)

BoxChanges(m, b) ==
    /\ box' \in [Mail!Messages -> Boxes] /\ box'[m] = b
    /\ \A i \in Mail!Messages : i /= m => box'[i] = box[i]

LEMMA SaysDenied ==
    ASSUME box \in [Mail!Messages -> Boxes], NEW m \in Mail!Messages,
           NEW v \in BOOLEAN, box' = [box EXCEPT ![m].deny = v]
    PROVE  \E b \in Boxes :
             /\ BoxChanges(m, b) /\ b.deny = v /\ b.allow = box[m].allow
             /\ b.seen = box[m].seen /\ b.flagged = box[m].flagged
  BY DEF BoxChanges, Boxes

LEMMA SaysTaken ==
    ASSUME box \in [Mail!Messages -> Boxes], NEW m \in Mail!Messages,
           NEW v \in BOOLEAN, box' = [box EXCEPT ![m].allow = v]
    PROVE  \E b \in Boxes :
             /\ BoxChanges(m, b) /\ b.allow = v /\ b.deny = box[m].deny
             /\ b.seen = box[m].seen /\ b.flagged = box[m].flagged
  BY DEF BoxChanges, Boxes

LEMMA Marked ==
    ASSUME box \in [Mail!Messages -> Boxes], NEW m \in Mail!Messages,
           NEW v \in BOOLEAN, NEW w \in BOOLEAN,
           box' = [box EXCEPT ![m].seen = v, ![m].flagged = w]
    PROVE  \E b \in Boxes :
             /\ BoxChanges(m, b) /\ b.seen = v /\ b.flagged = w
             /\ b.allow = box[m].allow /\ b.deny = box[m].deny
<1>1. PICK b : b = [box[m] EXCEPT !.seen = v, !.flagged = w]
  OBVIOUS
<1>2. /\ b \in Boxes /\ b.seen = v /\ b.flagged = w
      /\ b.allow = box[m].allow /\ b.deny = box[m].deny
  BY <1>1 DEF Boxes
<1>3. box' = [box EXCEPT ![m] = b]
  BY <1>1
<1>4. BoxChanges(m, b)
  BY <1>2, <1>3 DEF BoxChanges
<1> QED BY <1>2, <1>4

-----------------------------------------------------------------------------
(* The uploads' steps.                                                      *)

LEMMA UploadMoves ==
    ASSUME UploadsInOrder, NEW q \in Posts, NEW x,
           x.pc \in {"idle", "body"}, Mail!Uploaded(q, x)
    PROVE  UploadsInOrder'
  BY DEF UploadsInOrder, Mail!Uploaded

\* A step of the uploads that records nothing.
LEMMA UploadKeeps ==
    ASSUME ArrivalInv, NEW q \in Posts,
           Mail!Arrive(q) \/ Mail!Refuse(q) \/ Mail!Interrupted(q)
    PROVE  ArrivalInv'
<1>1. UNCHANGED <<member, granted, zone, files, box, run>>
  BY DEF Mail!Arrive, Mail!Refuse, Mail!Interrupted
<1>2. \E x : x.pc \in {"idle", "body"} /\ Mail!Uploaded(q, x)
  <2>1. CASE Mail!Arrive(q)
    BY <2>1 DEF Mail!Arrive
  <2>2. CASE Mail!Refuse(q) \/ Mail!Interrupted(q)
    BY <2>2 DEF Mail!Refuse, Mail!Interrupted, Mail!Resting
  <2> QED BY <2>1, <2>2
<1>3. UploadsInOrder'
  BY <1>2, UploadMoves DEF ArrivalInv
<1>4. FilesInOrder' /\ FilesGrow /\ SaidStays
  BY <1>1, FilesStay, BoxStays DEF ArrivalInv
<1>5. RunsAreInOrder' /\ Mail!MailIsHandled'
  BY <1>1, <1>4, RunsStay, HandledStays DEF ArrivalInv
<1>6. RestInOrder'
  BY <1>1 DEF ArrivalInv, RestInOrder
<1> QED BY <1>3, <1>4, <1>5, <1>6 DEF ArrivalInv

LEMMA RecordKeeps ==
    ASSUME ArrivalBounds, ArrivalInv, NEW q \in Posts, Mail!Record(q)
    PROVE  ArrivalInv'
<1>1. PICK k, c : Mail!ingestManaged(k, "ann", c)
  BY DEF Mail!Record
<1>2. /\ UNCHANGED <<member, granted, box, run>>
      /\ Mail!Uploaded(q, Mail!Resting)
  BY DEF Mail!Record
<1>3. FilesInOrder' /\ FilesGrow /\ zone' = "managed"
  BY <1>1, RecordedIs DEF ArrivalInv, ArrivalBounds, FilesGrow, Owners
<1>4. UploadsInOrder'
  BY <1>2, UploadMoves DEF ArrivalInv, Mail!Resting
<1>5. RunsAreInOrder' /\ Mail!MailIsHandled'
  BY <1>2, <1>3, BoxStays, RunsStay, HandledStays DEF ArrivalInv
<1>6. RestInOrder'
  BY <1>2, <1>3 DEF ArrivalInv, RestInOrder
<1> QED BY <1>3, <1>4, <1>5, <1>6 DEF ArrivalInv

-----------------------------------------------------------------------------
(* The runs' steps.                                                         *)

\* A step of a run that leaves the files and the box alone.
LEMMA RunGoesOn ==
    ASSUME ArrivalInv, NEW p \in Pollers, NEW y, RunInOrder(y)',
           run' = [run EXCEPT ![p] = y],
           UNCHANGED <<member, granted, zone, files, box, upload>>
    PROVE  ArrivalInv'
<1>1. FilesInOrder' /\ FilesGrow /\ SaidStays
  BY FilesStay, BoxStays DEF ArrivalInv
<1>2. RunsAreInOrder' /\ Mail!MailIsHandled'
  BY <1>1, OneRunMoves, HandledStays DEF ArrivalInv
<1>3. UploadsInOrder' /\ RestInOrder'
  BY DEF ArrivalInv, UploadsInOrder, RestInOrder
<1> QED BY <1>1, <1>2, <1>3 DEF ArrivalInv

LEMMA TurnKeeps ==
    ASSUME ArrivalBounds, ArrivalInv, NEW p \in Pollers, Mail!Turn(p)
    PROVE  ArrivalInv'
<1>1. PICK unread \in SUBSET Mail!Messages :
        Mail!Onward(p, [Mail!Asleep EXCEPT !.todo = unread])
  BY DEF Mail!Turn
<1>2. PICK x : x = [Mail!Asleep EXCEPT !.todo = unread]
  OBVIOUS
<1>3. x.todo \subseteq Mail!Messages
  BY <1>2 DEF Mail!Asleep
<1>4. PICK y : /\ run' = [run EXCEPT ![p] = y]
               /\ RunShaped(y) /\ y.pc \in {"idle", "look"}
  BY <1>1, <1>2, <1>3, OnwardIs
<1>5. UNCHANGED <<member, granted, zone, files, box, upload>>
  BY DEF Mail!Turn
<1> QED BY <1>4, <1>5, LooksInOrder, RunGoesOn

LEMMA DeferredKeeps ==
    ASSUME ArrivalBounds, ArrivalInv, NEW p \in Pollers, Mail!Deferred(p)
    PROVE  ArrivalInv'
<1>1. run[p].todo \subseteq Mail!Messages
  BY DEF ArrivalInv, RunsAreInOrder, RunInOrder, RunShaped
<1>2. Mail!Onward(p, run[p])
  BY DEF Mail!Deferred
<1>3. PICK y : /\ run' = [run EXCEPT ![p] = y]
               /\ RunShaped(y) /\ y.pc \in {"idle", "look"}
  BY <1>1, <1>2, OnwardIs
<1>4. UNCHANGED <<member, granted, zone, files, box, upload>>
  BY DEF Mail!Deferred
<1> QED BY <1>3, <1>4, LooksInOrder, RunGoesOn

LEMMA DroppedKeeps ==
    ASSUME ArrivalBounds, ArrivalInv, NEW p \in Pollers, Mail!Dropped(p)
    PROVE  ArrivalInv'
<1>1. PICK y : y = Mail!Asleep
  OBVIOUS
<1>2. RunShaped(y) /\ y.pc = "idle"
  BY <1>1 DEF RunShaped, Mail!Asleep, ArrivalBounds
<1>3. run' = [run EXCEPT ![p] = y]
  BY <1>1 DEF Mail!Dropped, Mail!Runs
<1>4. UNCHANGED <<member, granted, zone, files, box, upload>>
  BY DEF Mail!Dropped
<1> QED BY <1>2, <1>3, <1>4, LooksInOrder, RunGoesOn

LEMMA BeginKeeps ==
    ASSUME ArrivalBounds, ArrivalInv, NEW p \in Pollers, Mail!Begin(p)
    PROVE  ArrivalInv'
<1>1. PICK x : x = run[p]
  OBVIOUS
<1>2. RunShaped(x) /\ x.pc = "look"
  BY <1>1 DEF ArrivalInv, RunsAreInOrder, RunInOrder, Mail!Begin
<1>3. PICK y : y = [x EXCEPT !.pc = "files", !.part = 1]
  OBVIOUS
<1>4. y = [pc |-> "files", msg |-> x.msg, part |-> 1, todo |-> x.todo]
  BY <1>2, <1>3 DEF RunShaped
<1>5. RunShaped(y) /\ y.pc = "files" /\ y.part = 1
  BY <1>2, <1>4 DEF RunShaped
<1>6. RunInOrder(y)'
  BY <1>5 DEF RunInOrder, RunShaped
<1>7. run' = [run EXCEPT ![p] = y]
  BY <1>1, <1>3 DEF Mail!Begin, Mail!Runs
<1>8. UNCHANGED <<member, granted, zone, files, box, upload>>
  BY DEF Mail!Begin
<1> QED BY <1>6, <1>7, <1>8, RunGoesOn

LEMMA RecordFileKeeps ==
    ASSUME ArrivalBounds, ArrivalInv, NEW p \in Pollers, Mail!RecordFile(p)
    PROVE  ArrivalInv'
<1>1. PICK x : x = run[p]
  OBVIOUS
<1>2. RunInOrder(x) /\ RunShaped(x) /\ x.pc = "files"
  BY <1>1 DEF ArrivalInv, RunsAreInOrder, RunInOrder, Mail!RecordFile
<1>3. PICK o : o = Mail!ownerOf
  OBVIOUS
<1>4. PICK k : k = Mail!MailKey(x.msg, x.part)
  OBVIOUS
<1>5. o \in Owners /\ Mail!ingestManaged(k, o, "c1")
  BY <1>1, <1>3, <1>4 DEF Mail!RecordFile, Mail!ownerOf, Owners
<1>6. /\ FilesInOrder' /\ FilesGrow /\ Mail!Of(k)' /= {}
      /\ zone' = "managed"
  BY <1>5, RecordedIs DEF ArrivalInv, ArrivalBounds, FilesGrow
<1>7. /\ UNCHANGED <<member, granted, box, upload>>
      /\ run' = [run EXCEPT ![p] = [x EXCEPT !.part = @ + 1]]
  BY <1>1 DEF Mail!RecordFile, Mail!Runs
<1>8. PICK y : y = [x EXCEPT !.part = @ + 1]
  OBVIOUS
<1>9. y = [pc |-> "files", msg |-> x.msg, part |-> x.part + 1,
           todo |-> x.todo]
  BY <1>2, <1>8 DEF RunShaped
<1>10. RunShaped(y)
  BY <1>2, <1>9 DEF RunShaped
<1>11. RunInOrder(y)'
  <2>1. ASSUME NEW n \in 1..Mail!Parts[x.msg], n < x.part + 1
        PROVE  Mail!Of(Mail!MailKey(x.msg, n))' /= {}
    <3>1. x.part \in Nat /\ n \in Int
      BY <1>2 DEF RunShaped
    <3>2. n < x.part \/ n = x.part
      BY <2>1, <3>1
    <3>3. CASE n < x.part
      BY <1>2, <1>6, <3>3 DEF RunInOrder, FilesGrow
    <3>4. CASE n = x.part
      BY <1>4, <1>6, <3>4
    <3> QED BY <3>2, <3>3, <3>4
  <2> QED BY <1>9, <1>10, <2>1 DEF RunInOrder, RunShaped, Mail!Of,
       Mail!MailKey
<1>12. RunsAreInOrder'
  BY <1>6, <1>7, <1>8, <1>11, BoxStays, OneRunMoves DEF ArrivalInv
<1>13. Mail!MailIsHandled'
  BY <1>6, <1>7, HandledStays DEF ArrivalInv
<1>14. UploadsInOrder' /\ RestInOrder'
  BY <1>6, <1>7 DEF ArrivalInv, UploadsInOrder, RestInOrder
<1> QED BY <1>6, <1>12, <1>13, <1>14 DEF ArrivalInv

\* A step of a run that says something of its message.
LEMMA RunSays ==
    ASSUME ArrivalInv, NEW p \in Pollers, NEW y, RunInOrder(y)', SaidStays,
           run' = [run EXCEPT ![p] = y], Mail!MailIsHandled',
           box' \in [Mail!Messages -> Boxes],
           UNCHANGED <<member, granted, zone, files, upload>>
    PROVE  ArrivalInv'
<1>1. FilesInOrder' /\ FilesGrow
  BY FilesStay DEF ArrivalInv
<1>2. RunsAreInOrder'
  BY <1>1, OneRunMoves DEF ArrivalInv
<1>3. UploadsInOrder' /\ RestInOrder'
  BY DEF ArrivalInv, UploadsInOrder, RestInOrder
<1> QED BY <1>1, <1>2, <1>3 DEF ArrivalInv

HandledIs(m, b) ==
    /\ b.seen => b.allow \/ b.deny
    /\ b.seen /\ ~b.flagged => b.allow
    /\ b.allow => \A n \in 1..Mail!Parts[m] : Mail!Of(Mail!MailKey(m, n)) /= {}

LEMMA OneIsHandled ==
    ASSUME Mail!MailIsHandled, NEW m \in Mail!Messages, NEW b \in Boxes,
           BoxChanges(m, b), HandledIs(m, b), UNCHANGED files
    PROVE  Mail!MailIsHandled'
<1>1. ASSUME NEW i \in Mail!Messages PROVE HandledIs(i, box'[i])
  <2>1. CASE i = m
    BY <2>1 DEF BoxChanges
  <2>2. CASE i /= m
    <3>1. box'[i] = box[i]
      BY <2>2 DEF BoxChanges
    <3>2. HandledIs(i, box[i])
      BY DEF HandledIs, Mail!MailIsHandled
    <3> QED BY <3>1, <3>2
  <2> QED BY <2>1, <2>2
<1>2. \A k : Mail!Of(k)' = Mail!Of(k)
  BY DEF Mail!Of
<1> QED BY <1>1, <1>2 DEF HandledIs, Mail!MailIsHandled, Mail!MailKey

LEMMA SaidBy ==
    ASSUME NEW m \in Mail!Messages, NEW b, BoxChanges(m, b),
           box[m].allow => b.allow, box[m].deny => b.deny
    PROVE  SaidStays
<1>1. ASSUME NEW i \in Mail!Messages
      PROVE  (box[i].allow => box[i].allow') /\ (box[i].deny => box[i].deny')
  <2>1. CASE i = m
    BY <2>1, Zenon DEF BoxChanges
  <2>2. CASE i /= m
    BY <2>2, Zenon DEF BoxChanges
  <2> QED BY <2>1, <2>2
<1> QED BY <1>1, Zenon DEF SaidStays

LEMMA DeniedKeeps ==
    ASSUME ArrivalBounds, ArrivalInv, NEW p \in Pollers, Mail!Denied(p)
    PROVE  ArrivalInv'
<1>1. PICK x : x = run[p]
  OBVIOUS
<1>2. RunShaped(x) /\ x.pc \in {"look", "files"}
  BY <1>1 DEF ArrivalInv, RunsAreInOrder, RunInOrder, Mail!Denied
<1>3. PICK y : y = [x EXCEPT !.pc = "refused"]
  OBVIOUS
<1>4. y = [pc |-> "refused", msg |-> x.msg, part |-> x.part,
           todo |-> x.todo]
  BY <1>2, <1>3 DEF RunShaped
<1>5. /\ RunShaped(y) /\ y.pc = "refused" /\ y.msg = x.msg
      /\ x.msg \in Mail!Messages
  BY <1>2, <1>4 DEF RunShaped
<1>6. /\ run' = [run EXCEPT ![p] = y]
      /\ box' = [box EXCEPT ![x.msg].deny = TRUE]
      /\ UNCHANGED <<member, granted, zone, files, upload>>
  BY <1>1, <1>3 DEF Mail!Denied, Mail!Runs
<1>7. TRUE \in BOOLEAN /\ box \in [Mail!Messages -> Boxes]
  BY DEF ArrivalInv, RestInOrder
<1>8. PICK b \in Boxes :
        /\ BoxChanges(x.msg, b) /\ b.deny = TRUE
        /\ b.allow = box[x.msg].allow
        /\ b.seen = box[x.msg].seen /\ b.flagged = box[x.msg].flagged
  BY <1>5, <1>6, <1>7, SaysDenied, Zenon
<1>9. SaidStays
  <2>1. b.deny /\ (box[x.msg].allow => b.allow)
    BY <1>8, Zenon
  <2> QED BY <1>5, <1>8, <2>1, SaidBy, Zenon
<1>10. RunInOrder(y)'
  <2>1. box'[x.msg].deny = TRUE
    BY <1>8 DEF BoxChanges
  <2> QED BY <1>5, <2>1 DEF RunInOrder, RunShaped
<1>11. Mail!MailIsHandled'
  <2>1. HandledIs(x.msg, box[x.msg])
    BY <1>5 DEF ArrivalInv, Mail!MailIsHandled, HandledIs
  <2>2. HandledIs(x.msg, b)
    BY <1>8, <2>1, Zenon DEF HandledIs
  <2> QED BY <1>5, <1>6, <1>8, <2>2, OneIsHandled DEF ArrivalInv
<1>12. box' \in [Mail!Messages -> Boxes]
  BY <1>8 DEF BoxChanges
<1> QED BY <1>6, <1>9, <1>10, <1>11, <1>12, RunSays

LEMMA TakenKeeps ==
    ASSUME ArrivalBounds, ArrivalInv, NEW p \in Pollers, Mail!Taken(p)
    PROVE  ArrivalInv'
<1>1. PICK x : x = run[p]
  OBVIOUS
<1>2. /\ RunInOrder(x) /\ RunShaped(x) /\ x.pc = "files"
      /\ x.part > Mail!Parts[x.msg]
  BY <1>1 DEF ArrivalInv, RunsAreInOrder, RunInOrder, Mail!Taken, Mail!Whole
<1>3. PICK y : y = [x EXCEPT !.pc = "taken"]
  OBVIOUS
<1>4. y = [pc |-> "taken", msg |-> x.msg, part |-> x.part,
           todo |-> x.todo]
  BY <1>2, <1>3 DEF RunShaped
<1>5. /\ RunShaped(y) /\ y.pc = "taken" /\ y.msg = x.msg
      /\ x.msg \in Mail!Messages
  BY <1>2, <1>4 DEF RunShaped
<1>6. /\ run' = [run EXCEPT ![p] = y]
      /\ box' = [box EXCEPT ![x.msg].allow = TRUE]
      /\ UNCHANGED <<member, granted, zone, files, upload>>
  BY <1>1, <1>3 DEF Mail!Taken, Mail!Runs
<1>7. TRUE \in BOOLEAN /\ box \in [Mail!Messages -> Boxes]
  BY DEF ArrivalInv, RestInOrder
<1>8. PICK b \in Boxes :
        /\ BoxChanges(x.msg, b) /\ b.allow = TRUE
        /\ b.deny = box[x.msg].deny
        /\ b.seen = box[x.msg].seen /\ b.flagged = box[x.msg].flagged
  BY <1>5, <1>6, <1>7, SaysTaken, Zenon
<1>9. SaidStays
  <2>1. b.allow /\ (box[x.msg].deny => b.deny)
    BY <1>8, Zenon
  <2> QED BY <1>5, <1>8, <2>1, SaidBy, Zenon
<1>10. RunInOrder(y)'
  <2>1. box'[x.msg].allow = TRUE
    BY <1>8 DEF BoxChanges
  <2> QED BY <1>5, <2>1 DEF RunInOrder, RunShaped
<1>11. Mail!MailIsHandled'
  <2>1. ASSUME NEW n \in 1..Mail!Parts[x.msg]
        PROVE  Mail!Of(Mail!MailKey(x.msg, n)) /= {}
    <3>1. Mail!Parts[x.msg] \in Nat
      BY <1>5 DEF Mail!Parts, ArrivalBounds
    <3>2. x.part \in Nat /\ n \in Nat /\ n < x.part
      BY <1>2, <2>1, <3>1 DEF RunShaped
    <3> QED BY <1>2, <3>2 DEF RunInOrder
  <2>2. HandledIs(x.msg, b)
    <3>1. b.allow
      BY <1>8
    <3> QED BY <2>1, <3>1, Zenon DEF HandledIs
  <2> QED BY <1>5, <1>6, <1>8, <2>2, OneIsHandled DEF ArrivalInv
<1>12. box' \in [Mail!Messages -> Boxes]
  BY <1>8 DEF BoxChanges
<1> QED BY <1>6, <1>9, <1>10, <1>11, <1>12, RunSays

LEMMA MarkKeeps ==
    ASSUME ArrivalBounds, ArrivalInv, NEW p \in Pollers, Mail!Mark(p)
    PROVE  ArrivalInv'
<1>1. PICK x : x = run[p]
  OBVIOUS
<1>2. RunInOrder(x) /\ RunShaped(x) /\ x.pc \in {"taken", "refused"}
  BY <1>1 DEF ArrivalInv, RunsAreInOrder, RunInOrder, Mail!Mark
<1>3. x.msg \in Mail!Messages /\ x.todo \subseteq Mail!Messages
  BY <1>2 DEF RunShaped
<1>4. PICK w \in BOOLEAN : w = (box[x.msg].flagged \/ x.pc = "refused")
  OBVIOUS
<1>5. box \in [Mail!Messages -> Boxes]
  BY DEF ArrivalInv, RestInOrder
<1>6. /\ Mail!Onward(p, x)
      /\ UNCHANGED <<member, granted, zone, files, upload>>
  BY <1>1 DEF Mail!Mark
<1>7. box' = [box EXCEPT ![x.msg].seen = TRUE, ![x.msg].flagged = w]
  BY <1>1, <1>3, <1>4, <1>5 DEF Mail!Mark
<1>8. PICK b \in Boxes :
        /\ BoxChanges(x.msg, b) /\ b.seen = TRUE /\ b.flagged = w
        /\ b.allow = box[x.msg].allow /\ b.deny = box[x.msg].deny
  BY <1>3, <1>5, <1>7, Marked, Zenon
<1>9. SaidStays
  BY <1>3, <1>8, SaidBy, Zenon
<1>10. PICK y : /\ run' = [run EXCEPT ![p] = y]
                /\ RunShaped(y) /\ y.pc \in {"idle", "look"}
  BY <1>3, <1>6, OnwardIs
<1>11. HandledIs(x.msg, b)
  <2>1. HandledIs(x.msg, box[x.msg])
    BY <1>3 DEF ArrivalInv, Mail!MailIsHandled, HandledIs
  <2>2. (b.allow => box[x.msg].allow) /\ (box[x.msg].allow => b.allow)
        /\ (box[x.msg].deny => b.deny)
    BY <1>8, Zenon
  <2>3. CASE x.pc = "taken"
    <3>1. box[x.msg].allow
      BY <1>2, <2>3 DEF RunInOrder
    <3> QED BY <2>1, <2>2, <3>1, Zenon DEF HandledIs
  <2>4. CASE x.pc = "refused"
    <3>1. box[x.msg].deny
      BY <1>2, <2>4 DEF RunInOrder
    <3>2. b.flagged
      BY <1>4, <1>8, <2>4, Zenon
    <3> QED BY <2>1, <2>2, <3>1, <3>2, Zenon DEF HandledIs
  <2> QED BY <1>2, <2>3, <2>4
<1>12. Mail!MailIsHandled'
  BY <1>3, <1>6, <1>8, <1>11, OneIsHandled DEF ArrivalInv
<1>13. box' \in [Mail!Messages -> Boxes]
  BY <1>8 DEF BoxChanges
<1>14. RunInOrder(y)'
  BY <1>10, LooksInOrder
<1> QED BY <1>6, <1>9, <1>10, <1>12, <1>13, <1>14, RunSays

LEMMA ChangeKeeps ==
    ASSUME ArrivalInv, Mail!Change
    PROVE  ArrivalInv'
<1>1. UNCHANGED <<files, box, upload, run>>
  BY DEF Mail!Change
<1>2. RestInOrder'
  <2>1. CASE UNCHANGED member
    BY <1>1, <2>1 DEF ArrivalInv, RestInOrder, Mail!Change
  <2>2. ASSUME NEW u \in {"ann", "bob"},
               member' = [member EXCEPT ![u] = ~member[u]],
               UNCHANGED <<granted, zone>>
        PROVE  RestInOrder'
    BY <1>1, <2>2 DEF ArrivalInv, RestInOrder, Owners
  <2> QED BY <2>1, <2>2 DEF Mail!Change
<1>3. FilesInOrder' /\ FilesGrow /\ SaidStays
  BY <1>1, FilesStay, BoxStays DEF ArrivalInv
<1>4. RunsAreInOrder' /\ Mail!MailIsHandled'
  BY <1>1, <1>3, RunsStay, HandledStays DEF ArrivalInv
<1>5. UploadsInOrder'
  BY <1>1 DEF ArrivalInv, UploadsInOrder
<1> QED BY <1>2, <1>3, <1>4, <1>5 DEF ArrivalInv

-----------------------------------------------------------------------------

LEMMA ArrivalBegins ==
    ASSUME ArrivalBounds, Mail!Init
    PROVE  ArrivalInv
<1>1. FilesInOrder
  BY FS_EmptySet DEF Mail!Init, FilesInOrder, Mail!OneFileEach, ArrivalBounds
<1>2. /\ run = [p \in Pollers |-> Mail!Asleep]
      /\ upload = [q \in Posts |-> Mail!Resting]
  BY DEF Mail!Init
<1>3. RunsAreInOrder
  <2>1. RunShaped(Mail!Asleep) /\ Mail!Asleep.pc = "idle"
    BY DEF RunShaped, Mail!Asleep, ArrivalBounds
  <2> QED BY <1>2, <2>1 DEF RunsAreInOrder, RunInOrder
<1>4. UploadsInOrder
  BY <1>2 DEF UploadsInOrder, Mail!Resting
<1>5. PICK b \in Boxes : /\ b.seen = FALSE /\ b.allow = FALSE
                         /\ box = [m \in Mail!Messages |-> b]
  BY DEF Mail!Init, Boxes
<1>6. RestInOrder
  BY <1>5 DEF Mail!Init, RestInOrder, Owners
<1>7. Mail!MailIsHandled
  <2>1. ASSUME NEW m \in Mail!Messages
        PROVE  box[m].seen = FALSE /\ box[m].allow = FALSE
    BY <1>5, <2>1
  <2> QED BY <2>1, Zenon DEF Mail!MailIsHandled
<1> QED BY <1>1, <1>3, <1>4, <1>6, <1>7 DEF ArrivalInv

LEMMA ArrivalStep ==
    ASSUME ArrivalBounds, ArrivalInv, [Mail!Next]_(Mail!vars)
    PROVE  ArrivalInv'
<1>1. ASSUME NEW q \in Posts,
             Mail!Arrive(q) \/ Mail!Refuse(q) \/ Mail!Interrupted(q)
      PROVE  ArrivalInv'
  BY <1>1, UploadKeeps
<1>2. ASSUME NEW q \in Posts, Mail!Record(q) PROVE ArrivalInv'
  BY <1>2, RecordKeeps
<1>3. ASSUME NEW p \in Pollers,
             Mail!Turn(p) \/ Mail!Denied(p) \/ Mail!Begin(p) \/ Mail!Taken(p)
      PROVE  ArrivalInv'
  BY <1>3, TurnKeeps, DeniedKeeps, BeginKeeps, TakenKeeps
<1>4. ASSUME NEW p \in Pollers,
             Mail!RecordFile(p) \/ Mail!Mark(p) \/ Mail!Deferred(p)
               \/ Mail!Dropped(p)
      PROVE  ArrivalInv'
  BY <1>4, RecordFileKeeps, MarkKeeps, DeferredKeeps, DroppedKeeps
<1>5. CASE Mail!Change
  BY <1>5, ChangeKeeps
<1>6. CASE UNCHANGED Mail!vars
  <2>1. UNCHANGED <<member, granted, zone, files, box, upload, run>>
    BY <1>6 DEF Mail!vars
  <2>2. FilesInOrder' /\ FilesGrow /\ SaidStays
    BY <2>1, FilesStay, BoxStays DEF ArrivalInv
  <2>3. RunsAreInOrder' /\ Mail!MailIsHandled'
    BY <2>1, <2>2, RunsStay, HandledStays DEF ArrivalInv
  <2>4. UploadsInOrder' /\ RestInOrder'
    BY <2>1 DEF ArrivalInv, UploadsInOrder, RestInOrder
  <2> QED BY <2>2, <2>3, <2>4 DEF ArrivalInv
<1> QED BY <1>1, <1>2, <1>3, <1>4, <1>5, <1>6 DEF Mail!Next

LEMMA StepIsAllowed ==
    ASSUME ArrivalBounds, ArrivalInv, Mail!Next
    PROVE  Mail!WhileAllowed
<1>1. /\ FilesInOrder /\ MaxFiles \in Nat /\ UploadsInOrder
  BY DEF ArrivalInv, ArrivalBounds
<1>2. CASE UNCHANGED files
  BY <1>2 DEF Mail!WhileAllowed, Mail!ByGrant
<1>3. ASSUME NEW q \in Posts, Mail!Record(q) PROVE Mail!WhileAllowed
  <2>1. /\ member["ann"] /\ (upload[q].by = "token" => granted)
        /\ Mail!Uploaded(q, Mail!Resting)
    BY <1>3 DEF Mail!Record, Mail!StillAllowed
  <2>2. PICK k, c : Mail!ingestManaged(k, "ann", c)
    BY <1>3 DEF Mail!Record
  <2>3. \A f \in files' \ files : f.owner = "ann"
    BY <1>1, <2>2, RecordedIs DEF Owners
  <2>4. \A i \in Posts : i /= q => upload'[i] = upload[i]
    BY <1>1, <2>1 DEF UploadsInOrder, Mail!Uploaded
  <2>5. Mail!ByGrant
    BY <2>1, <2>4 DEF Mail!ByGrant
  <2> QED BY <2>1, <2>3, <2>5 DEF Mail!WhileAllowed, Mail!MayReceive
<1>4. ASSUME NEW p \in Pollers, Mail!RecordFile(p) PROVE Mail!WhileAllowed
  <2>1. PICK k, o : /\ o = Mail!ownerOf /\ o /= "nobody"
                    /\ Mail!ingestManaged(k, o, "c1")
    BY <1>4 DEF Mail!RecordFile
  <2>2. o \in Owners /\ member[o]
    BY <2>1 DEF Mail!ownerOf, Owners
  <2>3. \A f \in files' \ files : f.owner = o
    BY <1>1, <2>1, <2>2, RecordedIs
  <2>4. Mail!ByGrant
    BY <1>4 DEF Mail!RecordFile, Mail!ByGrant
  <2> QED BY <2>2, <2>3, <2>4 DEF Mail!WhileAllowed, Mail!MayReceive
<1> QED BY <1>2, <1>3, <1>4 DEF Mail!Next, Mail!Arrive, Mail!Refuse,
     Mail!Interrupted, Mail!Turn, Mail!Denied, Mail!Begin, Mail!Taken,
     Mail!Mark, Mail!Deferred, Mail!Dropped, Mail!Change

-----------------------------------------------------------------------------
(* Tags and their review.  FileInOrder needs to know where a tag is from    *)
(* and that its value is approved; that a decision opens the file to nobody *)
(* is a matter of its level before and after, which is the tightest of what *)
(* sets one.                                                                *)

\* What a file's tag for a value can be, and an item that waits.
Tagging   == [source : {"none", "model", "rule", "user"}, reviewed : BOOLEAN,
              guess : BOOLEAN, home : {"none", "rule", "user"}]
Waiting   == [state : {"open"}, object : Docs, value : Facet,
              reason : {"new-value", "model", "conflict"},
              source : {"model", "rule"}]
ItemRows  == Waiting \cup {Tags!NoItem, Tags!Closed}
TagBases  == [tags : [Docs -> [Facet -> Tagging]],
              items : [1..NumItems -> ItemRows],
              vocab : [Facet -> {"unknown", "proposed", "approved"}]]

\* A tag is there by someone, a home vouched for, and its value approved.
TagRight(s, v, t) ==
    /\ t.source = "none" => t = Tags!NoTag
    /\ t.home /= "none" => Tags!Trusted(t)
    /\ t /= Tags!NoTag => Tags!Known(s, v)

OneTagEach(s) == \A o \in Docs, v, w \in Facet :
    Tags!Has(s, o, v) /\ Tags!Has(s, o, w) => v = w
OneItemEach(s) == \A i, j \in Tags!Open(s) :
    /\ s.items[i].object = s.items[j].object
    /\ s.items[i].value = s.items[j].value
    => i = j

\* Only a new value waits for its approval.
OthersKnown(s) == \A i \in Tags!Open(s) :
    s.items[i].reason /= "new-value" => Tags!Known(s, s.items[i].value)

Tagged(s) ==
    /\ s \in TagBases
    /\ \A o \in Docs, v \in Facet : TagRight(s, v, s.tags[o][v])
    /\ OneTagEach(s) /\ OneItemEach(s) /\ OthersKnown(s)

Hows == [item : 1..NumItems, kind : {"approve", "reject", "merge"},
         into : Facet, replace : BOOLEAN]

TagsInv ==
    /\ Tagged(base)
    /\ named \subseteq Facet
    /\ asks \in [Reviewers -> Hows \cup {Tags!NotAsking}]

-----------------------------------------------------------------------------
(* The operators.                                                           *)

\* An open item is one that waits.
LEMMA OpenWaits ==
    ASSUME NEW s \in TagBases, NEW i \in 1..NumItems
    PROVE  /\ i \in Tags!Open(s) <=> s.items[i] \in Waiting
           /\ i \in Tags!Open(s) =>
                /\ s.items[i].object \in Docs /\ s.items[i].value \in Facet
                /\ s.items[i].state = "open"
                /\ s.items[i].reason \in {"new-value", "model", "conflict"}
                /\ s.items[i].source \in {"model", "rule"}
<1>1. s.items[i] \in ItemRows
  BY DEF TagBases
<1>2. Tags!NoItem.state = "none" /\ Tags!Closed.state = "closed"
  BY DEF Tags!NoItem, Tags!Closed
<1>3. \A x \in Waiting : /\ x.object \in Docs /\ x.value \in Facet
                         /\ x.state = "open"
                         /\ x.reason \in {"new-value", "model", "conflict"}
                         /\ x.source \in {"model", "rule"}
  BY DEF Waiting
<1>4. i \in Tags!Open(s) <=> s.items[i].state = "open"
  BY DEF Tags!Open
<1>5. s.items[i] \in Waiting <=> s.items[i].state = "open"
  BY <1>1, <1>2, <1>3 DEF ItemRows
<1> QED BY <1>3, <1>4, <1>5

LEMMA CloseKeeps ==
    ASSUME NEW s, NEW is, Tagged(s), is \subseteq 1..NumItems
    PROVE  /\ Tagged(Tags!Close(s, is))
           /\ Tags!Close(s, is).tags = s.tags
           /\ Tags!Close(s, is).vocab = s.vocab
           /\ Tags!Open(Tags!Close(s, is)) = Tags!Open(s) \ is
           /\ is \subseteq Tags!Open(s) =>
                 Tags!Fresh(Tags!Close(s, is)) = Tags!Fresh(s)
           /\ \A i \in Tags!Open(s) \ is :
                 Tags!Close(s, is).items[i] = s.items[i]
<1> DEFINE c == Tags!Close(s, is)
<1>0. s \in TagBases /\ OneTagEach(s) /\ OneItemEach(s) /\ OthersKnown(s)
  BY DEF Tagged
<1>1. c = [s EXCEPT !.items = [i \in 1..NumItems |->
                  IF i \in is THEN Tags!Closed ELSE s.items[i]]]
  BY DEF Tags!Close
<1>2. /\ c.tags = s.tags /\ c.vocab = s.vocab
      /\ c.items = [i \in 1..NumItems |->
                  IF i \in is THEN Tags!Closed ELSE s.items[i]]
  BY <1>0, <1>1 DEF TagBases
<1>3. c \in TagBases
  <2>1. [i \in 1..NumItems |-> IF i \in is THEN Tags!Closed ELSE s.items[i]]
           \in [1..NumItems -> ItemRows]
    BY <1>0 DEF TagBases, ItemRows
  <2> QED BY <1>0, <1>1, <2>1 DEF TagBases
<1>4. /\ Tags!NoItem /= Tags!Closed /\ Tags!Closed.state = "closed"
      /\ Tags!NoItem.state = "none"
  <2>1. Tags!Closed.state = "closed" /\ Tags!NoItem.state = "none"
    BY DEF Tags!NoItem, Tags!Closed
  <2> QED BY <2>1
<1>5. \A i \in 1..NumItems :
         c.items[i] = IF i \in is THEN Tags!Closed ELSE s.items[i]
  BY <1>2
<1>6. Tags!Open(c) = Tags!Open(s) \ is
  BY <1>4, <1>5 DEF Tags!Open
<1>7. ASSUME is \subseteq Tags!Open(s) PROVE Tags!Fresh(c) = Tags!Fresh(s)
  <2>1. \A i \in is : i \in 1..NumItems /\ s.items[i].state = "open"
    BY <1>7 DEF Tags!Open
  <2> QED BY <1>4, <1>5, <1>7, <2>1 DEF Tags!Fresh
<1>8. \A i \in Tags!Open(s) \ is : c.items[i] = s.items[i]
  BY <1>5 DEF Tags!Open
<1>9. \A o \in Docs, v \in Facet : TagRight(c, v, c.tags[o][v])
  BY <1>2 DEF Tagged, TagRight, Tags!Known
<1>10. OneTagEach(c)
  BY <1>0, <1>2 DEF OneTagEach, Tags!Has
<1>11. OneItemEach(c)
  BY <1>0, <1>6, <1>8 DEF OneItemEach
<1>12. OthersKnown(c)
  BY <1>0, <1>2, <1>6, <1>8 DEF OthersKnown, Tags!Known
<1> QED BY <1>2, <1>3, <1>6, <1>7, <1>8, <1>9, <1>10, <1>11, <1>12 DEF Tagged

Retagged(s, o, f) == [s EXCEPT !.tags[o] = f]

\* New tags for one file, each in order and one at most.
LEMMA RetagKeeps ==
    ASSUME NEW s, NEW o \in Docs, NEW f \in [Facet -> Tagging], Tagged(s),
           \A v \in Facet : TagRight(s, v, f[v]),
           \A v, w \in Facet : f[v] /= Tags!NoTag /\ f[w] /= Tags!NoTag
                               => v = w
    PROVE  LET c == Retagged(s, o, f) IN
           /\ Tagged(c) /\ c.tags[o] = f
           /\ \A p \in Docs : p /= o => c.tags[p] = s.tags[p]
           /\ c.items = s.items /\ c.vocab = s.vocab
<1> DEFINE c == Retagged(s, o, f)
<1>1. s \in TagBases /\ OneTagEach(s) /\ OneItemEach(s) /\ OthersKnown(s)
  BY DEF Tagged
<1>2. /\ c.tags = [s.tags EXCEPT ![o] = f] /\ c \in TagBases
      /\ c.items = s.items /\ c.vocab = s.vocab
  BY <1>1 DEF TagBases, Retagged
<1> HIDE DEF c
<1>3. c.tags[o] = f /\ \A p \in Docs : p /= o => c.tags[p] = s.tags[p]
  BY <1>1, <1>2 DEF TagBases
<1>4. \A p \in Docs, v \in Facet : TagRight(c, v, c.tags[p][v])
  BY <1>2, <1>3 DEF Tagged, TagRight, Tags!Known
<1>5. OneTagEach(c)
  BY <1>1, <1>3 DEF OneTagEach, Tags!Has
<1>6. OneItemEach(c) /\ OthersKnown(c)
  BY <1>1, <1>2 DEF OneItemEach, OthersKnown, Tags!Open, Tags!Known
<1> QED BY <1>2, <1>3, <1>4, <1>5, <1>6 DEF Tagged, c

LEMMA LeastFresh ==
    ASSUME NEW s, Tags!Fresh(s) /= {}
    PROVE  \E i \in Tags!Fresh(s) :
              /\ i = CHOOSE j \in Tags!Fresh(s) :
                        \A k \in Tags!Fresh(s) : j <= k
              /\ i \in 1..NumItems /\ s.items[i] = Tags!NoItem
<1>1. Tags!Fresh(s) \subseteq Nat
  BY DEF Tags!Fresh
<1>2. PICK i \in Tags!Fresh(s) : \A k \in Tags!Fresh(s) : i <= k
  BY <1>1, LeastIs
<1> QED BY <1>2 DEF Tags!Fresh

\* An item is filed for a value that none waits for.
LEMMA FileKeeps ==
    ASSUME NEW s, NEW o \in Docs, NEW v \in Facet,
           NEW reason \in {"new-value", "model", "conflict"},
           NEW source \in {"model", "rule"},
           Tagged(s), Tags!Fresh(s) /= {}, Tags!OpenFor(s, o, v) = {},
           reason /= "new-value" => Tags!Known(s, v)
    PROVE  /\ Tagged(Tags!fileItem(s, o, v, reason, source))
           /\ Tags!fileItem(s, o, v, reason, source).tags = s.tags
<1> DEFINE c == Tags!fileItem(s, o, v, reason, source)
           x == [state |-> "open", object |-> o, value |-> v,
                 reason |-> reason, source |-> source]
<1>0. s \in TagBases /\ OneTagEach(s) /\ OneItemEach(s) /\ OthersKnown(s)
  BY DEF Tagged
<1>1. PICK i \in 1..NumItems :
         /\ i = CHOOSE j \in Tags!Fresh(s) : \A k \in Tags!Fresh(s) : j <= k
         /\ s.items[i] = Tags!NoItem
  BY LeastFresh
<1>2. c = [s EXCEPT !.items[i] = x,
                    !.vocab[v] = IF s.vocab[v] = "unknown" THEN "proposed"
                                 ELSE s.vocab[v]]
  BY <1>1 DEF Tags!fileItem
<1>3. x \in Waiting
  BY DEF Waiting
<1>4. /\ c.tags = s.tags
      /\ c.items = [s.items EXCEPT ![i] = x]
      /\ c.vocab = [s.vocab EXCEPT ![v] = IF s.vocab[v] = "unknown"
                                          THEN "proposed" ELSE s.vocab[v]]
      /\ c = [tags |-> c.tags, items |-> c.items, vocab |-> c.vocab]
  BY <1>0, <1>2 DEF TagBases
<1>5. c \in TagBases
  <2>1. c.items \in [1..NumItems -> ItemRows]
    BY <1>0, <1>3, <1>4 DEF TagBases, ItemRows
  <2>2. c.vocab \in [Facet -> {"unknown", "proposed", "approved"}]
    BY <1>0, <1>4 DEF TagBases
  <2>3. c.tags \in [Docs -> [Facet -> Tagging]]
    BY <1>0, <1>4 DEF TagBases
  <2> QED BY <1>4, <2>1, <2>2, <2>3 DEF TagBases
<1>6. \A w \in Facet : Tags!Known(c, w) <=> Tags!Known(s, w)
  BY <1>0, <1>4 DEF Tags!Known, TagBases
<1>7. \A j \in 1..NumItems : c.items[j] = IF j = i THEN x ELSE s.items[j]
  BY <1>0, <1>4 DEF TagBases
<1>8. Tags!Open(c) = Tags!Open(s) \cup {i}
  <2>1. x.state = "open"
    OBVIOUS
  <2> QED BY <1>7, <2>1 DEF Tags!Open
<1>9. i \notin Tags!Open(s)
  BY <1>1 DEF Tags!Open, Tags!NoItem
<1>10. \A j \in Tags!Open(s) : c.items[j] = s.items[j]
  BY <1>7, <1>9 DEF Tags!Open
<1>11. /\ c.items[i].object = o /\ c.items[i].value = v
       /\ c.items[i].reason = reason
  BY <1>7
<1>12. \A j \in Tags!Open(s) : ~(s.items[j].object = o /\ s.items[j].value = v)
  BY DEF Tags!OpenFor
<1>13. OneItemEach(c)
  BY <1>0, <1>8, <1>10, <1>11, <1>12 DEF OneItemEach
<1>14. OthersKnown(c)
  <2>1. \A j \in Tags!Open(s) : s.items[j].value \in Facet
    BY <1>0, OpenWaits DEF Tags!Open
  <2> QED BY <1>0, <1>6, <1>8, <1>10, <1>11, <2>1 DEF OthersKnown
<1>15. \A p \in Docs, w \in Facet : TagRight(c, w, c.tags[p][w])
  BY <1>4, <1>6 DEF Tagged, TagRight
<1>16. OneTagEach(c)
  BY <1>0, <1>4 DEF OneTagEach, Tags!Has
<1> QED BY <1>4, <1>5, <1>13, <1>14, <1>15, <1>16 DEF Tagged

\* What a proposal leaves is in order; a value proposed by a rule, where the
\* file has it in the end, is vouched for, unless it was chosen.
LEMMA ProposeKeeps ==
    ASSUME NEW s, NEW o \in Docs, NEW v \in Facet,
           NEW source \in {"model", "rule"}, NEW how,
           Tagged(s), Tags!Fresh(s) /= {}
    PROVE  LET c == Tags!proposeTag(s, o, v, source, how) IN
           /\ Tagged(c)
           /\ source = "rule" /\ Tags!Has(c, o, v) =>
                 Tags!Trusted(c.tags[o][v])
<1> DEFINE t == s.tags[o][v]
           over == {i \in Tags!OpenFor(s, o, v) :
                       /\ s.items[i].reason = "conflict"
                       /\ Tags!Others(s, o, v) = {}}
           a == Tags!Close(s, over)
           settles == \A i \in Tags!OpenFor(a, o, v) :
                         /\ source = "rule" /\ Tags!Known(s, v)
                         /\ a.items[i].source = "model"
                         /\ a.items[i].reason /= "new-value"
           reason == Tags!Reason(a, o, v, source, how)
           c == Tags!proposeTag(s, o, v, source, how)
<1>0. s \in TagBases /\ OneTagEach(s) /\ t \in Tagging /\ TagRight(s, v, t)
  BY DEF Tagged, TagBases
<1>1. /\ Tagged(a) /\ a.tags = s.tags /\ a.vocab = s.vocab
      /\ Tags!Fresh(a) = Tags!Fresh(s)
  BY CloseKeeps DEF Tags!OpenFor, Tags!Open
<1>2. c = IF t /= Tags!NoTag THEN
             IF source = "rule" /\ t.source = "model" /\ ~t.reviewed
             THEN [s EXCEPT !.tags[o][v].source = "rule",
                            !.tags[o][v].guess = TRUE]
             ELSE s
          ELSE IF ~settles THEN a
          ELSE IF reason = "none" THEN
             [a EXCEPT !.tags[o][v] = [Tags!NoTag EXCEPT !.source = source]]
          ELSE IF Tags!OpenFor(a, o, v) /= {} THEN a
          ELSE Tags!fileItem(a, o, v, reason, source)
  BY DEF Tags!proposeTag
<1> HIDE DEF c, a, settles, reason, over
<1>3. CASE t /= Tags!NoTag /\ source = "rule" /\ t.source = "model"
           /\ ~t.reviewed
  <2> DEFINE u == [t EXCEPT !.source = "rule", !.guess = TRUE]
             f == [s.tags[o] EXCEPT ![v] = u]
  <2>1. u \in Tagging /\ u.source = "rule" /\ u /= Tags!NoTag
    <3>1. u.source = "rule" /\ Tags!NoTag.source = "none"
      BY <1>0 DEF Tagging, Tags!NoTag
    <3> QED BY <1>0, <3>1 DEF Tagging
  <2>2. /\ f \in [Facet -> Tagging] /\ f[v] = u
        /\ \A w \in Facet : w /= v => f[w] = s.tags[o][w]
    BY <1>0, <2>1 DEF TagBases
  <2>3. c = Retagged(s, o, f)
    <3>1. c = [s EXCEPT !.tags[o][v].source = "rule",
                        !.tags[o][v].guess = TRUE]
      BY <1>2, <1>3
    <3>2. PICK tags \in [Docs -> [Facet -> Tagging]],
               items \in [1..NumItems -> ItemRows],
               vocab \in [Facet -> {"unknown", "proposed", "approved"}] :
             s = [tags |-> tags, items |-> items, vocab |-> vocab]
      BY <1>0 DEF TagBases
    <3>3. [tags EXCEPT ![o][v].source = "rule", ![o][v].guess = TRUE]
             = [tags EXCEPT ![o] = [tags[o] EXCEPT ![v] =
                  [tags[o][v] EXCEPT !.source = "rule", !.guess = TRUE]]]
      BY DEF Tagging
    <3> QED BY <3>1, <3>2, <3>3 DEF Retagged
  <2> HIDE DEF f, u
  <2>4. \A w \in Facet : TagRight(s, w, f[w])
    BY <1>0, <1>3, <2>1, <2>2 DEF Tagged, TagRight, Tags!Trusted
  <2>5. \A w, x \in Facet : f[w] /= Tags!NoTag /\ f[x] /= Tags!NoTag => w = x
    BY <1>0, <1>3, <2>2 DEF OneTagEach, Tags!Has
  <2>6. Tagged(c) /\ c.tags[o] = f
    BY <2>2, <2>3, <2>4, <2>5, RetagKeeps
  <2> QED BY <2>1, <2>2, <2>6 DEF Tags!Trusted, c
<1>4. CASE t /= Tags!NoTag
           /\ ~(source = "rule" /\ t.source = "model" /\ ~t.reviewed)
  <2>1. c = s
    BY <1>2, <1>4
  <2>2. source = "rule" => Tags!Trusted(t)
    BY <1>0, <1>4 DEF Tagging, TagRight, Tags!Trusted
  <2> QED BY <2>1, <2>2 DEF c
<1>5. CASE t = Tags!NoTag /\ settles /\ reason = "none"
  <2> DEFINE u == [Tags!NoTag EXCEPT !.source = source]
             f == [s.tags[o] EXCEPT ![v] = u]
  <2>1. Tags!Others(a, o, v) = {} /\ Tags!Known(a, v)
    BY <1>5 DEF reason, Tags!Reason
  <2>2. u \in Tagging /\ u.source = source /\ u.home = "none"
    BY DEF Tagging, Tags!NoTag
  <2>3. /\ f \in [Facet -> Tagging] /\ f[v] = u
        /\ \A w \in Facet : w /= v => f[w] = s.tags[o][w]
    BY <1>0, <2>2 DEF TagBases
  <2>4. c = Retagged(a, o, f)
    BY <1>1, <1>2, <1>5 DEF Tagged, TagBases, Retagged
  <2> HIDE DEF f, u
  <2>5. \A w \in Facet : w /= v => f[w] = Tags!NoTag
    BY <1>1, <2>1, <2>3 DEF Tags!Others, Tags!Has
  <2>6. \A w \in Facet : TagRight(a, w, f[w])
    BY <2>1, <2>2, <2>3, <2>5 DEF TagRight, Tags!NoTag
  <2>7. Tagged(c) /\ c.tags[o] = f
    BY <1>1, <2>3, <2>4, <2>5, <2>6, RetagKeeps
  <2> QED BY <2>2, <2>3, <2>7 DEF Tags!Trusted, c
<1>6. CASE t = Tags!NoTag /\ ~settles
  BY <1>1, <1>2, <1>6 DEF Tags!Has, c
<1>7. CASE t = Tags!NoTag /\ settles /\ reason /= "none"
           /\ Tags!OpenFor(a, o, v) /= {}
  BY <1>1, <1>2, <1>7 DEF Tags!Has, c
<1>8. CASE t = Tags!NoTag /\ settles /\ reason /= "none"
           /\ Tags!OpenFor(a, o, v) = {}
  <2>1. /\ reason \in {"new-value", "model", "conflict", "none"}
        /\ reason /= "new-value" => Tags!Known(a, v)
    BY DEF reason, Tags!Reason
  <2>2. c = Tags!fileItem(a, o, v, reason, source)
    BY <1>2, <1>8
  <2>3. Tagged(c) /\ c.tags = a.tags
    BY <1>1, <1>8, <2>1, <2>2, FileKeeps
  <2> QED BY <1>1, <1>8, <2>3 DEF Tags!Has, c
<1> QED BY <1>3, <1>4, <1>5, <1>6, <1>7, <1>8 DEF c

\* The home the rules give goes to a tag that is vouched for.
LEMMA PrimaryKeeps ==
    ASSUME NEW s, NEW o \in Docs, NEW wanted, NEW primary, Tagged(s),
           \A v \in wanted : Tags!Has(s, o, v) => Tags!Trusted(s.tags[o][v]),
           wanted \subseteq Facet
    PROVE  Tagged(Tags!syncPrimary(s, o, wanted, primary))
<1> DEFINE homes == {v \in Facet : s.tags[o][v].home /= "none"}
           gives == {v \in wanted : primary /\ Tags!Has(s, o, v)}
           f == [v \in Facet |->
                   IF v \in homes \cup gives
                   THEN [s.tags[o][v] EXCEPT
                           !.home = IF v \in gives THEN "rule" ELSE "none"]
                   ELSE s.tags[o][v]]
<1>0. s \in TagBases /\ OneTagEach(s)
      /\ \A v \in Facet : s.tags[o][v] \in Tagging
                          /\ TagRight(s, v, s.tags[o][v])
  BY DEF Tagged, TagBases
<1>1. CASE \E v \in homes : s.tags[o][v].home = "user"
  BY <1>1 DEF Tags!syncPrimary
<1>2. CASE ~\E v \in homes : s.tags[o][v].home = "user"
  <2>1. Tags!syncPrimary(s, o, wanted, primary) = Retagged(s, o, f)
    BY <1>0, <1>2 DEF Tags!syncPrimary, Retagged
  <2>2. f \in [Facet -> Tagging]
    BY <1>0 DEF Tagging
  <2>3. \A v \in Facet :
           /\ f[v].source = s.tags[o][v].source
           /\ f[v].reviewed = s.tags[o][v].reviewed
           /\ f[v].home \in {"none", "rule"}
           /\ f[v].home /= "none" => v \in gives
           /\ s.tags[o][v] = Tags!NoTag => f[v] = Tags!NoTag
    <3> TAKE v \in Facet
    <3>1. s.tags[o][v] = Tags!NoTag => v \notin homes \cup gives
      BY DEF Tags!NoTag, Tags!Has
    <3> HIDE DEF homes, gives
    <3>2. CASE v \in homes \cup gives
      BY <1>0, <3>1, <3>2 DEF Tagging
    <3>3. CASE v \notin homes \cup gives
      <4>1. s.tags[o][v].home = "none"
        BY <3>3 DEF homes
      <4> QED BY <1>0, <3>3, <4>1
    <3> QED BY <3>2, <3>3
  <2> HIDE DEF f
  <2>4. \A v \in Facet : TagRight(s, v, f[v])
    BY <1>0, <2>3 DEF TagRight, Tags!Trusted
  <2>5. \A v, w \in Facet : f[v] /= Tags!NoTag /\ f[w] /= Tags!NoTag => v = w
    BY <1>0, <2>3 DEF OneTagEach, Tags!Has
  <2> QED BY <2>1, <2>2, <2>4, <2>5, RetagKeeps
<1> QED BY <1>1, <1>2

\* What the rules give, or no longer give.
LEMMA RulesKeep ==
    ASSUME NEW o \in Docs, NEW given \in {{}} \cup {{v} : v \in Facet},
           NEW primary, Tagged(base), Tags!Fresh(base) /= {}
    PROVE  Tagged(Tags!applyRuleTags(o, given, primary))
<1> DEFINE chosen == \E v \in Facet :
                       /\ Tags!Has(base, o, v)
                       /\ \/ base.tags[o][v].source = "user"
                          \/ /\ base.tags[o][v].source = "model"
                             /\ base.tags[o][v].reviewed
           wanted == IF chosen THEN {} ELSE given
           f == [v \in Facet |->
                   IF base.tags[o][v].source = "rule" /\ v \notin wanted
                   THEN Tags!Unruled(base.tags[o][v]) ELSE base.tags[o][v]]
           a == Retagged(base, o, f)
           b == IF wanted = {} THEN a
                ELSE Tags!proposeTag(a, o, CHOOSE v \in wanted : TRUE,
                                     "rule", "sure")
           over == {i \in Tags!Open(b) : /\ b.items[i].object = o
                                         /\ b.items[i].source = "rule"
                                         /\ b.items[i].value \notin wanted}
           c == Tags!Close(b, over)
<1>0. /\ base \in TagBases /\ OneTagEach(base)
      /\ \A v \in Facet : base.tags[o][v] \in Tagging
                          /\ TagRight(base, v, base.tags[o][v])
  BY DEF Tagged, TagBases
<1>1. Tags!applyRuleTags(o, given, primary)
         = Tags!syncPrimary(c, o, wanted, primary)
  BY <1>0 DEF Tags!applyRuleTags, Retagged
<1>2. wanted \subseteq Facet
      /\ (wanted = {} \/ \E v \in Facet : wanted = {v})
  OBVIOUS
<1> HIDE DEF wanted
<1>3. \A v \in Facet :
         /\ f[v] \in Tagging
         /\ f[v] = base.tags[o][v] \/ f[v] = Tags!NoTag
            \/ /\ f[v].source = "model" /\ f[v].home = "none"
               /\ base.tags[o][v] /= Tags!NoTag
  <2> TAKE v \in Facet
  <2>1. base.tags[o][v].source = "rule" => base.tags[o][v] /= Tags!NoTag
    BY DEF Tags!NoTag
  <2>2. /\ Tags!Unruled(base.tags[o][v]) \in Tagging
        /\ \/ Tags!Unruled(base.tags[o][v]) = Tags!NoTag
           \/ /\ Tags!Unruled(base.tags[o][v]).source = "model"
              /\ Tags!Unruled(base.tags[o][v]).home = "none"
    BY DEF Tags!Unruled, Tags!NoTag, Tagging
  <2> QED BY <1>0, <2>1, <2>2
<1>4. f \in [Facet -> Tagging]
  BY <1>3
<1> HIDE DEF f
<1>5. \A v \in Facet : TagRight(base, v, f[v])
  <2>1. Tags!NoTag.home = "none"
    BY DEF Tags!NoTag
  <2> QED BY <1>0, <1>3, <2>1 DEF TagRight
<1>6. \A v, w \in Facet : f[v] /= Tags!NoTag /\ f[w] /= Tags!NoTag => v = w
  BY <1>0, <1>3 DEF OneTagEach, Tags!Has
<1>7. Tagged(a) /\ a.items = base.items
  BY <1>4, <1>5, <1>6, RetagKeeps
<1>8. Tags!Fresh(a) /= {}
  BY <1>7 DEF Tags!Fresh
<1> HIDE DEF a
<1>9. /\ Tagged(b)
      /\ \A v \in wanted : Tags!Has(b, o, v) => Tags!Trusted(b.tags[o][v])
  <2>1. CASE wanted = {}
    BY <1>7, <2>1
  <2>2. CASE wanted /= {}
    <3>1. PICK v \in Facet : wanted = {v}
      BY <1>2, <2>2
    <3>2. b = Tags!proposeTag(a, o, v, "rule", "sure")
      BY <3>1
    <3> HIDE DEF b
    <3> QED BY <1>7, <1>8, <3>1, <3>2, ProposeKeeps
  <2> QED BY <2>1, <2>2
<1> HIDE DEF b
<1>10. Tagged(c) /\ c.tags = b.tags
  BY <1>9, CloseKeeps DEF Tags!Open
<1> HIDE DEF c
<1>11. \A v \in wanted : Tags!Has(c, o, v) => Tags!Trusted(c.tags[o][v])
  BY <1>9, <1>10 DEF Tags!Has
<1> QED BY <1>1, <1>2, <1>10, <1>11, PrimaryKeeps

-----------------------------------------------------------------------------
(* Decisions.                                                               *)

\* Values of a file replaced, and the items that wait for them closed.
LEMMA ReplaceKeeps ==
    ASSUME NEW s, NEW o \in Docs, NEW vs, Tagged(s)
    PROVE  LET is == {i \in Tags!Open(s) : /\ s.items[i].object = o
                                           /\ s.items[i].value \in vs}
               f == [v \in Facet |-> IF v \in vs THEN Tags!NoTag
                                     ELSE s.tags[o][v]]
               c == Tags!replaceValues(s, o, vs) IN
           /\ Tagged(c) /\ c.vocab = s.vocab
           /\ c.tags[o] = f
           /\ \A p \in Docs : p /= o => c.tags[p] = s.tags[p]
           /\ Tags!Open(c) = Tags!Open(s) \ is
           /\ \A i \in Tags!Open(c) : c.items[i] = s.items[i]
<1> DEFINE is == {i \in Tags!Open(s) : /\ s.items[i].object = o
                                       /\ s.items[i].value \in vs}
           f == [v \in Facet |-> IF v \in vs THEN Tags!NoTag
                                 ELSE s.tags[o][v]]
           a == Tags!Close(s, is)
           c == Tags!replaceValues(s, o, vs)
<1>0. s \in TagBases /\ OneTagEach(s)
      /\ \A v \in Facet : s.tags[o][v] \in Tagging
                          /\ TagRight(s, v, s.tags[o][v])
  BY DEF Tagged, TagBases
<1>1. /\ Tagged(a) /\ a.tags = s.tags /\ a.vocab = s.vocab
      /\ Tags!Open(a) = Tags!Open(s) \ is
      /\ \A i \in Tags!Open(s) \ is : a.items[i] = s.items[i]
  BY CloseKeeps DEF Tags!Open
<1>2. c = Retagged(a, o, f)
  <2> HIDE DEF is
  <2>1. a \in TagBases
    BY <1>1 DEF Tagged
  <2>2. c = [a EXCEPT !.tags[o] = [v \in Facet |->
                IF v \in vs THEN Tags!NoTag ELSE @[v]]]
    BY DEF Tags!replaceValues, is
  <2> HIDE DEF a, c
  <2> QED BY <1>1, <2>1, <2>2 DEF TagBases, Retagged
<1> HIDE DEF a, is, c
<1>3. Tags!NoTag \in Tagging /\ Tags!NoTag.home = "none"
      /\ Tags!NoTag.source = "none"
  BY DEF Tags!NoTag, Tagging
<1>4. f \in [Facet -> Tagging]
  BY <1>0, <1>3
<1>5. \A v \in Facet : f[v] = s.tags[o][v] \/ f[v] = Tags!NoTag
  OBVIOUS
<1> HIDE DEF f
<1>6. \A v \in Facet : TagRight(a, v, f[v])
  BY <1>0, <1>1, <1>3, <1>5 DEF TagRight, Tags!Known
<1>7. \A v, w \in Facet : f[v] /= Tags!NoTag /\ f[w] /= Tags!NoTag => v = w
  BY <1>0, <1>5 DEF OneTagEach, Tags!Has
<1>8. /\ Tagged(c) /\ c.tags[o] = f /\ c.items = a.items
      /\ \A p \in Docs : p /= o => c.tags[p] = a.tags[p]
      /\ c.vocab = a.vocab
  BY <1>1, <1>2, <1>4, <1>6, <1>7, RetagKeeps
<1>9. Tags!Open(c) = Tags!Open(a)
  BY <1>8 DEF Tags!Open
<1> QED BY <1>1, <1>8, <1>9 DEF f, is, c

ApprovedIn(s, v) == [s EXCEPT !.vocab[v] = "approved"]

LEMMA ApproveKeeps ==
    ASSUME NEW s, NEW v \in Facet, Tagged(s)
    PROVE  LET c == ApprovedIn(s, v) IN
           /\ Tagged(c) /\ c.tags = s.tags /\ c.items = s.items
           /\ Tags!Open(c) = Tags!Open(s)
           /\ c.vocab = [s.vocab EXCEPT ![v] = "approved"]
           /\ \A w \in Facet : Tags!Known(c, w) <=> w = v \/ Tags!Known(s, w)
<1> DEFINE c == ApprovedIn(s, v)
<1>0. s \in TagBases /\ OneTagEach(s) /\ OneItemEach(s) /\ OthersKnown(s)
  BY DEF Tagged
<1>1. /\ c.tags = s.tags /\ c.items = s.items /\ c \in TagBases
      /\ c.vocab = [s.vocab EXCEPT ![v] = "approved"]
  BY <1>0 DEF ApprovedIn, TagBases
<1> HIDE DEF c
<1>2. \A w \in Facet : Tags!Known(c, w) <=> w = v \/ Tags!Known(s, w)
  BY <1>0, <1>1 DEF Tags!Known, TagBases
<1>3. Tags!Open(c) = Tags!Open(s)
  BY <1>1 DEF Tags!Open
<1>4. \A p \in Docs, w \in Facet : TagRight(c, w, c.tags[p][w])
  BY <1>1, <1>2 DEF Tagged, TagRight
<1>5. OneTagEach(c) /\ OneItemEach(c)
  BY <1>0, <1>1, <1>3 DEF OneTagEach, OneItemEach, Tags!Has
<1>6. OthersKnown(c)
  BY <1>0, <1>1, <1>2, <1>3, OpenWaits DEF OthersKnown, Tags!Open
<1> QED BY <1>1, <1>2, <1>3, <1>4, <1>5, <1>6 DEF Tagged, c

\* A reviewed value is the file's only one, and vouched for.
LEMMA ReviewedKeeps ==
    ASSUME NEW s, NEW o \in Docs, NEW v \in Facet,
           NEW source \in {"model", "rule"}, Tagged(s), Tags!Known(s, v)
    PROVE  LET c == Tags!applyReviewed(s, o, v, source)
               is == {i \in Tags!Open(s) :
                        /\ s.items[i].object = o
                        /\ s.items[i].value \in Tags!Others(s, o, v)} IN
           /\ Tagged(c) /\ c.vocab = s.vocab
           /\ \A p \in Docs : p /= o => c.tags[p] = s.tags[p]
           /\ \A w \in Facet : w /= v => c.tags[o][w] = Tags!NoTag
           /\ Tags!Has(c, o, v) /\ Tags!Trusted(c.tags[o][v])
           /\ Tags!Open(c) = Tags!Open(s) \ is
           /\ \A i \in Tags!Open(c) : c.items[i] = s.items[i]
<1> DEFINE vs == Tags!Others(s, o, v)
           t == s.tags[o][v]
           home == \E w \in vs : s.tags[o][w].home /= "none"
           takes == source = "model"
           r == Tags!replaceValues(s, o, vs)
           d == IF vs /= {} THEN r ELSE s
           u == IF vs /= {}
                THEN [source |-> "user", reviewed |-> TRUE, guess |-> FALSE,
                      home |-> IF home THEN "user" ELSE t.home]
                ELSE [source |-> IF t = Tags!NoTag
                                    \/ (takes /\ t.source = "rule")
                                 THEN source ELSE t.source,
                      reviewed |-> TRUE, guess |-> t.guess /\ ~takes,
                      home |-> t.home]
           f == [d.tags[o] EXCEPT ![v] = u]
           c == Tags!applyReviewed(s, o, v, source)
           is == {i \in Tags!Open(s) :
                        /\ s.items[i].object = o /\ s.items[i].value \in vs}
<1>0. /\ s \in TagBases /\ OneTagEach(s) /\ t \in Tagging
      /\ TagRight(s, v, t)
  BY DEF Tagged, TagBases
<1>1. /\ Tagged(r) /\ r.vocab = s.vocab
      /\ r.tags[o] = [w \in Facet |-> IF w \in vs THEN Tags!NoTag
                                      ELSE s.tags[o][w]]
      /\ \A p \in Docs : p /= o => r.tags[p] = s.tags[p]
      /\ Tags!Open(r) = Tags!Open(s) \ is
      /\ \A i \in Tags!Open(r) : r.items[i] = s.items[i]
  <2> HIDE DEF vs
  <2> QED BY ReplaceKeeps
<1>2. c = IF vs /= {} THEN [r EXCEPT !.tags[o][v] = u]
                      ELSE [s EXCEPT !.tags[o][v] = u]
  <2>1. CASE vs /= {}
    BY <2>1 DEF Tags!applyReviewed
  <2>2. CASE vs = {}
    BY <2>2 DEF Tags!applyReviewed
  <2> QED BY <2>1, <2>2
<1>3. u \in Tagging /\ Tags!Trusted(u) /\ u /= Tags!NoTag
  <2>1. t = Tags!NoTag \/ t.source /= "none"
    BY <1>0 DEF TagRight
  <2>2. u \in Tagging
    BY <1>0 DEF Tagging
  <2>3. Tags!NoTag.reviewed = FALSE /\ u.reviewed = TRUE
    BY DEF Tags!NoTag
  <2>4. u.source \in {"rule", "user", "model"}
    BY <1>0, <2>1 DEF Tagging
  <2> QED BY <2>2, <2>3, <2>4 DEF Tags!Trusted
<1>4. \A w \in Facet : w /= v => d.tags[o][w] = Tags!NoTag
  BY <1>1 DEF Tags!Others, Tags!Has
<1>5. /\ Tagged(d) /\ d.vocab = s.vocab
      /\ \A p \in Docs : p /= o => d.tags[p] = s.tags[p]
      /\ Tags!Open(d) = Tags!Open(s) \ is
      /\ \A i \in Tags!Open(d) : d.items[i] = s.items[i]
  BY <1>1
<1> HIDE DEF is, c, u, r
<1>6. c = [d EXCEPT !.tags[o][v] = u]
  BY <1>2
<1> HIDE DEF d
<1>7. d \in TagBases /\ d.tags[o] \in [Facet -> Tagging]
  BY <1>5 DEF Tagged, TagBases
<1>8. c = Retagged(d, o, f)
  BY <1>6, <1>7 DEF TagBases, Retagged
<1>9. /\ f \in [Facet -> Tagging] /\ f[v] = u
      /\ \A w \in Facet : w /= v => f[w] = Tags!NoTag
  BY <1>3, <1>4, <1>7
<1> HIDE DEF f
<1>10. \A w \in Facet : TagRight(d, w, f[w])
  <2>1. TagRight(d, v, u)
    <3>1. u.source /= "none"
      BY <1>3 DEF Tags!Trusted
    <3>2. Tags!Known(d, v)
      BY <1>5 DEF Tags!Known
    <3> QED BY <1>3, <3>1, <3>2 DEF TagRight
  <2>2. \A w \in Facet : TagRight(d, w, Tags!NoTag)
    BY DEF TagRight, Tags!NoTag
  <2> QED BY <1>9, <2>1, <2>2
<1>11. \A w, x \in Facet : f[w] /= Tags!NoTag /\ f[x] /= Tags!NoTag => w = x
  BY <1>9
<1>12. /\ Tagged(c) /\ c.tags[o] = f
       /\ \A p \in Docs : p /= o => c.tags[p] = d.tags[p]
       /\ c.items = d.items /\ c.vocab = d.vocab
  BY <1>5, <1>8, <1>9, <1>10, <1>11, RetagKeeps
<1>13. Tags!Open(c) = Tags!Open(d)
  BY <1>12 DEF Tags!Open
<1> QED BY <1>3, <1>5, <1>9, <1>12, <1>13 DEF Tags!Has, c, is

\* A rejected item's guess goes; so do all that wait for the same new value.
LEMMA RejectKeeps ==
    ASSUME NEW s, NEW i \in Tags!Open(s), Tagged(s)
    PROVE  LET x == s.items[i]
               t == s.tags[x.object][x.value]
               same == {j \in Tags!Open(s) :
                          /\ s.items[j].value = x.value
                          /\ s.items[j].reason = "new-value"}
               is == IF x.reason = "new-value" /\ ~Tags!Known(s, x.value)
                     THEN same ELSE {i}
               c == Tags!rejectReview(s, i) IN
           /\ Tagged(c) /\ c.vocab = s.vocab
           /\ \A p \in Docs : p /= x.object => c.tags[p] = s.tags[p]
           /\ \A w \in Facet : w /= x.value =>
                 c.tags[x.object][w] = s.tags[x.object][w]
           /\ c.tags[x.object][x.value] =
                 IF t.source = "model" /\ ~t.reviewed THEN Tags!NoTag ELSE t
           /\ Tags!Open(c) = Tags!Open(s) \ is
           /\ \A j \in Tags!Open(c) : c.items[j] = s.items[j]
<1> DEFINE x == s.items[i]
           o == x.object
           v == x.value
           t == s.tags[o][v]
           u == IF t.source = "model" /\ ~t.reviewed THEN Tags!NoTag ELSE t
           f == [s.tags[o] EXCEPT ![v] = u]
           same == {j \in Tags!Open(s) : /\ s.items[j].value = x.value
                                         /\ s.items[j].reason = "new-value"}
           is == IF x.reason = "new-value" /\ ~Tags!Known(s, x.value)
                 THEN same ELSE {i}
           a == Tags!Close(s, is)
           c == Tags!rejectReview(s, i)
<1>0. /\ s \in TagBases /\ OneTagEach(s)
      /\ \A p \in Docs, w \in Facet : s.tags[p][w] \in Tagging
                          /\ TagRight(s, w, s.tags[p][w])
  BY DEF Tagged, TagBases
<1>1. o \in Docs /\ v \in Facet
  BY <1>0, OpenWaits DEF Tags!Open
<1>2. /\ Tagged(a) /\ a.tags = s.tags /\ a.vocab = s.vocab
      /\ Tags!Open(a) = Tags!Open(s) \ is
      /\ \A j \in Tags!Open(s) \ is : a.items[j] = s.items[j]
  BY CloseKeeps DEF Tags!Open
<1>3. c = [a EXCEPT !.tags[o][v] = u]
  BY DEF Tags!rejectReview
<1> HIDE DEF is, same, a, c, o, v
<1>4. a \in TagBases
  BY <1>2 DEF Tagged
<1>5. c = Retagged(a, o, f)
  BY <1>1, <1>2, <1>3, <1>4 DEF TagBases, Retagged
<1>6. Tags!NoTag \in Tagging /\ Tags!NoTag.home = "none"
  BY DEF Tags!NoTag, Tagging
<1>7. /\ f \in [Facet -> Tagging] /\ f[v] = u
      /\ \A w \in Facet : w /= v => f[w] = s.tags[o][w]
  BY <1>0, <1>1, <1>6 DEF TagBases
<1>8. u = t \/ u = Tags!NoTag
  OBVIOUS
<1> HIDE DEF f, u
<1>9. \A w \in Facet : TagRight(a, w, f[w])
  BY <1>0, <1>1, <1>2, <1>6, <1>7, <1>8 DEF TagRight, Tags!Known
<1>10. \A w, y \in Facet : f[w] /= Tags!NoTag /\ f[y] /= Tags!NoTag => w = y
  BY <1>0, <1>1, <1>7, <1>8 DEF OneTagEach, Tags!Has
<1>11. /\ Tagged(c) /\ c.tags[o] = f
       /\ \A p \in Docs : p /= o => c.tags[p] = a.tags[p]
       /\ c.items = a.items /\ c.vocab = a.vocab
  BY <1>1, <1>2, <1>5, <1>7, <1>9, <1>10, RetagKeeps
<1>12. Tags!Open(c) = Tags!Open(a)
  BY <1>11 DEF Tags!Open
<1>13. /\ Tagged(c) /\ c.vocab = s.vocab
       /\ \A p \in Docs : p /= o => c.tags[p] = s.tags[p]
       /\ \A w \in Facet : w /= v => c.tags[o][w] = s.tags[o][w]
       /\ c.tags[o][v] = u
  BY <1>2, <1>7, <1>11
<1>14. /\ Tags!Open(c) = Tags!Open(s) \ is
       /\ \A j \in Tags!Open(c) : c.items[j] = s.items[j]
  BY <1>2, <1>11, <1>12
<1> HIDE DEF t
<1> QED BY <1>13, <1>14 DEF t, u, o, v, c, is, same

\* The items that wait for a file's other values.
WaitFor(s, o, vs) ==
    {j \in Tags!Open(s) : s.items[j].object = o /\ s.items[j].value \in vs}

\* What an approval or a merge leaves.
LEMMA GivesKeep ==
    ASSUME NEW s, NEW how \in Hows, Tagged(s), how.item \in Tags!Open(s),
           how.kind /= "reject"
    PROVE  LET x == s.items[how.item]
               v == Tags!Into(s, how)
               o == x.object
               c == Tags!Decided(s, how) IN
           /\ v \in Facet /\ o \in Docs
           /\ Tagged(c) /\ c.vocab = [s.vocab EXCEPT ![v] = "approved"]
           /\ \A p \in Docs : p /= o => c.tags[p] = s.tags[p]
           /\ \A w \in Facet : w /= v => c.tags[o][w] = Tags!NoTag
           /\ Tags!Has(c, o, v) /\ Tags!Trusted(c.tags[o][v])
           /\ Tags!Open(c) = Tags!Open(s) \ ({how.item} \cup
                                 WaitFor(s, o, Tags!Others(s, o, v)))
           /\ \A j \in Tags!Open(c) : c.items[j] = s.items[j]
<1> DEFINE x == s.items[how.item]
           v == Tags!Into(s, how)
           o == x.object
           e == ApprovedIn(s, v)
           vs == Tags!Others(s, o, v)
           is == WaitFor(s, o, vs)
           r == Tags!applyReviewed(e, o, v, x.source)
           d == Tags!Close(r, {how.item})
           c == Tags!Decided(s, how)
<1>0. s \in TagBases /\ how.item \in 1..NumItems
  BY DEF Tagged, Tags!Open
<1>1. v \in Facet /\ o \in Docs /\ x.source \in {"model", "rule"}
  BY <1>0, OpenWaits DEF Hows, Tags!Into
<1>2. c = d
  BY DEF Tags!Decided, ApprovedIn
<1> HIDE DEF c, v, o, d
<1>3. /\ Tagged(e) /\ e.tags = s.tags /\ e.items = s.items
      /\ Tags!Open(e) = Tags!Open(s) /\ Tags!Known(e, v)
      /\ e.vocab = [s.vocab EXCEPT ![v] = "approved"]
  BY <1>1, ApproveKeeps
<1> HIDE DEF e
<1>4. Tags!Others(e, o, v) = vs
  BY <1>3 DEF Tags!Others, Tags!Has
<1>5. is = {j \in Tags!Open(e) : /\ e.items[j].object = o
                                /\ e.items[j].value \in Tags!Others(e, o, v)}
  BY <1>3, <1>4 DEF WaitFor
<1> HIDE DEF x, is
<1>6. /\ Tagged(r) /\ r.vocab = e.vocab
      /\ \A p \in Docs : p /= o => r.tags[p] = e.tags[p]
      /\ \A w \in Facet : w /= v => r.tags[o][w] = Tags!NoTag
      /\ Tags!Has(r, o, v) /\ Tags!Trusted(r.tags[o][v])
      /\ Tags!Open(r) = Tags!Open(e) \ is
      /\ \A j \in Tags!Open(r) : r.items[j] = e.items[j]
  BY <1>1, <1>3, <1>5, ReviewedKeeps
<1> HIDE DEF r
<1>7. /\ Tagged(d) /\ d.tags = r.tags /\ d.vocab = r.vocab
      /\ Tags!Open(d) = Tags!Open(r) \ {how.item}
      /\ \A j \in Tags!Open(r) \ {how.item} : d.items[j] = r.items[j]
  BY <1>0, <1>6, CloseKeeps DEF d
<1>8. Tags!Has(d, o, v) /\ Tags!Trusted(d.tags[o][v])
  BY <1>6, <1>7 DEF Tags!Has
<1>9. Tags!Open(d) = Tags!Open(s) \ ({how.item} \cup is)
  BY <1>3, <1>6, <1>7
<1>10. \A j \in Tags!Open(d) : d.items[j] = s.items[j]
  BY <1>3, <1>6, <1>7
<1> QED BY <1>1, <1>2, <1>3, <1>6, <1>7, <1>8, <1>9, <1>10
         DEF c, v, o, x, is

LEMMA DecidedKeeps ==
    ASSUME NEW s, NEW how \in Hows, Tagged(s), how.item \in Tags!Open(s)
    PROVE  Tagged(Tags!Decided(s, how))
<1>1. CASE how.kind = "reject"
  BY <1>1, RejectKeeps DEF Tags!Decided
<1>2. CASE how.kind /= "reject"
  BY <1>2, GivesKeep
<1> QED BY <1>1, <1>2

-----------------------------------------------------------------------------
(* The review's steps.                                                      *)

LEMMA TagsBegin ==
    ASSUME Tags!Init
    PROVE  TagsInv
<1>1. Tags!NoTag \in Tagging /\ Tags!NoTag.home = "none"
  BY DEF Tags!NoTag, Tagging
<1>2. base \in TagBases
  BY <1>1 DEF Tags!Init, TagBases, ItemRows
<1>3. /\ \A p \in Docs, w \in Facet : base.tags[p][w] = Tags!NoTag
      /\ \A i \in 1..NumItems : base.items[i] = Tags!NoItem
  BY DEF Tags!Init
<1>4. Tags!Open(base) = {}
  BY <1>3 DEF Tags!Open, Tags!NoItem
<1>5. Tagged(base)
  BY <1>1, <1>2, <1>3, <1>4 DEF Tagged, TagRight, OneTagEach, OneItemEach,
     OthersKnown, Tags!Has
<1> QED BY <1>5 DEF TagsInv, Tags!Init

LEMMA TagsStep ==
    ASSUME TagsInv, [Tags!Next]_(Tags!vars)
    PROVE  TagsInv'
<1>0. /\ Tagged(base) /\ named \subseteq Facet
      /\ asks \in [Reviewers -> Hows \cup {Tags!NotAsking}]
  BY DEF TagsInv
<1>1. CASE Tags!SyncRules
  <2>1. PICK o \in Docs, given \in {{}} \cup {{v} : v \in Facet},
             primary \in BOOLEAN :
           base' = Tags!applyRuleTags(o, given, primary)
    BY <1>1 DEF Tags!SyncRules
  <2>2. Tags!Fresh(base) /= {} /\ UNCHANGED <<named, asks>>
    BY <1>1 DEF Tags!SyncRules
  <2>3. Tagged(base')
    BY <1>0, <2>1, <2>2, RulesKeep
  <2> QED BY <1>0, <2>2, <2>3 DEF TagsInv
<1>2. CASE Tags!Propose
  <2>1. PICK o \in Docs, v \in Facet, how \in {"sure", "unsure", "agent"} :
           base' = Tags!proposeTag(base, o, v, "model", how)
    BY <1>2 DEF Tags!Propose
  <2>2. Tags!Fresh(base) /= {} /\ UNCHANGED <<named, asks>>
    BY <1>2 DEF Tags!Propose
  <2>3. Tagged(base')
    BY <1>0, <2>1, <2>2, ProposeKeeps
  <2> QED BY <1>0, <2>2, <2>3 DEF TagsInv
<1>3. CASE Tags!GrantChanges
  BY <1>0, <1>3 DEF Tags!GrantChanges, TagsInv
<1>4. ASSUME NEW r \in Reviewers, Tags!Ask(r) PROVE TagsInv'
  <2>1. PICK i \in Tags!Open(base), kind \in {"approve", "reject", "merge"},
             into \in Facet, replace \in BOOLEAN :
           asks' = [asks EXCEPT ![r] = [item |-> i, kind |-> kind,
                                        into |-> into, replace |-> replace]]
    BY <1>4 DEF Tags!Ask
  <2>2. i \in 1..NumItems
    BY DEF Tags!Open
  <2>3. UNCHANGED <<base, named>>
    BY <1>4 DEF Tags!Ask
  <2>4. [item |-> i, kind |-> kind, into |-> into, replace |-> replace]
           \in Hows
    BY <2>2 DEF Hows
  <2> QED BY <1>0, <2>1, <2>3, <2>4 DEF TagsInv
<1>5. ASSUME NEW r \in Reviewers, Tags!Decide(r) PROVE TagsInv'
  <2>1. /\ asks[r] /= Tags!NotAsking /\ asks[r].item \in Tags!Open(base)
        /\ base' = Tags!Decided(base, asks[r])
        /\ asks' = [asks EXCEPT ![r] = Tags!NotAsking] /\ named' = named
    BY <1>5 DEF Tags!Decide, Tags!Decidable
  <2>2. asks[r] \in Hows
    BY <1>0, <2>1
  <2>3. Tagged(base')
    BY <1>0, <2>1, <2>2, DecidedKeeps
  <2> QED BY <1>0, <2>1, <2>3 DEF TagsInv
<1>6. ASSUME NEW r \in Reviewers, Tags!Declined(r) PROVE TagsInv'
  BY <1>0, <1>6 DEF Tags!Declined, TagsInv
<1>7. CASE UNCHANGED Tags!vars
  BY <1>0, <1>7 DEF Tags!vars, TagsInv
<1> QED BY <1>1, <1>2, <1>3, <1>4, <1>5, <1>6, <1>7 DEF Tags!Next

\* One value and one item each.
LEMMA TagsInOrder ==
    ASSUME TagsInv
    PROVE  Tags!FileInOrder
<1>0. /\ base \in TagBases /\ OneTagEach(base) /\ OneItemEach(base)
      /\ \A o \in Docs, v \in Facet : TagRight(base, v, base.tags[o][v])
  BY DEF TagsInv, Tagged
<1>1. ASSUME NEW S, \A a, b \in S : a = b PROVE Tags!Cardinality(S) <= 1
  <2>0. Tags!Cardinality(S) = Cardinality(S)
    BY Zenon DEF Tags!Cardinality, Cardinality
  <2>1. CASE S = {}
    BY <2>1, <2>0, FS_EmptySet
  <2>2. CASE S /= {}
    <3>1. PICK a \in S : S = {a}
      BY <1>1, <2>2
    <3> QED BY <3>1, <2>0, FS_Singleton
  <2> QED BY <2>1, <2>2
<1>2. ASSUME NEW o \in Docs
      PROVE  Tags!Cardinality({v \in Facet : Tags!Has(base, o, v)}) <= 1
  BY <1>0, <1>1 DEF OneTagEach
<1>3. ASSUME NEW o \in Docs, NEW v \in Facet
      PROVE  Tags!Cardinality(Tags!OpenFor(base, o, v)) <= 1
  BY <1>0, <1>1 DEF OneItemEach, Tags!OpenFor
<1>4. ASSUME NEW o \in Docs, NEW v \in Facet,
             base.tags[o][v].home /= "none"
      PROVE  Tags!Trusted(base.tags[o][v]) /\ Tags!Known(base, v)
  BY <1>0, <1>4 DEF TagRight, Tags!NoTag
<1> QED BY <1>2, <1>3, <1>4 DEF Tags!FileInOrder

LEMMA TagsTyped ==
    ASSUME TagsInv
    PROVE  Tags!TypeOK
<1>1. base \in TagBases /\ named \subseteq Facet
  BY DEF TagsInv, Tagged
<1>2. \A x \in ItemRows : x.state \in {"none", "open", "closed"}
  BY DEF ItemRows, Waiting, Tags!NoItem, Tags!Closed
<1>3. \A t \in Tagging : t.source \in {"none", "model", "rule", "user"}
  BY DEF Tagging
<1> QED BY <1>1, <1>2, <1>3 DEF TagBases, Tags!TypeOK

-----------------------------------------------------------------------------
(* A file's level.                                                          *)

Sure(s, o)    == {v \in Facet : /\ Tags!Has(s, o, v)
                                /\ Tags!Trusted(s.tags[o][v])
                                /\ Tags!Known(s, v)}
Guessed(s, o) == {v \in Facet : Tags!Has(s, o, v)} \ Sure(s, o)
Waits(s, o)   == {s.items[i].value :
                     i \in {j \in Tags!Open(s) : s.items[j].object = o}}
BaseOf(ls)    == IF ls = {} THEN 2 ELSE Tags!Tightest(ls)

LEMMA LevelIs ==
    ASSUME NEW s, NEW o
    PROVE  Tags!Level(s, o) =
             Tags!Tightest({BaseOf(Tags!LevelsOf(Sure(s, o)))}
                \cup Tags!LevelsOf(Guessed(s, o) \cup Waits(s, o)))
BY DEF Tags!Level, Sure, Guessed, Waits, BaseOf, Tags!Default

LEMMA LeastLevel ==
    ASSUME NEW S, S \subseteq 1..3, S /= {}
    PROVE  Tags!Tightest(S) \in S /\ \A l \in S : Tags!Tightest(S) <= l
<1>1. \E l \in S : \A m \in S : l <= m
  <2>1. S \subseteq Nat
    OBVIOUS
  <2> QED BY <2>1, LeastIs
<1> QED BY <1>1 DEF Tags!Tightest

LEMMA LevelsAre ==
    ASSUME NEW vs, vs \subseteq Facet
    PROVE  /\ Tags!LevelsOf(vs) \subseteq 1..3
           /\ BaseOf(Tags!LevelsOf(vs)) \in 1..3
           /\ \A l : l \in Tags!LevelsOf(vs) <=>
                 \E v \in vs : l = Tags!LevelOf[v] /\ l /= 0
<1>1. \A v \in Facet : Tags!LevelOf[v] \in {0, 1, 3}
  BY DEF Tags!LevelOf
<1>2. Tags!LevelsOf(vs) \subseteq 1..3
  BY <1>1 DEF Tags!LevelsOf
<1>3. \A l : l \in Tags!LevelsOf(vs) <=>
          \E v \in vs : l = Tags!LevelOf[v] /\ l /= 0
  BY DEF Tags!LevelsOf
<1>4. BaseOf(Tags!LevelsOf(vs)) \in 1..3
  BY <1>2, LeastLevel DEF BaseOf
<1> QED BY <1>2, <1>3, <1>4

\* What a level is below.
LEMMA LevelBelow ==
    ASSUME NEW s \in TagBases, NEW o
    PROVE  LET base0 == BaseOf(Tags!LevelsOf(Sure(s, o)))
               ls == Tags!LevelsOf(Guessed(s, o) \cup Waits(s, o)) IN
           /\ Guessed(s, o) \cup Waits(s, o) \subseteq Facet
           /\ Tags!Level(s, o) \in 1..3
           /\ Tags!Level(s, o) \in {base0} \cup ls
           /\ \A l \in {base0} \cup ls : Tags!Level(s, o) <= l
<1> DEFINE b == BaseOf(Tags!LevelsOf(Sure(s, o)))
           ls == Tags!LevelsOf(Guessed(s, o) \cup Waits(s, o))
<1>1. Waits(s, o) \subseteq Facet
  BY OpenWaits DEF Waits, Tags!Open
<1>2. /\ Guessed(s, o) \cup Waits(s, o) \subseteq Facet
      /\ Sure(s, o) \subseteq Facet
  BY <1>1 DEF Guessed, Sure
<1>3. b \in 1..3 /\ ls \subseteq 1..3
  BY <1>2, LevelsAre
<1>4. Tags!Level(s, o) = Tags!Tightest({b} \cup ls)
  BY LevelIs
<1> HIDE DEF b, ls
<1>5. /\ Tags!Level(s, o) \in {b} \cup ls
      /\ \A l \in {b} \cup ls : Tags!Level(s, o) <= l
  BY <1>3, <1>4, LeastLevel
<1> QED BY <1>2, <1>3, <1>5 DEF b, ls

\* What a file has and waits for is all that its level is of.
LEMMA LevelStays ==
    ASSUME NEW s, NEW c, NEW o,
           c.tags[o] = s.tags[o], c.vocab = s.vocab,
           \A j \in 1..NumItems :
              \/ j \notin Tags!Open(s) /\ j \notin Tags!Open(c)
              \/ /\ j \in Tags!Open(s) /\ j \in Tags!Open(c)
                 /\ c.items[j] = s.items[j]
              \/ /\ j \in Tags!Open(s) /\ j \notin Tags!Open(c)
                 /\ s.items[j].object /= o
    PROVE  Tags!Level(c, o) = Tags!Level(s, o)
<1>1. Sure(c, o) = Sure(s, o)
  BY DEF Sure, Tags!Has, Tags!Known
<1>2. Guessed(c, o) = Guessed(s, o)
  BY <1>1 DEF Guessed, Tags!Has
<1>3. \A j : j \in Tags!Open(c) \/ j \in Tags!Open(s) => j \in 1..NumItems
  BY DEF Tags!Open
<1>4. Waits(c, o) = Waits(s, o)
  BY <1>3 DEF Waits
<1> QED BY <1>1, <1>2, <1>4, LevelIs

\* The level of a file whose one value is vouched for.
LEMMA LevelOfOne ==
    ASSUME NEW s \in TagBases, NEW o, NEW v \in Facet,
           Tags!Has(s, o, v), Tags!Trusted(s.tags[o][v]), Tags!Known(s, v),
           \A w \in Facet : w /= v => ~Tags!Has(s, o, w)
    PROVE  LET b == IF Tags!LevelOf[v] = 0 THEN 2 ELSE Tags!LevelOf[v] IN
           /\ Tags!Level(s, o) \in 1..3 /\ Tags!Level(s, o) <= b
           /\ \A w \in Waits(s, o) :
                 Tags!LevelOf[w] /= 0 => Tags!Level(s, o) <= Tags!LevelOf[w]
           /\ \/ Tags!Level(s, o) = b
              \/ \E w \in Waits(s, o) : /\ Tags!LevelOf[w] /= 0
                                        /\ Tags!Level(s, o) = Tags!LevelOf[w]
<1> DEFINE b == IF Tags!LevelOf[v] = 0 THEN 2 ELSE Tags!LevelOf[v]
<1>1. Sure(s, o) = {v} /\ Guessed(s, o) = {}
  BY DEF Sure, Guessed
<1>2. Guessed(s, o) \cup Waits(s, o) = Waits(s, o)
  BY <1>1
<1>3. Tags!LevelOf[v] \in {0, 1, 3}
  BY DEF Tags!LevelOf
<1>4. BaseOf(Tags!LevelsOf(Sure(s, o))) = b
  <2>1. CASE Tags!LevelOf[v] = 0
    <3>1. Tags!LevelsOf({v}) = {}
      BY <2>1 DEF Tags!LevelsOf
    <3> QED BY <1>1, <2>1, <3>1 DEF BaseOf
  <2>2. CASE Tags!LevelOf[v] /= 0
    <3>1. Tags!LevelsOf({v}) = {Tags!LevelOf[v]}
      BY <2>2 DEF Tags!LevelsOf
    <3>2. Tags!Tightest({Tags!LevelOf[v]}) = Tags!LevelOf[v]
      BY <1>3, <2>2, LeastLevel
    <3> QED BY <1>1, <2>2, <3>1, <3>2 DEF BaseOf
  <2> QED BY <2>1, <2>2
<1>5. \A l : l \in Tags!LevelsOf(Waits(s, o)) <=>
          \E w \in Waits(s, o) : l = Tags!LevelOf[w] /\ l /= 0
  BY <1>2, LevelBelow, LevelsAre
<1>6. /\ Tags!Level(s, o) \in 1..3
      /\ Tags!Level(s, o) \in {b} \cup Tags!LevelsOf(Waits(s, o))
      /\ \A l \in {b} \cup Tags!LevelsOf(Waits(s, o)) : Tags!Level(s, o) <= l
  BY <1>2, <1>4, LevelBelow
<1> HIDE DEF b
<1>7. Tags!Level(s, o) <= b
  BY <1>6
<1>8. \A w \in Waits(s, o) :
         Tags!LevelOf[w] /= 0 => Tags!Level(s, o) <= Tags!LevelOf[w]
  BY <1>5, <1>6
<1>9. \/ Tags!Level(s, o) = b
      \/ \E w \in Waits(s, o) : /\ Tags!LevelOf[w] /= 0
                                /\ Tags!Level(s, o) = Tags!LevelOf[w]
  BY <1>5, <1>6
<1> QED BY <1>6, <1>7, <1>8, <1>9 DEF b

-----------------------------------------------------------------------------
(* A decision that was allowed.                                             *)

\* What opensFile() looks at: the value in place of the others.
WouldBe(s, i, v) ==
    [s EXCEPT !.items[i] = Tags!Closed, !.vocab[v] = "approved",
              !.tags[s.items[i].object] = [w \in Facet |->
                  IF w = v THEN [Tags!NoTag EXCEPT !.source = "user"]
                  ELSE Tags!NoTag]]

LEMMA WouldBeIs ==
    ASSUME NEW s, NEW i \in Tags!Open(s), NEW v \in Facet, s \in TagBases
    PROVE  LET t == WouldBe(s, i, v)
               o == s.items[i].object IN
           /\ t \in TagBases /\ o \in Docs
           /\ Tags!Has(t, o, v) /\ Tags!Trusted(t.tags[o][v])
           /\ Tags!Known(t, v)
           /\ \A w \in Facet : w /= v => ~Tags!Has(t, o, w)
           /\ Tags!Open(t) = Tags!Open(s) \ {i}
           /\ \A j \in Tags!Open(t) : t.items[j] = s.items[j]
<1> DEFINE t == WouldBe(s, i, v)
           o == s.items[i].object
           u == [Tags!NoTag EXCEPT !.source = "user"]
           f == [w \in Facet |-> IF w = v THEN u ELSE Tags!NoTag]
<1>1. i \in 1..NumItems /\ o \in Docs
  BY OpenWaits DEF Tags!Open
<1>2. /\ u \in Tagging /\ u.source = "user" /\ Tags!NoTag \in Tagging
      /\ u /= Tags!NoTag
  BY DEF Tags!NoTag, Tagging
<1> HIDE DEF u, o
<1>3. f \in [Facet -> Tagging]
  BY <1>2
<1>4. t = [s EXCEPT !.items[i] = Tags!Closed, !.vocab[v] = "approved",
                    !.tags[o] = f]
  BY DEF WouldBe, u, o
<1> HIDE DEF f, t
<1>5. /\ t.items = [s.items EXCEPT ![i] = Tags!Closed]
      /\ t.vocab = [s.vocab EXCEPT ![v] = "approved"]
      /\ t.tags = [s.tags EXCEPT ![o] = f]
      /\ t = [tags |-> t.tags, items |-> t.items, vocab |-> t.vocab]
  BY <1>4 DEF TagBases
<1>6. t.items \in [1..NumItems -> ItemRows]
  BY <1>1, <1>5 DEF TagBases, ItemRows
<1>7. t.vocab \in [Facet -> {"unknown", "proposed", "approved"}]
  BY <1>5 DEF TagBases
<1>8. t.tags \in [Docs -> [Facet -> Tagging]] /\ t.tags[o] = f
  BY <1>1, <1>3, <1>5 DEF TagBases
<1>9. t \in TagBases
  BY <1>5, <1>6, <1>7, <1>8 DEF TagBases
<1>10. Tags!Known(t, v)
  BY <1>5 DEF Tags!Known, TagBases
<1>11. f[v] = u /\ \A w \in Facet : w /= v => f[w] = Tags!NoTag
  BY DEF f
<1>12. /\ Tags!Has(t, o, v) /\ Tags!Trusted(t.tags[o][v])
       /\ \A w \in Facet : w /= v => ~Tags!Has(t, o, w)
  BY <1>2, <1>8, <1>11 DEF Tags!Has, Tags!Trusted
<1>13. \A j \in 1..NumItems :
          t.items[j] = IF j = i THEN Tags!Closed ELSE s.items[j]
  BY <1>1, <1>5 DEF TagBases
<1>14. Tags!Closed.state = "closed"
  BY DEF Tags!Closed
<1>15. Tags!Open(t) = Tags!Open(s) \ {i}
  BY <1>13, <1>14 DEF Tags!Open
<1>16. \A j \in Tags!Open(t) : t.items[j] = s.items[j]
  BY <1>13, <1>15 DEF Tags!Open
<1> QED BY <1>1, <1>9, <1>10, <1>12, <1>15, <1>16 DEF t, o

\* The decision's file, the others, and what waits for them.
StaysIn(s, c, file) ==
    /\ Tags!Level(c, file) <= Tags!Level(s, file)
    /\ c.vocab = s.vocab
    /\ \A p \in Docs \ {file} : /\ Tags!Level(c, p) = Tags!Level(s, p)
                                 /\ c.tags[p] = s.tags[p]
    /\ \A j \in Tags!Open(s) : s.items[j].object /= file => j \in Tags!Open(c)

\* An approval or a merge that reaches only the file.
LEMMA GivesStay ==
    ASSUME NEW s, NEW how \in Hows, Tagged(s), how.item \in Tags!Open(s),
           how.kind /= "reject", ~Tags!Refused(s, how),
           Tags!Reach(s, how) = "file"
    PROVE  StaysIn(s, Tags!Decided(s, how), s.items[how.item].object)
<1> DEFINE i == how.item
           x == s.items[i]
           v == Tags!Into(s, how)
           o == x.object
           vs == Tags!Others(s, o, v)
           c == Tags!Decided(s, how)
           t == WouldBe(s, i, v)
           b == IF Tags!LevelOf[v] = 0 THEN 2 ELSE Tags!LevelOf[v]
<1>0. s \in TagBases /\ i \in 1..NumItems
  BY DEF Tagged, Tags!Open
<1>1. /\ v \in Facet /\ o \in Docs
      /\ Tagged(c) /\ c.vocab = [s.vocab EXCEPT ![v] = "approved"]
      /\ \A p \in Docs : p /= o => c.tags[p] = s.tags[p]
      /\ \A w \in Facet : w /= v => c.tags[o][w] = Tags!NoTag
      /\ Tags!Has(c, o, v) /\ Tags!Trusted(c.tags[o][v])
      /\ Tags!Open(c) = Tags!Open(s) \ ({i} \cup WaitFor(s, o, vs))
      /\ \A j \in Tags!Open(c) : c.items[j] = s.items[j]
  BY GivesKeep
<1>2. /\ Tags!Known(s, v)
      /\ ~Tags!loosens(v, vs) /\ ~Tags!opensFile(s, i, v)
  <2>1. /\ ~(how.kind = "approve" /\ ~Tags!Known(s, x.value))
        /\ ~Tags!loosens(v, vs) /\ ~Tags!opensFile(s, i, v)
    BY DEF Tags!Reach
  <2>2. how.kind \in {"approve", "merge"}
    BY DEF Hows
  <2>3. how.kind = "merge" => Tags!Known(s, v)
    BY DEF Tags!Refused, Tags!Into
  <2> QED BY <2>1, <2>2, <2>3 DEF Tags!Into
<1> HIDE DEF c, v
<1>3. c.vocab = s.vocab
  BY <1>0, <1>1, <1>2 DEF Tags!Known, TagBases
<1>4. Tags!Level(t, o) <= Tags!Level(s, o)
  <2>1. Tags!opensFile(s, i, v) <=> Tags!Level(t, o) > Tags!Level(s, o)
    BY DEF Tags!opensFile, WouldBe
  <2>2. Tags!Level(t, o) \in 1..3 /\ Tags!Level(s, o) \in 1..3
    BY <1>0, <1>1, WouldBeIs, LevelBelow
  <2> QED BY <1>2, <2>1, <2>2
<1>5. /\ t \in TagBases
      /\ Tags!Has(t, o, v) /\ Tags!Trusted(t.tags[o][v])
      /\ Tags!Known(t, v)
      /\ \A w \in Facet : w /= v => ~Tags!Has(t, o, w)
      /\ Tags!Open(t) = Tags!Open(s) \ {i}
      /\ \A j \in Tags!Open(t) : t.items[j] = s.items[j]
  <2>1. v \in Facet /\ i \in Tags!Open(s) /\ s \in TagBases
    BY <1>0, <1>1
  <2> HIDE DEF i
  <2> QED BY <2>1, WouldBeIs
<1> HIDE DEF t, x, o
<1>6. /\ Tags!Level(t, o) \in 1..3
      /\ \/ Tags!Level(t, o) = b
         \/ \E w \in Waits(t, o) : /\ Tags!LevelOf[w] /= 0
                                   /\ Tags!Level(t, o) = Tags!LevelOf[w]
  BY <1>1, <1>5, LevelOfOne
<1>7. /\ Tags!Level(c, o) \in 1..3 /\ Tags!Level(c, o) <= b
      /\ \A w \in Waits(c, o) :
            Tags!LevelOf[w] /= 0 => Tags!Level(c, o) <= Tags!LevelOf[w]
  <2>1. c \in TagBases /\ Tags!Known(c, v)
    BY <1>1, <1>2, <1>3 DEF Tagged, Tags!Known
  <2>2. \A w \in Facet : w /= v => ~Tags!Has(c, o, w)
    BY <1>1 DEF Tags!Has
  <2> QED BY <1>1, <2>1, <2>2, LevelOfOne
<1>8. ASSUME NEW w \in Waits(t, o), Tags!LevelOf[w] /= 0
      PROVE  Tags!Level(c, o) <= Tags!LevelOf[w]
  <2>1. PICK j \in Tags!Open(s) \ {i} :
           s.items[j].object = o /\ s.items[j].value = w
    BY <1>5 DEF Waits
  <2>2. CASE w \notin vs
    <3>1. j \in Tags!Open(c)
      BY <1>1, <2>1, <2>2 DEF WaitFor
    <3>2. w \in Waits(c, o)
      BY <1>1, <2>1, <3>1 DEF Waits
    <3> QED BY <1>7, <1>8, <3>2
  <2>3. CASE w \in vs
    <3>1. w \in Facet /\ w /= v
      BY <2>3 DEF Tags!Others
    <3>2. ~(Tags!LevelOf[v] = 0 \/ Tags!LevelOf[v] > Tags!LevelOf[w])
      BY <1>2, <1>8, <2>3, <3>1 DEF Tags!loosens
    <3>3. Tags!LevelOf[v] \in 0..3 /\ Tags!LevelOf[w] \in 0..3
      BY <1>1, <3>1 DEF Tags!LevelOf
    <3> QED BY <1>7, <3>2, <3>3
  <2> QED BY <2>2, <2>3
<1>9. Tags!Level(c, o) <= Tags!Level(s, o)
  <2>1. Tags!Level(c, o) <= Tags!Level(t, o)
    BY <1>6, <1>7, <1>8
  <2>2. Tags!Level(s, o) \in 1..3
    BY <1>0, LevelBelow
  <2> QED BY <1>4, <1>6, <1>7, <2>1, <2>2
<1>10. \A j \in WaitFor(s, o, vs) \cup {i} : s.items[j].object = o
  BY DEF WaitFor, o, x
<1>11. ASSUME NEW p \in Docs, p /= o
       PROVE  Tags!Level(c, p) = Tags!Level(s, p)
  <2>1. c.tags[p] = s.tags[p]
    BY <1>1, <1>11
  <2>2. \A j \in 1..NumItems :
           \/ j \notin Tags!Open(s) /\ j \notin Tags!Open(c)
           \/ /\ j \in Tags!Open(s) /\ j \in Tags!Open(c)
              /\ c.items[j] = s.items[j]
           \/ /\ j \in Tags!Open(s) /\ j \notin Tags!Open(c)
              /\ s.items[j].object /= p
    BY <1>1, <1>10, <1>11
  <2> QED BY <1>3, <2>1, <2>2, LevelStays
<1>12. \A j \in Tags!Open(s) :
          s.items[j].object /= o => j \in Tags!Open(c)
  BY <1>1, <1>10
<1> QED BY <1>1, <1>3, <1>9, <1>11, <1>12 DEF StaysIn, c, o, x

\* A rejection that reaches only the file takes nothing that sets its level.
LEMMA RejectStays ==
    ASSUME NEW s, NEW how \in Hows, Tagged(s), how.item \in Tags!Open(s),
           how.kind = "reject", Tags!Reach(s, how) = "file"
    PROVE  StaysIn(s, Tags!Decided(s, how), s.items[how.item].object)
<1> DEFINE i == how.item
           x == s.items[i]
           v == x.value
           o == x.object
           t == s.tags[o][v]
           same == {j \in Tags!Open(s) : /\ s.items[j].value = x.value
                                         /\ s.items[j].reason = "new-value"}
           is == IF x.reason = "new-value" /\ ~Tags!Known(s, x.value)
                 THEN same ELSE {i}
           c == Tags!Decided(s, how)
<1>0. s \in TagBases /\ i \in 1..NumItems /\ OthersKnown(s)
  BY DEF Tagged, Tags!Open
<1>1. v \in Facet /\ o \in Docs
  BY <1>0, OpenWaits
<1>2. Tags!Known(s, v) /\ Tags!LevelOf[v] = 0
  <2>1. x.reason /= "new-value" => Tags!Known(s, v)
    BY <1>0 DEF OthersKnown
  <2> QED BY <2>1 DEF Tags!Reach
<1>3. /\ Tagged(c) /\ c.vocab = s.vocab
      /\ \A p \in Docs : p /= o => c.tags[p] = s.tags[p]
      /\ \A w \in Facet : w /= v => c.tags[o][w] = s.tags[o][w]
      /\ Tags!Open(c) = Tags!Open(s) \ is
      /\ \A j \in Tags!Open(c) : c.items[j] = s.items[j]
  <2>1. c = Tags!rejectReview(s, i)
    BY DEF Tags!Decided
  <2> HIDE DEF c
  <2> QED BY <2>1, RejectKeeps
<1>4. Tags!Open(c) = Tags!Open(s) \ {i}
  BY <1>2, <1>3
<1> HIDE DEF c, is, same
<1>5. ASSUME NEW us, NEW ws, \A w : w /= v => (w \in us <=> w \in ws)
      PROVE  Tags!LevelsOf(us) = Tags!LevelsOf(ws)
  BY <1>2, <1>5 DEF Tags!LevelsOf
<1>6. \A w : w /= v => (w \in Sure(c, o) <=> w \in Sure(s, o))
  BY <1>3 DEF Sure, Tags!Has, Tags!Known
<1>7. \A w : w /= v => (w \in Guessed(c, o) <=> w \in Guessed(s, o))
  BY <1>3, <1>6 DEF Guessed, Tags!Has
<1>8. \A w : w /= v => (w \in Waits(c, o) <=> w \in Waits(s, o))
  <2> TAKE w
  <2>1. ASSUME w /= v, w \in Waits(c, o) PROVE w \in Waits(s, o)
    BY <1>3, <1>4, <2>1 DEF Waits
  <2>2. ASSUME w /= v, w \in Waits(s, o) PROVE w \in Waits(c, o)
    <3>1. PICK j \in Tags!Open(s) :
             s.items[j].object = o /\ s.items[j].value = w
      BY <2>2 DEF Waits
    <3>2. j \in Tags!Open(c)
      BY <1>4, <2>2, <3>1
    <3> HIDE DEF o, v, x
    <3> QED BY <1>3, <3>1, <3>2 DEF Waits
  <2> QED BY <2>1, <2>2
<1>9. /\ Tags!LevelsOf(Sure(c, o)) = Tags!LevelsOf(Sure(s, o))
      /\ Tags!LevelsOf(Guessed(c, o) \cup Waits(c, o))
            = Tags!LevelsOf(Guessed(s, o) \cup Waits(s, o))
  BY <1>5, <1>6, <1>7, <1>8
<1>10. Tags!Level(c, o) = Tags!Level(s, o)
  BY <1>9, LevelIs
<1>11. Tags!Level(s, o) \in 1..3
  BY <1>0, LevelBelow
<1>12. ASSUME NEW p \in Docs, p /= o
       PROVE  Tags!Level(c, p) = Tags!Level(s, p)
  <2>1. c.tags[p] = s.tags[p]
    BY <1>3, <1>12
  <2>2. \A j \in 1..NumItems :
           \/ j \notin Tags!Open(s) /\ j \notin Tags!Open(c)
           \/ /\ j \in Tags!Open(s) /\ j \in Tags!Open(c)
              /\ c.items[j] = s.items[j]
           \/ /\ j \in Tags!Open(s) /\ j \notin Tags!Open(c)
              /\ s.items[j].object /= p
    BY <1>3, <1>4, <1>12
  <2> QED BY <1>3, <2>1, <2>2, LevelStays
<1>13. \A j \in Tags!Open(s) :
          s.items[j].object /= o => j \in Tags!Open(c)
  BY <1>4
<1> HIDE DEF o
<1> QED BY <1>3, <1>10, <1>11, <1>12, <1>13 DEF StaysIn, c, o

\* A reviewer's decision reaches what it reached when it was looked at last.
LEMMA DecisionsStay ==
    ASSUME TagsInv, [Tags!Next]_(Tags!vars)
    PROVE  Tags!StayInFile
<1>0. Tagged(base) /\ asks \in [Reviewers -> Hows \cup {Tags!NotAsking}]
  BY DEF TagsInv
<1> SUFFICES ASSUME NEW r \in Reviewers, r \notin ReviewAdmins,
                    asks[r] /= Tags!NotAsking, base' /= base,
                    asks'[r] = Tags!NotAsking
             PROVE  StaysIn(base, base', base.items[asks[r].item].object)
  BY DEF Tags!StayInFile, Tags!StaysInFile, StaysIn, Tags!Open
<1>1. Tags!Decide(r)
  <2>1. asks' /= asks
    OBVIOUS
  <2>2. PICK q \in Reviewers :
           Tags!Ask(q) \/ Tags!Decide(q) \/ Tags!Declined(q)
    BY <2>1 DEF Tags!Next, Tags!vars, Tags!SyncRules, Tags!Propose,
       Tags!GrantChanges
  <2>3. Tags!Decide(q)
    BY <2>2 DEF Tags!Ask, Tags!Declined
  <2>4. q = r
    BY <1>0, <2>3 DEF Tags!Decide
  <2> QED BY <2>3, <2>4
<1>2. /\ asks[r].item \in Tags!Open(base) /\ ~Tags!Refused(base, asks[r])
      /\ Tags!Reach(base, asks[r]) = "file"
      /\ base' = Tags!Decided(base, asks[r])
  BY <1>1 DEF Tags!Decide, Tags!Decidable, Tags!Allowed, Tags!May
<1>3. asks[r] \in Hows
  BY <1>0
<1>4. CASE asks[r].kind = "reject"
  BY <1>0, <1>2, <1>3, <1>4, RejectStays
<1>5. CASE asks[r].kind /= "reject"
  BY <1>0, <1>2, <1>3, <1>5, GivesStay
<1> QED BY <1>4, <1>5

-----------------------------------------------------------------------------
(* The lock of the embedded database's directory.  That two never have it   *)
(* is not so of every instance (a third process, or one that ends with a    *)
(* lock renamed aside); that nobody who starts alone is kept out is.  Its   *)
(* induction: a lock found by such a process is of one that had its pid     *)
(* before it, for starts are counted and no lock is of a start to come.     *)

LockBounds ==
    Pids \subseteq Nat \ {0} /\ MaxStarts \in Nat /\ MaxLockEvents \in Nat

\* A lock is of a process that is or was.
OfAStart(lock) ==
    \/ lock = Lock!None
    \/ lock.pid \in Pids /\ lock.start <= proc[lock.pid].start

LocksInOrder == OfAStart(path) /\ \A p \in Pids : OfAStart(proc[p].aside)

\* How far one that has been alone since it started can have come.
AloneInOrder(p) ==
    LET x == proc[p] IN
    /\ \A q \in Pids : q /= p => proc[q].at = "gone"
    /\ x.at \in {"link", "judge", "aside", "compare"} => path /= Lock!Mine(p)
    /\ x.at = "link" => x.try = 0 \/ path = Lock!None
    /\ x.at = "link" => x.try \in 0..1
    /\ x.at = "judge" => x.try = 1 /\ path /= Lock!None
    /\ x.at = "aside" => x.try = 1 /\ path /= Lock!None /\ x.judged = path
    /\ x.at = "compare" =>
          x.try = 1 /\ path = Lock!None /\ x.aside = x.judged
    /\ x.at \notin {"gone", "restore", "refused"}

LockInv ==
    /\ Lock!TypeOK /\ LocksInOrder
    /\ \A p \in Pids : proc[p].at /= "gone" => proc[p].start >= 1
    /\ \A p \in Pids : proc[p].alone => AloneInOrder(p)

LEMMA LockShapes ==
    ASSUME LockBounds
    PROVE  /\ Lock!None \in Lock!Locks
           /\ \A p \in Pids, s \in 1..MaxStarts :
                [pid |-> p, start |-> s] \in Lock!Locks \ {Lock!None}
           /\ \A s \in 0..MaxStarts : Lock!Gone(s) \in Lock!Processes
           /\ \A l \in Lock!Locks : l /= Lock!None =>
                /\ l.pid \in Pids /\ l.start \in 1..MaxStarts
                /\ l = [pid |-> l.pid, start |-> l.start]
<1>1. Lock!None \in Lock!Locks
  BY DEF Lock!Locks
<1>2. \A p \in Pids, s \in 1..MaxStarts :
        [pid |-> p, start |-> s] \in Lock!Locks \ {Lock!None}
  BY DEF LockBounds, Lock!Locks, Lock!None
<1>3. \A s \in 0..MaxStarts : Lock!Gone(s) \in Lock!Processes
  BY <1>1 DEF Lock!Gone, Lock!Processes, Lock!Tries
<1>4. \A l \in Lock!Locks : l /= Lock!None =>
        /\ l.pid \in Pids /\ l.start \in 1..MaxStarts
        /\ l = [pid |-> l.pid, start |-> l.start]
  BY DEF Lock!Locks
<1> QED BY <1>1, <1>2, <1>3, <1>4

\* The process p goes on, as y, with the lock file as it is then.
Goes(p, y) ==
    /\ proc' = [proc EXCEPT ![p] = y]
    /\ y \in Lock!Processes /\ y.start = proc[p].start
    /\ y.at /= "gone" => y.start >= 1
    /\ OfAStart(y.aside)
    /\ path' \in Lock!Locks /\ OfAStart(path')
    /\ ended' \in 0..MaxLockEvents

LEMMA GoesOn ==
    ASSUME LockBounds, LockInv, NEW p \in Pids, proc[p].at /= "gone",
           NEW y, Goes(p, y), y.alone => AloneInOrder(p)'
    PROVE  LockInv'
<1>1. proc \in [Pids -> Lock!Processes]
  BY DEF LockInv, Lock!TypeOK
<1>2. /\ proc' \in [Pids -> Lock!Processes] /\ proc'[p] = y
      /\ \A q \in Pids : q /= p => proc'[q] = proc[q]
      /\ \A q \in Pids : proc'[q].start = proc[q].start
  BY <1>1 DEF Goes
<1>3. Lock!TypeOK'
  BY <1>2 DEF Goes, Lock!TypeOK
<1>4. \A l : OfAStart(l) => OfAStart(l)'
  BY <1>2 DEF OfAStart
<1>5. LocksInOrder'
  <2>1. OfAStart(path)'
    BY <1>2 DEF Goes, OfAStart
  <2>2. ASSUME NEW q \in Pids PROVE OfAStart(proc[q].aside)'
    <3>1. OfAStart(proc'[q].aside)
      BY <1>2 DEF LockInv, LocksInOrder, Goes
    <3> QED BY <1>2, <3>1 DEF OfAStart
  <2> QED BY <2>1, <2>2 DEF LocksInOrder
<1>6. \A q \in Pids : proc'[q].at /= "gone" => proc'[q].start >= 1
  BY <1>2 DEF LockInv, Goes
<1>7. ASSUME NEW q \in Pids, proc'[q].alone PROVE AloneInOrder(q)'
  <2>1. CASE q = p
    BY <1>2, <1>7, <2>1
  <2>2. CASE q /= p
    BY <1>2, <1>7, <2>2 DEF LockInv, AloneInOrder
  <2> QED BY <2>1, <2>2
<1> QED BY <1>3, <1>5, <1>6, <1>7 DEF LockInv

\* What is known of a process and the lock before it goes on.
LEMMA KnownOf ==
    ASSUME LockBounds, LockInv, NEW p \in Pids, proc[p].at /= "gone"
    PROVE  /\ proc \in [Pids -> Lock!Processes] /\ path \in Lock!Locks
           /\ proc[p] \in Lock!Processes
           /\ OfAStart(path) /\ OfAStart(proc[p].aside)
           /\ proc[p].start >= 1 /\ ended \in 0..MaxLockEvents
           /\ proc[p].alone => AloneInOrder(p)
           /\ Lock!Mine(p) \in Lock!Locks \ {Lock!None}
           /\ OfAStart(Lock!Mine(p)) /\ OfAStart(Lock!None)
           /\ Lock!Mine(p).pid = p /\ Lock!Mine(p).start = proc[p].start
<1>1. /\ proc \in [Pids -> Lock!Processes] /\ path \in Lock!Locks
      /\ proc[p] \in Lock!Processes /\ ended \in 0..MaxLockEvents
      /\ proc[p].start \in 1..MaxStarts
  BY DEF LockInv, Lock!TypeOK, LockBounds, Lock!Processes
<1>2. Lock!Mine(p) \in Lock!Locks \ {Lock!None}
  BY <1>1, LockShapes DEF Lock!Mine
<1>3. OfAStart(Lock!Mine(p)) /\ OfAStart(Lock!None)
  BY <1>1 DEF OfAStart, Lock!Mine
<1>4. /\ OfAStart(path) /\ OfAStart(proc[p].aside)
      /\ proc[p].start >= 1 /\ proc[p].alone => AloneInOrder(p)
  BY DEF LockInv, LocksInOrder
<1> QED BY <1>1, <1>2, <1>3, <1>4 DEF Lock!Mine

LEMMA LinkKeeps ==
    ASSUME LockBounds, LockInv, NEW p \in Pids, Lock!Link(p)
    PROVE  LockInv'
<1>1. PICK x : x = proc[p]
  OBVIOUS
<1>2. x.at = "link" /\ UNCHANGED ended
  BY <1>1 DEF Lock!Link
<1>3. /\ proc \in [Pids -> Lock!Processes] /\ path \in Lock!Locks
      /\ x \in Lock!Processes /\ OfAStart(path) /\ OfAStart(x.aside)
      /\ x.start >= 1 /\ ended \in 0..MaxLockEvents
      /\ x.alone => AloneInOrder(p)
      /\ Lock!Mine(p) \in Lock!Locks \ {Lock!None} /\ OfAStart(Lock!Mine(p))
  BY <1>1, <1>2, KnownOf
<1>4. CASE x.try = Lock!Tries
  <2>1. PICK y : y = [x EXCEPT !.at = "refused"]
    OBVIOUS
  <2>2. proc' = [proc EXCEPT ![p] = y] /\ path' = path
    BY <1>1, <1>2, <1>3, <1>4, <2>1 DEF Lock!Link, Lock!To
  <2>3. Goes(p, y) /\ y.alone = x.alone
    BY <1>1, <1>2, <1>3, <2>1, <2>2 DEF Goes, Lock!Processes
  <2>4. ~x.alone
    BY <1>1, <1>2, <1>3, <1>4 DEF AloneInOrder, Lock!Tries
  <2> QED BY <1>1, <1>2, <2>3, <2>4, GoesOn
<1>5. CASE x.try /= Lock!Tries /\ path = Lock!None
  <2>1. PICK y : y = [x EXCEPT !.at = "open"]
    OBVIOUS
  <2>2. proc' = [proc EXCEPT ![p] = y] /\ path' = Lock!Mine(p)
    BY <1>1, <1>2, <1>3, <1>5, <2>1 DEF Lock!Link, Lock!To
  <2>3. Goes(p, y) /\ y.alone = x.alone /\ y.at = "open"
    BY <1>1, <1>2, <1>3, <2>1, <2>2 DEF Goes, Lock!Processes
  <2>4. x.alone => AloneInOrder(p)'
    BY <1>1, <1>2, <1>3, <2>2, <2>3 DEF AloneInOrder
  <2> QED BY <1>1, <1>2, <2>3, <2>4, GoesOn
<1>6. CASE x.try /= Lock!Tries /\ path /= Lock!None
  <2>1. PICK y : y = [x EXCEPT !.at = "judge", !.try = x.try + 1]
    OBVIOUS
  <2>2. proc' = [proc EXCEPT ![p] = y] /\ path' = path
    BY <1>1, <1>2, <1>3, <1>6, <2>1 DEF Lock!Link
  <2>3. /\ Goes(p, y) /\ y.alone = x.alone /\ y.at = "judge"
        /\ y.try = x.try + 1 /\ y.start = x.start
    <3>1. x \in Lock!Processes
      BY <1>1, <1>3
    <3>2. x.try \in 0..3 /\ x.try + 1 \in 0..3
      BY <3>1, <1>6 DEF Lock!Processes, Lock!Tries
    <3>3. y \in Lock!Processes /\ y.try = x.try + 1
      BY <2>1, <3>1, <3>2 DEF Lock!Processes, Lock!Tries
    <3> QED BY <1>1, <1>2, <1>3, <2>1, <2>2, <3>3 DEF Goes
  <2>4. x.alone => AloneInOrder(p)'
    BY <1>1, <1>2, <1>3, <1>6, <2>2, <2>3 DEF AloneInOrder, Lock!Mine
  <2> QED BY <1>1, <1>2, <2>3, <2>4, GoesOn
<1> QED BY <1>4, <1>5, <1>6

LEMMA JudgeKeeps ==
    ASSUME LockBounds, LockInv, NEW p \in Pids, Lock!Judge(p)
    PROVE  LockInv'
<1>1. PICK x : x = proc[p]
  OBVIOUS
<1>2. x.at = "judge" /\ UNCHANGED <<path, ended>>
  BY <1>1 DEF Lock!Judge
<1>3. /\ proc \in [Pids -> Lock!Processes] /\ path \in Lock!Locks
      /\ x \in Lock!Processes /\ OfAStart(path) /\ OfAStart(x.aside)
      /\ x.start >= 1 /\ ended \in 0..MaxLockEvents
      /\ x.alone => AloneInOrder(p)
      /\ Lock!Mine(p) = [pid |-> p, start |-> x.start]
  BY <1>1, <1>2, KnownOf DEF Lock!Mine
<1>4. CASE path = Lock!None
  <2>1. PICK y : y = [x EXCEPT !.at = "link"]
    OBVIOUS
  <2>2. proc' = [proc EXCEPT ![p] = y]
    BY <1>1, <1>2, <1>3, <1>4, <2>1 DEF Lock!Judge, Lock!To
  <2>3. Goes(p, y) /\ y.alone = x.alone
    BY <1>1, <1>2, <1>3, <2>1, <2>2 DEF Goes, Lock!Processes
  <2>4. ~x.alone
    BY <1>1, <1>2, <1>3, <1>4 DEF AloneInOrder
  <2> QED BY <1>1, <1>2, <2>3, <2>4, GoesOn
<1>5. CASE path /= Lock!None /\ Lock!Live(p, path)
  <2>1. PICK y : y = [x EXCEPT !.at = "refused"]
    OBVIOUS
  <2>2. proc' = [proc EXCEPT ![p] = y]
    BY <1>1, <1>2, <1>3, <1>5, <2>1 DEF Lock!Judge, Lock!To
  <2>3. Goes(p, y) /\ y.alone = x.alone
    BY <1>1, <1>2, <1>3, <2>1, <2>2 DEF Goes, Lock!Processes
  <2>4. ~x.alone
    <3>1. SUFFICES ASSUME AloneInOrder(p) PROVE FALSE
      BY <1>3
    <3>2. /\ path.pid \in Pids
          /\ path = [pid |-> path.pid, start |-> path.start]
      BY <1>3, <1>5, LockShapes
    <3>3. CASE path.pid = p
      BY <1>1, <1>2, <1>3, <1>5, <3>1, <3>2, <3>3
         DEF AloneInOrder, Lock!Live
    <3>4. CASE path.pid /= p
      BY <1>5, <3>1, <3>2, <3>4 DEF AloneInOrder, Lock!Live, Lock!IsAlive
    <3> QED BY <3>3, <3>4
  <2> QED BY <1>1, <1>2, <2>3, <2>4, GoesOn
<1>6. CASE path /= Lock!None /\ ~Lock!Live(p, path)
  <2>1. PICK y : y = [x EXCEPT !.at = "aside", !.judged = path]
    OBVIOUS
  <2>2. proc' = [proc EXCEPT ![p] = y]
    BY <1>1, <1>2, <1>3, <1>6, <2>1 DEF Lock!Judge
  <2>3. /\ Goes(p, y) /\ y.alone = x.alone /\ y.at = "aside"
        /\ y.try = x.try /\ y.judged = path /\ y.start = x.start
    BY <1>1, <1>2, <1>3, <2>1, <2>2 DEF Goes, Lock!Processes
  <2>4. x.alone => AloneInOrder(p)'
    BY <1>1, <1>2, <1>3, <1>6, <2>2, <2>3 DEF AloneInOrder, Lock!Mine
  <2> QED BY <1>1, <1>2, <2>3, <2>4, GoesOn
<1> QED BY <1>4, <1>5, <1>6

LEMMA AsideKeeps ==
    ASSUME LockBounds, LockInv, NEW p \in Pids, Lock!Aside(p)
    PROVE  LockInv'
<1>1. PICK x : x = proc[p]
  OBVIOUS
<1>2. x.at = "aside" /\ path' = Lock!None /\ UNCHANGED ended
  BY <1>1 DEF Lock!Aside
<1>3. /\ proc \in [Pids -> Lock!Processes] /\ path \in Lock!Locks
      /\ x \in Lock!Processes /\ OfAStart(path) /\ OfAStart(x.aside)
      /\ x.start >= 1 /\ ended \in 0..MaxLockEvents /\ OfAStart(Lock!None)
      /\ x.alone => AloneInOrder(p)
      /\ Lock!None \in Lock!Locks
      /\ Lock!Mine(p) \in Lock!Locks \ {Lock!None}
  BY <1>1, <1>2, KnownOf, LockShapes
<1>4. CASE path = Lock!None
  <2>1. PICK y : y = [x EXCEPT !.at = "link", !.judged = Lock!None]
    OBVIOUS
  <2>2. proc' = [proc EXCEPT ![p] = y]
    BY <1>1, <1>2, <1>3, <1>4, <2>1 DEF Lock!Aside
  <2>3. Goes(p, y) /\ y.alone = x.alone
    BY <1>1, <1>2, <1>3, <2>1, <2>2 DEF Goes, Lock!Processes
  <2>4. ~x.alone
    BY <1>1, <1>2, <1>3, <1>4 DEF AloneInOrder
  <2> QED BY <1>1, <1>2, <2>3, <2>4, GoesOn
<1>5. CASE path /= Lock!None
  <2>1. PICK y : y = [x EXCEPT !.at = "compare", !.aside = path]
    OBVIOUS
  <2>2. proc' = [proc EXCEPT ![p] = y]
    BY <1>1, <1>2, <1>3, <1>5, <2>1 DEF Lock!Aside
  <2>3. /\ Goes(p, y) /\ y.alone = x.alone /\ y.at = "compare"
        /\ y.try = x.try /\ y.judged = x.judged /\ y.aside = path
        /\ y.start = x.start
    BY <1>1, <1>2, <1>3, <2>1, <2>2 DEF Goes, Lock!Processes
  <2>4. Lock!Mine(p)' /= Lock!None
    BY <1>1, <1>3, <2>2, <2>3 DEF Lock!Mine
  <2>5. x.alone => AloneInOrder(p)'
    BY <1>1, <1>2, <1>3, <1>5, <2>2, <2>3, <2>4 DEF AloneInOrder
  <2> QED BY <1>1, <1>2, <2>3, <2>5, GoesOn
<1> QED BY <1>4, <1>5

LEMMA CompareKeeps ==
    ASSUME LockBounds, LockInv, NEW p \in Pids, Lock!Compare(p)
    PROVE  LockInv'
<1>1. PICK x : x = proc[p]
  OBVIOUS
<1>2. x.at = "compare" /\ UNCHANGED <<path, ended>>
  BY <1>1 DEF Lock!Compare
<1>3. /\ proc \in [Pids -> Lock!Processes] /\ path \in Lock!Locks
      /\ x \in Lock!Processes /\ OfAStart(path) /\ OfAStart(x.aside)
      /\ x.start >= 1 /\ ended \in 0..MaxLockEvents /\ OfAStart(Lock!None)
      /\ x.alone => AloneInOrder(p)
      /\ Lock!None \in Lock!Locks
      /\ Lock!Mine(p) \in Lock!Locks \ {Lock!None}
  BY <1>1, <1>2, KnownOf, LockShapes
<1>4. CASE x.aside = x.judged
  <2>1. PICK y : y = [x EXCEPT !.at = "link", !.judged = Lock!None,
                               !.aside = Lock!None]
    OBVIOUS
  <2>2. proc' = [proc EXCEPT ![p] = y]
    BY <1>1, <1>2, <1>3, <1>4, <2>1 DEF Lock!Compare
  <2>3. /\ Goes(p, y) /\ y.alone = x.alone /\ y.at = "link"
        /\ y.try = x.try /\ y.start = x.start
    BY <1>1, <1>2, <1>3, <2>1, <2>2 DEF Goes, Lock!Processes
  <2>4. Lock!Mine(p)' /= Lock!None
    BY <1>1, <1>3, <2>2, <2>3 DEF Lock!Mine
  <2>5. x.alone => AloneInOrder(p)'
    BY <1>1, <1>2, <1>3, <2>2, <2>3, <2>4 DEF AloneInOrder
  <2> QED BY <1>1, <1>2, <2>3, <2>5, GoesOn
<1>5. CASE x.aside /= x.judged
  <2>1. PICK y : y = [x EXCEPT !.at = "restore"]
    OBVIOUS
  <2>2. proc' = [proc EXCEPT ![p] = y]
    BY <1>1, <1>2, <1>3, <1>5, <2>1 DEF Lock!Compare, Lock!To
  <2>3. Goes(p, y) /\ y.alone = x.alone
    BY <1>1, <1>2, <1>3, <2>1, <2>2 DEF Goes, Lock!Processes
  <2>4. ~x.alone
    BY <1>1, <1>2, <1>3, <1>5 DEF AloneInOrder
  <2> QED BY <1>1, <1>2, <2>3, <2>4, GoesOn
<1> QED BY <1>4, <1>5

LEMMA RestoreKeeps ==
    ASSUME LockBounds, LockInv, NEW p \in Pids, Lock!Restore(p)
    PROVE  LockInv'
<1>1. PICK x : x = proc[p]
  OBVIOUS
<1>2. /\ x.at = "restore" /\ UNCHANGED ended
      /\ path' = IF path = Lock!None THEN x.aside ELSE path
  BY <1>1 DEF Lock!Restore
<1>3. /\ proc \in [Pids -> Lock!Processes] /\ path \in Lock!Locks
      /\ x \in Lock!Processes /\ OfAStart(path) /\ OfAStart(x.aside)
      /\ x.start >= 1 /\ ended \in 0..MaxLockEvents /\ OfAStart(Lock!None)
      /\ x.alone => AloneInOrder(p)
      /\ Lock!None \in Lock!Locks
  BY <1>1, <1>2, KnownOf, LockShapes
<1>4. PICK y : y = [x EXCEPT !.at = "refused", !.judged = Lock!None,
                             !.aside = Lock!None]
  OBVIOUS
<1>5. proc' = [proc EXCEPT ![p] = y]
  BY <1>1, <1>3, <1>4 DEF Lock!Restore
<1>6. Goes(p, y) /\ y.alone = x.alone
  BY <1>1, <1>2, <1>3, <1>4, <1>5 DEF Goes, Lock!Processes
<1>7. ~x.alone
  BY <1>1, <1>2, <1>3 DEF AloneInOrder
<1> QED BY <1>1, <1>2, <1>6, <1>7, GoesOn

LEMMA UnlockKeeps ==
    ASSUME LockBounds, LockInv, NEW p \in Pids,
           Lock!Unlock(p) \/ Lock!Remove(p)
    PROVE  LockInv'
<1>1. PICK x : x = proc[p]
  OBVIOUS
<1>2. x.at \in {"open", "closing"} /\ UNCHANGED ended
  BY <1>1 DEF Lock!Unlock, Lock!Remove
<1>3. /\ proc \in [Pids -> Lock!Processes] /\ path \in Lock!Locks
      /\ x \in Lock!Processes /\ OfAStart(path) /\ OfAStart(x.aside)
      /\ x.start >= 1 /\ ended \in 0..MaxLockEvents /\ OfAStart(Lock!None)
      /\ x.alone => AloneInOrder(p)
      /\ Lock!None \in Lock!Locks
  BY <1>1, <1>2, KnownOf, LockShapes
<1>4. PICK at \in {"closing", "off"} :
        proc' = [proc EXCEPT ![p].at = at]
  BY DEF Lock!Unlock, Lock!Remove, Lock!To
<1>5. path' = path \/ path' = Lock!None
  BY DEF Lock!Unlock, Lock!Remove
<1>6. PICK y : y = [x EXCEPT !.at = at]
  OBVIOUS
<1>7. proc' = [proc EXCEPT ![p] = y]
  BY <1>1, <1>3, <1>4, <1>6
<1>8. Goes(p, y) /\ y.alone = x.alone /\ y.at = at
  BY <1>1, <1>2, <1>3, <1>4, <1>5, <1>6, <1>7 DEF Goes, Lock!Processes
<1>9. x.alone => AloneInOrder(p)'
  BY <1>1, <1>3, <1>4, <1>7, <1>8 DEF AloneInOrder
<1> QED BY <1>1, <1>2, <1>8, <1>9, GoesOn

LEMMA EndKeeps ==
    ASSUME LockBounds, LockInv, NEW p \in Pids, Lock!End(p)
    PROVE  LockInv'
<1>1. proc[p].at /= "gone"
  BY DEF Lock!End, Lock!IsAlive
<1>2. /\ proc \in [Pids -> Lock!Processes] /\ path \in Lock!Locks
      /\ proc[p] \in Lock!Processes /\ OfAStart(path)
      /\ OfAStart(Lock!None) /\ ended \in 0..MaxLockEvents
  BY <1>1, KnownOf
<1>3. PICK y : y = Lock!Gone(proc[p].start)
  OBVIOUS
<1>4. /\ y \in Lock!Processes /\ y.at = "gone" /\ y.alone = FALSE
      /\ y.start = proc[p].start /\ y.aside = Lock!None
  BY <1>2, <1>3, LockShapes DEF Lock!Gone, Lock!Processes
<1>5. proc' = [proc EXCEPT ![p] = y] /\ path' = path
  BY <1>3 DEF Lock!End
<1>6. ended' \in 0..MaxLockEvents
  BY <1>2 DEF Lock!End, LockBounds
<1>7. Goes(p, y)
  BY <1>2, <1>4, <1>5, <1>6 DEF Goes
<1> QED BY <1>1, <1>4, <1>7, GoesOn

LEMMA StartsKeep ==
    ASSUME LockBounds, LockInv, NEW p \in Pids, Lock!Start(p)
    PROVE  LockInv'
<1>1. /\ proc \in [Pids -> Lock!Processes] /\ path \in Lock!Locks
      /\ ended \in 0..MaxLockEvents /\ proc[p].start \in 0..MaxStarts
      /\ proc[p].start < MaxStarts
  BY DEF LockInv, Lock!TypeOK, Lock!Processes, Lock!Start
<1>2. PICK y : y = [Lock!Gone(proc[p].start + 1) EXCEPT
                      !.at = "link", !.alone = ~Lock!Others(p)]
  OBVIOUS
<1>3. /\ UNCHANGED <<path, ended>>
      /\ proc' = [q \in Pids |->
           IF q = p THEN y ELSE [proc[q] EXCEPT !.alone = FALSE]]
  BY <1>2 DEF Lock!Start
<1>4. /\ y \in Lock!Processes /\ y.at = "link" /\ y.try = 0
      /\ y.start = proc[p].start + 1 /\ y.aside = Lock!None
  <2>1. proc[p].start + 1 \in 0..MaxStarts
    BY <1>1 DEF LockBounds
  <2>2. Lock!Gone(proc[p].start + 1) \in Lock!Processes
    BY <2>1, LockShapes
  <2>3. (~Lock!Others(p)) \in BOOLEAN
    OBVIOUS
  <2> QED BY <1>2, <2>2, <2>3 DEF Lock!Gone, Lock!Processes
<1>5. y.alone => \A q \in Pids : q /= p => proc[q].at = "gone"
  <2>1. y.alone = ~Lock!Others(p)
    BY <1>2 DEF Lock!Gone
  <2> QED BY <2>1, Zenon DEF Lock!Others, Lock!IsAlive
<1>6. /\ proc'[p] = y
      /\ \A q \in Pids : q /= p =>
           /\ proc'[q] \in Lock!Processes
           /\ proc'[q].at = proc[q].at /\ proc'[q].start = proc[q].start
           /\ proc'[q].aside = proc[q].aside /\ proc'[q].alone = FALSE
  BY <1>1, <1>3 DEF Lock!Processes
<1>7. Lock!TypeOK'
  BY <1>1, <1>3, <1>4, <1>6 DEF Lock!TypeOK
<1>8. \A q \in Pids : proc[q].start \in Nat
                       /\ proc[q].start <= proc'[q].start
  BY <1>1, <1>4, <1>6 DEF Lock!Processes
<1>9. \A l \in Lock!Locks : OfAStart(l) => OfAStart(l)'
  <2>1. ASSUME NEW l \in Lock!Locks, OfAStart(l) PROVE OfAStart(l)'
    <3>1. CASE l = Lock!None
      BY <3>1 DEF OfAStart
    <3>2. CASE l /= Lock!None
      <4>1. l.pid \in Pids /\ l.start \in 1..MaxStarts
        BY <3>2, LockShapes
      <4>2. proc'[l.pid].start \in Nat
        BY <1>6, <1>4, <4>1 DEF Lock!Processes
      <4> QED BY <1>8, <2>1, <4>1, <4>2 DEF OfAStart
    <3> QED BY <3>1, <3>2
  <2> QED BY <2>1
<1>10. LocksInOrder'
  <2>1. OfAStart(path)'
    <3>1. PICK l : l = path
      OBVIOUS
    <3>2. OfAStart(l)'
      BY <1>1, <1>9, <3>1 DEF LockInv, LocksInOrder
    <3> QED BY <1>3, <3>1, <3>2 DEF OfAStart
  <2>2. ASSUME NEW q \in Pids PROVE OfAStart(proc[q].aside)'
    <3>1. PICK l : l = proc'[q].aside
      OBVIOUS
    <3>2. l \in Lock!Locks /\ OfAStart(l)
      BY <1>4, <1>6, <3>1 DEF LockInv, LocksInOrder, OfAStart,
         Lock!Processes
    <3> QED BY <1>9, <3>1, <3>2 DEF OfAStart
  <2> QED BY <2>1, <2>2 DEF LocksInOrder
<1>11. ASSUME NEW q \in Pids, proc'[q].at /= "gone"
       PROVE  proc'[q].start >= 1
  BY <1>1, <1>4, <1>6, <1>11 DEF LockInv
<1>12. ASSUME NEW q \in Pids, proc'[q].alone PROVE AloneInOrder(q)'
  <2>1. q = p
    BY <1>6, <1>12
  <2>2. path' /= Lock!Mine(p)'
    <3>1. Lock!Mine(p)' = [pid |-> p, start |-> proc[p].start + 1]
      BY <1>4, <1>6 DEF Lock!Mine
    <3>2. path' = path /\ OfAStart(path)
      BY <1>3 DEF LockInv, LocksInOrder
    <3>3. CASE path = Lock!None
      <4>1. proc[p].start + 1 \in 1..MaxStarts
        BY <1>1 DEF LockBounds
      <4> QED BY <3>1, <3>2, <3>3, <4>1, LockShapes
    <3>4. CASE path /= Lock!None
      <4>1. path.start <= proc[path.pid].start
        BY <3>2, <3>4 DEF OfAStart
      <4> QED BY <1>1, <3>1, <3>2, <4>1
    <3> QED BY <3>3, <3>4
  <2> QED BY <1>4, <1>5, <1>6, <1>12, <2>1, <2>2 DEF AloneInOrder
<1> QED BY <1>7, <1>10, <1>11, <1>12 DEF LockInv

LEMMA LockBegins ==
    ASSUME LockBounds, Lock!Init
    PROVE  LockInv
<1>1. /\ path = Lock!None /\ ended = 0
      /\ proc = [p \in Pids |-> Lock!Gone(0)]
  BY DEF Lock!Init
<1>2. 0 \in 0..MaxStarts /\ 0 \in 0..MaxLockEvents
  BY DEF LockBounds
<1>3. Lock!TypeOK
  BY <1>1, <1>2, LockShapes DEF Lock!TypeOK
<1>4. \A p \in Pids : /\ proc[p].at = "gone" /\ proc[p].alone = FALSE
                      /\ proc[p].aside = Lock!None
  BY <1>1 DEF Lock!Gone
<1> QED BY <1>1, <1>3, <1>4 DEF LockInv, LocksInOrder, OfAStart

LEMMA LockStep ==
    ASSUME LockBounds, LockInv, [Lock!Next]_(Lock!vars)
    PROVE  LockInv'
<1>1. ASSUME NEW p \in Pids, Lock!Start(p) \/ Lock!End(p) PROVE LockInv'
  BY <1>1, StartsKeep, EndKeeps
<1>2. ASSUME NEW p \in Pids, Lock!lockDataDir(p) PROVE LockInv'
  BY <1>2, LinkKeeps, JudgeKeeps, AsideKeeps, CompareKeeps, RestoreKeeps
     DEF Lock!lockDataDir
<1>3. ASSUME NEW p \in Pids, Lock!Unlock(p) \/ Lock!Remove(p)
      PROVE  LockInv'
  BY <1>3, UnlockKeeps
<1>4. CASE UNCHANGED Lock!vars
  BY <1>4 DEF Lock!vars, LockInv, Lock!TypeOK, LocksInOrder, OfAStart,
     AloneInOrder, Lock!Mine
<1> QED BY <1>1, <1>2, <1>3, <1>4 DEF Lock!Next

\* Whatever lock was left behind, by whatever process had its pid, one that
\* has been alone since it started is never refused (pglite.ts lockDataDir()).
THEOREM NoneIsShutOut ==
    ASSUME LockBounds
    PROVE  Lock!Spec => []Lock!NeverShutOut
<1>1. Lock!Init => LockInv
  BY LockBegins
<1>2. LockInv /\ [Lock!Next]_(Lock!vars) => LockInv'
  BY LockStep
<1>3. LockInv => Lock!NeverShutOut
  BY DEF LockInv, AloneInOrder, Lock!NeverShutOut
<1> QED BY <1>1, <1>2, <1>3, PTL DEF Lock!Spec

-----------------------------------------------------------------------------
(* The parts in one behaviour.  Each keeps its own invariant, and no step   *)
(* of one is another's.                                                     *)

OneInv ==
    /\ part = "FolderWatch" => WatchInv
    /\ part = "Holdings" => HeldInv
    /\ part = "Levels" => LevelsInv
    /\ part = "Arrivals" => ArrivalInv
    /\ part = "TagReview" => TagsInv

LEMMA AllBounded ==
    /\ Bounds /\ LevelBounds /\ ArrivalBounds
    /\ ExtIds /= {} /\ MaxNow \in Nat
BY OnePartAssumption DEF Bounds, LevelBounds, ArrivalBounds, Lev!Admin

LEMMA OnlyItsOwn ==
    ASSUME [OneNext]_OneVars
    PROVE  /\ part' = part
           /\ part = "FolderWatch" => [Watch!Next]_(Watch!vars)
           /\ part = "Holdings" => [Held!Next]_(Held!vars)
           /\ part = "Levels" => [Lev!Next]_(Lev!vars)
           /\ part = "Arrivals" => [Mail!Next]_(Mail!vars)
           /\ part = "TagReview" => [Tags!Next]_(Tags!vars)
<1>1. CASE OneNext
  BY <1>1 DEF OneNext
<1>2. CASE UNCHANGED OneVars
  BY <1>2 DEF OneVars, slots, Watch!vars, Held!vars, Lev!vars, Mail!vars,
     Tags!vars
<1> QED BY <1>1, <1>2

LEMMA OneBegins == OneInit => OneInv
<1> SUFFICES ASSUME OneInit PROVE OneInv
  OBVIOUS
<1>1. part = "FolderWatch" => WatchInv
  BY AllBounded, WatchInit DEF OneInit
<1>2. part = "Holdings" => HeldInv
  BY AllBounded, HeldInit DEF OneInit
<1>3. part = "Levels" => LevelsInv
  BY AllBounded, LevelsBegin DEF OneInit
<1>4. part = "Arrivals" => ArrivalInv
  BY AllBounded, ArrivalBegins DEF OneInit
<1>5. part = "TagReview" => TagsInv
  BY TagsBegin DEF OneInit
<1> QED BY <1>1, <1>2, <1>3, <1>4, <1>5 DEF OneInv

LEMMA OneStep == OneInv /\ [OneNext]_OneVars => OneInv'
<1> SUFFICES ASSUME OneInv, [OneNext]_OneVars PROVE OneInv'
  OBVIOUS
<1>1. (part = "FolderWatch" => WatchInv)'
  BY AllBounded, OnlyItsOwn, WatchStep DEF OneInv
<1>2. (part = "Holdings" => HeldInv)'
  BY AllBounded, OnlyItsOwn, HeldNext DEF OneInv
<1>3. (part = "Levels" => LevelsInv)'
  BY AllBounded, OnlyItsOwn, LevelsStep DEF OneInv
<1>4. (part = "Arrivals" => ArrivalInv)'
  BY AllBounded, OnlyItsOwn, ArrivalStep DEF OneInv
<1>5. (part = "TagReview" => TagsInv)'
  BY OnlyItsOwn, TagsStep DEF OneInv
<1> QED BY <1>1, <1>2, <1>3, <1>4, <1>5 DEF OneInv

\* Whichever part a behaviour is of, that part's own invariant holds along it
\* (watch.ts, directory.ts, 0003_object_levels.sql, uploads.ts, mail-in.ts,
\* review-inbox.ts).
THEOREM EachInOrder == OneSpec => []OneInv
BY OneBegins, OneStep, PTL DEF OneSpec

\* The state of the part has its types.
THEOREM EachIsTyped ==
    OneSpec => []( /\ part = "FolderWatch" => Watch!TypeOK
                   /\ part = "Holdings" => Held!TypeOK
                   /\ part = "Levels" => Lev!TypeOK
                   /\ part = "Arrivals" => Mail!TypeOK
                   /\ part = "TagReview" => Tags!TypeOK )
<1>1. WatchInv => Watch!TypeOK
  BY DEF WatchInv
<1>2. HeldInv => Held!TypeOK
  BY SoundHolds
<1>3. LevelsInv => Lev!TypeOK
  BY DEF LevelsInv, LevelsTyped, Lev!TypeOK, Rows, Ops, Ats, Plans
<1>4. ArrivalInv => Mail!TypeOK
  BY DEF ArrivalInv, FilesInOrder, RunsAreInOrder, RunInOrder, RunShaped,
     UploadsInOrder, RestInOrder, FileShaped, Owners, Mail!TypeOK
<1>5. TagsInv => Tags!TypeOK
  BY TagsTyped
<1>6. OneInv => /\ part = "FolderWatch" => Watch!TypeOK
                /\ part = "Holdings" => Held!TypeOK
                /\ part = "Levels" => Lev!TypeOK
                /\ part = "Arrivals" => Mail!TypeOK
                /\ part = "TagReview" => Tags!TypeOK
  BY <1>1, <1>2, <1>3, <1>4, <1>5 DEF OneInv
<1> QED BY <1>6, EachInOrder, PTL

\* A change that the watch was to notice is never forgotten, however many
\* changes, replaced folders, failing watches and requests, runs and restarts
\* interleave: until a run has read it, or a failure left it to the schedule,
\* something still to come stands for it (apps/server watch.ts, sendSync()).
THEOREM ChangesNeverForgotten == OneSpec => []NeverForgotten
<1>1. OneInv => NeverForgotten
  BY DEF OneInv, WatchInv, NeverForgotten
<1> QED BY <1>1, EachInOrder, PTL

\* Nothing is live for someone retired or a group that is gone, and an account
\* signs in as the record that has its id: whatever an import remembers of
\* whom it matched, and whomever a sign-in matched before it locked the row
\* (identity directory.ts, core/jobs acl.ts, linkIdentity()).
THEOREM EveryoneHoldsTheirOwn == OneSpec => []HoldsTheirOwn
<1>1. OneInv => HoldsTheirOwn
  BY SoundHolds DEF OneInv, HoldsTheirOwn
<1> QED BY <1>1, EachInOrder, PTL

\* An object's kept levels are those of the values it carries, whatever tags,
\* reviews and pack applies run at once, but where an applied pack's refresh
\* is owed (0003_object_levels.sql, packs.ts).
THEOREM KeptLevelsExact == OneSpec => []LevelsAreExact
<1>1. LevelsInv => Lev!LevelsAreExact
  BY DEF LevelsInv, AllExact, Owed, Lev!LevelsAreExact, Lev!Carriers
<1>2. OneInv => LevelsAreExact
  BY <1>1 DEF OneInv, LevelsAreExact
<1> QED BY <1>2, EachInOrder, PTL

\* A file handed in again, by however many uploads, runs and processes, stays
\* one, and no message is marked read before it was audited and, where it was
\* taken, all its files are there (mail-in.ts, ingest.ts).
THEOREM ArrivesOnlyOnce == OneSpec => []ArrivesOnce
<1>1. ArrivalInv => Mail!ArrivesOnce
  BY DEF ArrivalInv, FilesInOrder, Mail!ArrivesOnce
<1>2. OneInv => ArrivesOnce
  BY <1>1 DEF OneInv, ArrivesOnce
<1> QED BY <1>2, EachInOrder, PTL

\* Rules, models and people leave a file one value of the facet, and one item
\* that waits for each value, in whatever order they propose and decide; and
\* its home is a tag that a person or a rule vouches for (core/catalog
\* tagging.ts, primary.ts, tag_reviews_one_open).
THEOREM FilesStayInOrder == OneSpec => []FileInOrder
<1>1. OneInv => FileInOrder
  BY TagsInOrder DEF OneInv, FileInOrder
<1> QED BY <1>1, EachInOrder, PTL

\* Whatever ends while a body arrives or a message is read, nothing is
\* recorded for someone who is no member by then, nor by a client whose grant
\* has ended; a pack's apply commits only while the value has the level the
\* admin was shown; and a reviewer who is no admin opens no file to anybody,
\* whatever happened since they asked (uploads.ts, mail-in.ts; packs.ts
\* applyPack(): stale-plan, or 40001; review-inbox.ts decideReview()).
THEOREM StepsStayAllowed ==
    OneSpec => [][ /\ part = "Arrivals" => Mail!WhileAllowed
                   /\ part = "Levels" => Lev!AsPlanned
                   /\ part = "TagReview" => Tags!StayInFile ]_OneVars
<1>1. ASSUME OneInv, [OneNext]_OneVars
      PROVE  [ /\ part = "Arrivals" => Mail!WhileAllowed
               /\ part = "Levels" => Lev!AsPlanned
               /\ part = "TagReview" => Tags!StayInFile ]_OneVars
  <2>1. CASE UNCHANGED OneVars
    BY <2>1
  <2>2. CASE OneNext
    <3>1. part = "Arrivals" => Mail!Next
      BY <2>2 DEF OneNext
    <3>2. part = "Arrivals" => Mail!WhileAllowed
      BY <1>1, <3>1, AllBounded, StepIsAllowed DEF OneInv
    <3>3. part = "Levels" => Lev!AsPlanned
      BY <1>1, AllBounded, OnlyItsOwn, AppliesAsPlanned DEF OneInv
    <3>4. part = "TagReview" => Tags!StayInFile
      BY <1>1, OnlyItsOwn, DecisionsStay DEF OneInv
    <3> QED BY <3>2, <3>3, <3>4
  <2> QED BY <1>1, <2>1, <2>2
<1> QED BY <1>1, EachInOrder, PTL DEF OneSpec
=============================================================================
