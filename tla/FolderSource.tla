------------------------------ MODULE FolderSource ------------------------------
(****************************************************************************)
(* The local folder connector (connectors/fs): crawls with a journal, deltas  *)
(* by comparing snapshots, the ids it gives, and the tokens it hands to the    *)
(* runner that follows it (core/jobs sync.ts follow(), save(), reconcile()),  *)
(* which may be killed at any step while people work in the folder.           *)
(*                                                                          *)
(* One flat folder: a path is its place in walk order, so a journal, a         *)
(* snapshot or a walk is a function of the paths, and a checkpoint names the   *)
(* last path it covers. A file is its inode, its birth, and when its bytes     *)
(* and anything of it last changed, by one clock; its eTag is all of these.   *)
(* Snapshots are named by their content, as their digests are. A checkpoint   *)
(* follows every item (checkpointEvery is 1). Links, other devices, folders    *)
(* below, another root and the reconcile's guard are left out.                *)
(****************************************************************************)
EXTENDS Integers, Sequences, FiniteSets

CONSTANTS
    NumPaths, NumInodes,
    Births,         \* whether the file system keeps birth times
    MaxChanges,     \* changes of the folder
    MaxFaults       \* kills, state folders lost, places that cannot be seen

Paths == 1..NumPaths
Inodes == 1..NumInodes

VARIABLES
    disk,       \* the folder: the file at each path
    clock,      \* the changes of the folder so far
    state,      \* the state folder: the snapshots and the journal it holds
    token,      \* the runner's token, as saved
    sync,       \* the run: what it does, how far it got, what it goes by
    index,      \* the catalog's items of this source
    seen,       \* ids recorded since the crawl from the beginning, which its reconcile keeps
    reconcile,  \* the reconcile of that crawl: due, deferred, or none
    loose,      \* ids recorded or deleted after the last checkpoint of a killed run
    clear,      \* nothing changed, and nothing was hidden, since the walk began
    faults

vars == <<disk, clock, state, token, sync, index, seen, reconcile, loose, clear, faults>>

NoId == <<0, 0>>
NoFile == [ino |-> 0, birth |-> 0, mtime |-> 0, ctime |-> 0]
NoRec == [id |-> NoId, ino |-> 0, birth |-> 0, mtime |-> 0, ctime |-> 0]
Nothing == [p \in Paths |-> NoRec]

(* What lstat() says of a file: the birth only where it is kept.              *)
Seen(f) == [f EXCEPT !.birth = IF Births THEN f.birth ELSE 0]
RecOf(id, f) == [id |-> id, ino |-> f.ino, birth |-> f.birth,
                 mtime |-> f.mtime, ctime |-> f.ctime]
Ids(recs) == {recs[p].id : p \in Paths} \ {NoId}
FirstOf(S) == CHOOSE n \in S : \A m \in S : n <= m

NoJournal == [run |-> 0, recs |-> Nothing]
NoToken == [kind |-> "none", run |-> 0, at |-> 0, old |-> Nothing, new |-> Nothing]
Off == [at |-> "off", pos |-> 0, found |-> [p \in Paths |-> NoFile], hidden |-> {},
        old |-> Nothing, new |-> Nothing, fresh |-> {}]

Init ==
    /\ \E n \in Paths :
         disk = [p \in Paths |-> IF p <= n THEN [NoFile EXCEPT !.ino = p] ELSE NoFile]
    /\ clock = 0
    /\ state = [snaps |-> {}, journal |-> NoJournal, runs |-> 0]
    /\ token = NoToken
    /\ sync = Off
    /\ index = {} /\ seen = {} /\ loose = {}
    /\ reconcile = "none"
    /\ clear = FALSE
    /\ faults = 0

Fault == faults < MaxFaults /\ faults' = faults + 1

----------------------------------------------------------------------------
(* People work in the folder.                                                *)

Here(p) == disk[p] # NoFile
FreeInode(i) == \A p \in Paths : disk[p].ino # i

Changed(d) ==
    /\ clock < MaxChanges
    /\ clock' = clock + 1
    /\ disk' = d
    /\ clear' = FALSE
    /\ UNCHANGED <<state, token, sync, index, seen, loose, faults, reconcile>>

(* A new file, or an editor's save by rename: a new inode at the path.        *)
Writes(p, i) ==
    /\ FreeInode(i)
    /\ Changed([disk EXCEPT ![p] = [ino |-> i, birth |-> clock + 1, mtime |-> clock + 1,
                                    ctime |-> clock + 1]])
Edits(p) ==
    /\ Here(p)
    /\ Changed([disk EXCEPT ![p].mtime = clock + 1, ![p].ctime = clock + 1])
Renames(p, q) ==
    /\ Here(p) /\ p # q
    /\ Changed([disk EXCEPT ![p] = NoFile, ![q] = [disk[p] EXCEPT !.ctime = clock + 1]])
Removes(p) ==
    /\ Here(p)
    /\ Changed([disk EXCEPT ![p] = NoFile])

----------------------------------------------------------------------------
(* The ids.                                                                  *)

(* firstSightId(): the inode and its birth, or else the path; never a used one. *)
FirstSightId(f, p, used) ==
    IF <<f.ino, f.birth>> \notin used THEN <<f.ino, f.birth>>
    ELSE <<0 - FirstOf({n \in 0..NumPaths : <<0 - n, p>> \notin used}), p>>

Same(r, f) ==
    /\ r.id # NoId /\ r.ino = f.ino
    /\ (f.birth > 0 /\ r.birth = f.birth) \/ r.mtime = f.mtime

(* First by inode, in walk order, no id twice.                                *)
ByInode(found, old) ==
    LET claim[p \in 0..NumPaths] ==
          IF p = 0 THEN [q \in Paths |-> NoId]
          ELSE LET before == claim[p - 1]
                   match == {q \in Paths : /\ found[p] # NoFile /\ Same(old[q], found[p])
                                           /\ \A o \in Paths : before[o] # old[q].id}
               IN IF match = {} THEN before
                  ELSE [before EXCEPT ![p] = old[FirstOf(match)].id]
    IN claim[NumPaths]

(* Then by path, an id not claimed yet.                                       *)
ByPath(found, old, ids) ==
    [p \in Paths |-> IF found[p] # NoFile /\ ids[p] = NoId /\ \A q \in Paths : ids[q] # old[p].id
                     THEN old[p].id ELSE ids[p]]

(* Mutant: the path decides before the inode does.                            *)
Known_ByPath(found, old) == ByPath(found, old, [p \in Paths |-> NoId])
Known(found, old) == ByPath(found, old, ByInode(found, old))

(* assignIds(): what is left is new.                                          *)
AssignIds(found, old) ==
    LET known == Known(found, old)
        named[p \in 0..NumPaths] ==
          IF p = 0 THEN known
          ELSE LET before == named[p - 1]
                   used == Ids(old) \cup {before[q] : q \in Paths}
               IN IF found[p] = NoFile \/ before[p] # NoId THEN before
                  ELSE [before EXCEPT ![p] = FirstSightId(found[p], p, used)]
    IN named[NumPaths]

(* walkAgainst(): what the walk found, and what was there where it could not   *)
(* see, unless it was found elsewhere. Mutant: hidden is gone.                *)
NextSnapshot_Forgets(found, old, hidden) ==
    LET ids == AssignIds(found, old) IN
    [p \in Paths |-> IF found[p] # NoFile THEN RecOf(ids[p], found[p]) ELSE NoRec]
NextSnapshot(found, old, hidden) ==
    LET ids == AssignIds(found, old) IN
    [p \in Paths |-> IF found[p] # NoFile THEN RecOf(ids[p], found[p])
                     ELSE IF p \in hidden /\ \A q \in Paths : ids[q] # old[p].id
                     THEN old[p] ELSE NoRec]

(* diff(): deletes, the deepest first, then what is new or changed.           *)
Rec(recs, id) == {<<p, recs[p]>> : p \in {q \in Paths : recs[q].id = id}}
Gone(old, new) == {p \in Paths : old[p].id # NoId /\ old[p].id \notin Ids(new)}
Moved(old, new) == {p \in Paths : new[p].id # NoId /\ <<p, new[p]>> \notin Rec(old, new[p].id)}
Diff(old, new) ==
    LET gone[p \in 0..NumPaths] ==
          IF p = 0 THEN <<>>
          ELSE (IF p \in Gone(old, new) THEN <<[what |-> "deleted", path |-> p]>> ELSE <<>>)
               \o gone[p - 1]
        moved[p \in 0..NumPaths] ==
          IF p = 0 THEN <<>>
          ELSE moved[p - 1] \o
               (IF p \in Moved(old, new) THEN <<[what |-> "item", path |-> p]>> ELSE <<>>)
    IN gone[NumPaths] \o moved[NumPaths]

----------------------------------------------------------------------------
(* What the runner does with an event.                                       *)

Recorded(p, r) == {i \in index : i.rec.id # r.id} \cup {[path |-> p, rec |-> r]}
Dropped(id) == {i \in index : i.rec.id # id}

Save(t) == token' = t
CrawlToken(p) == [NoToken EXCEPT !.kind = "crawl", !.run = state.journal.run, !.at = p]
Cursor(snap) == [NoToken EXCEPT !.kind = "cursor", !.old = snap]
DeltaToken(n) == [NoToken EXCEPT !.kind = "delta", !.old = sync.old, !.new = sync.new, !.at = n]

(* restart(): no token, a reconcile after it, and a journal of its own.        *)
CrawlAgain ==
    /\ token' = NoToken
    /\ seen' = {} /\ reconcile' = "due"
    /\ clear' = TRUE
    /\ state' = [snaps |-> {}, runs |-> state.runs + 1,
                 journal |-> [run |-> state.runs + 1, recs |-> Nothing]]
    /\ sync' = [Off EXCEPT !.at = "crawl"]

(* What a resumed crawl goes on with: the journal up to its checkpoint.        *)
(* Mutant: what was written after it is kept.                                 *)
CutOff_Not(recs, at) == recs
CutOff(recs, at) == [p \in Paths |-> IF p <= at THEN recs[p] ELSE NoRec]

Usable ==
    CASE token.kind = "crawl" -> state.journal.run = token.run
      [] token.kind = "cursor" -> token.old \in state.snaps
      [] token.kind = "delta" -> {token.old, token.new} \subseteq state.snaps
      [] OTHER -> FALSE

ReconcileLeft == token.kind = "cursor" /\ reconcile = "due"

(* A run of the source: a crawl, a delta, or what is left of either. A token   *)
(* whose file is gone makes it crawl again.                                   *)
Begins ==
    /\ sync.at = "off" /\ ~ReconcileLeft
    /\ IF ~Usable THEN CrawlAgain
       ELSE \/ /\ token.kind = "crawl"
               /\ state' = [state EXCEPT !.journal.recs = CutOff(@, token.at)]
               /\ sync' = [Off EXCEPT !.at = "crawl", !.pos = token.at]
               /\ UNCHANGED <<seen, reconcile, clear, token>>
            \/ /\ token.kind = "cursor"
               /\ state' = [state EXCEPT !.snaps = {token.old}]
               /\ sync' = [Off EXCEPT !.at = "walk", !.old = token.old]
               /\ clear' = TRUE
               /\ UNCHANGED <<seen, reconcile, token>>
            \/ /\ token.kind = "delta"
               /\ state' = [state EXCEPT !.snaps = {token.old, token.new}]
               /\ sync' = [Off EXCEPT !.at = "apply", !.old = token.old, !.new = token.new,
                                      !.pos = token.at]
               /\ UNCHANGED <<seen, reconcile, clear, token>>
    /\ UNCHANGED <<disk, clock, index, loose, faults>>

----------------------------------------------------------------------------
(* A crawl: the next path, journaled before it is yielded.                    *)
Met(p) == RecOf(FirstSightId(Seen(disk[p]), p, Ids(state.journal.recs)), Seen(disk[p]))

CrawlMeets ==
    /\ sync.at = "crawl" /\ sync.pos < NumPaths
    /\ LET p == sync.pos + 1 IN
       IF Here(p)
       THEN /\ state' = [state EXCEPT !.journal.recs[p] = Met(p)]
            /\ sync' = [sync EXCEPT !.pos = p, !.at = "yielded"]
       ELSE sync' = [sync EXCEPT !.pos = p] /\ UNCHANGED state
    /\ UNCHANGED <<disk, clock, token, index, seen, loose, clear, faults, reconcile>>

(* What it cannot see: a warning, and this crawl reconciles nothing.           *)
CrawlCannotSee ==
    /\ Fault
    /\ sync.at = "crawl" /\ sync.pos < NumPaths
    /\ sync' = [sync EXCEPT !.pos = @ + 1]
    /\ reconcile' = "deferred"
    /\ clear' = FALSE
    /\ UNCHANGED <<disk, clock, state, token, index, seen, loose>>

Recording(p, r) ==
    /\ index' = Recorded(p, r)
    /\ loose' = loose \ {r.id}

CrawlRecords ==
    /\ sync.at = "yielded"
    /\ LET p == sync.pos  r == state.journal.recs[p] IN
         /\ Recording(p, r)
         /\ seen' = seen \cup {r.id}
         /\ sync' = [sync EXCEPT !.at = "checkpoint", !.fresh = {r.id}]
    /\ UNCHANGED <<disk, clock, state, token, clear, faults, reconcile>>

CrawlSaves ==
    /\ sync.at = "checkpoint"
    /\ Save(CrawlToken(sync.pos))
    /\ sync' = [sync EXCEPT !.at = "crawl", !.fresh = {}]
    /\ UNCHANGED <<disk, clock, state, index, seen, loose, clear, faults, reconcile>>

(* The snapshot of the journal takes its place; then `done`.                  *)
CrawlEnds ==
    /\ sync.at = "crawl" /\ sync.pos = NumPaths
    /\ state' = [state EXCEPT !.snaps = @ \cup {state.journal.recs}, !.journal = NoJournal]
    /\ sync' = [sync EXCEPT !.at = "done", !.new = state.journal.recs]
    /\ UNCHANGED <<disk, clock, token, index, seen, loose, clear, faults, reconcile>>

----------------------------------------------------------------------------
(* A delta: the folder walked again, compared, and the changes given.          *)

DeltaMeets ==
    /\ sync.at = "walk" /\ sync.pos < NumPaths
    /\ LET p == sync.pos + 1 IN
       sync' = [sync EXCEPT !.pos = p,
                            !.found[p] = IF Here(p) THEN Seen(disk[p]) ELSE NoFile]
    /\ UNCHANGED <<disk, clock, state, token, index, seen, loose, clear, faults, reconcile>>

DeltaCannotSee ==
    /\ Fault
    /\ sync.at = "walk" /\ sync.pos < NumPaths
    /\ sync' = [sync EXCEPT !.pos = @ + 1, !.hidden = @ \cup {sync.pos + 1}]
    /\ clear' = FALSE
    /\ UNCHANGED <<disk, clock, state, token, index, seen, loose, reconcile>>

DeltaCompares ==
    /\ sync.at = "walk" /\ sync.pos = NumPaths
    /\ LET new == NextSnapshot(sync.found, sync.old, sync.hidden) IN
         /\ state' = [state EXCEPT !.snaps = @ \cup {new}]
         /\ sync' = [Off EXCEPT !.at = "apply", !.old = sync.old, !.new = new]
    /\ UNCHANGED <<disk, clock, token, index, seen, loose, clear, faults, reconcile>>

DeltaApplies ==
    /\ sync.at = "apply" /\ sync.pos < Len(Diff(sync.old, sync.new))
    /\ LET e == Diff(sync.old, sync.new)[sync.pos + 1] IN
       IF e.what = "deleted"
       THEN /\ index' = Dropped(sync.old[e.path].id)
            /\ loose' = loose \ {sync.old[e.path].id}
            /\ sync' = [sync EXCEPT !.pos = @ + 1, !.at = "applied",
                                    !.fresh = {sync.old[e.path].id}]
       ELSE /\ Recording(e.path, sync.new[e.path])
            /\ sync' = [sync EXCEPT !.pos = @ + 1, !.at = "applied",
                                    !.fresh = {sync.new[e.path].id}]
    /\ UNCHANGED <<disk, clock, state, token, seen, clear, faults, reconcile>>

DeltaSaves ==
    /\ sync.at = "applied"
    /\ IF sync.pos < Len(Diff(sync.old, sync.new)) THEN Save(DeltaToken(sync.pos))
       ELSE UNCHANGED token
    /\ sync' = [sync EXCEPT !.at = "apply",
                            !.fresh = IF token' = token THEN @ ELSE {}]
    /\ UNCHANGED <<disk, clock, state, index, seen, loose, clear, faults, reconcile>>

DeltaEnds ==
    /\ sync.at = "apply" /\ sync.pos = Len(Diff(sync.old, sync.new))
    /\ sync' = [sync EXCEPT !.at = "done"]
    /\ UNCHANGED <<disk, clock, state, token, index, seen, loose, clear, faults, reconcile>>

(* `done`: the cursor is saved.                                               *)
Done ==
    /\ sync.at = "done"
    /\ Save(Cursor(sync.new))
    /\ sync' = Off
    /\ UNCHANGED <<disk, clock, state, index, seen, loose, clear, faults, reconcile>>

(* reconcile(): what the crawl did not record is gone; by its own run, or by   *)
(* the next one when that one was killed before.                              *)
Reconciles ==
    /\ sync.at = "off" /\ ReconcileLeft
    /\ index' = {i \in index : i.rec.id \in seen}
    /\ loose' = loose \cap seen
    /\ reconcile' = "none"
    /\ UNCHANGED <<disk, clock, state, token, sync, seen, clear, faults>>

----------------------------------------------------------------------------
Killed ==
    /\ Fault
    /\ sync.at # "off"
    /\ loose' = loose \cup sync.fresh
    /\ sync' = Off
    /\ clear' = (clear /\ token.kind \in {"crawl", "delta"})
    /\ UNCHANGED <<disk, clock, state, token, index, seen, reconcile>>

StateLost ==
    /\ Fault
    /\ sync.at = "off" /\ token # NoToken
    /\ state' = [state EXCEPT !.snaps = {}, !.journal = NoJournal]
    /\ UNCHANGED <<disk, clock, token, sync, index, seen, loose, clear, reconcile>>

Next ==
    \/ \E p \in Paths : \/ Edits(p) \/ Removes(p)
                        \/ \E i \in Inodes : Writes(p, i)
                        \/ \E q \in Paths : Renames(p, q)
    \/ Begins
    \/ CrawlMeets \/ CrawlCannotSee \/ CrawlRecords \/ CrawlSaves \/ CrawlEnds
    \/ DeltaMeets \/ DeltaCannotSee \/ DeltaCompares \/ DeltaApplies \/ DeltaSaves \/ DeltaEnds
    \/ Done \/ Reconciles \/ Killed \/ StateLost

Spec == Init /\ [][Next]_vars

----------------------------------------------------------------------------
Times == 0..MaxChanges
IsRec(r) == /\ r.ino \in 0..NumInodes
            /\ {r.birth, r.mtime, r.ctime} \subseteq Times
            /\ r.id[1] \in -NumPaths..NumInodes /\ r.id[2] \in 0..(NumPaths + MaxChanges)
AreRecs(recs) == \A p \in Paths : IsRec(recs[p])

TypeOK ==
    /\ disk \in [Paths -> [ino : 0..NumInodes, birth : Times, mtime : Times, ctime : Times]]
    /\ clock \in Times
    /\ \A s \in state.snaps : AreRecs(s)
    /\ AreRecs(state.journal.recs)
    /\ token.kind \in {"none", "crawl", "cursor", "delta"}
    /\ AreRecs(token.old) /\ AreRecs(token.new)
    /\ sync.at \in {"off", "crawl", "yielded", "checkpoint", "walk", "apply", "applied", "done"}
    /\ sync.pos \in 0..(2 * NumPaths)
    /\ \A i \in index : i.path \in Paths /\ IsRec(i.rec)
    /\ reconcile \in {"none", "due", "deferred"}
    /\ clear \in BOOLEAN
    /\ faults \in 0..MaxFaults

(* A sync whose walk saw the whole folder while nothing changed leaves the     *)
(* catalog with exactly the folder's files, each at its path and as it is,     *)
(* whatever happened before: journals cut off, deltas resumed, files renamed   *)
(* in front of a walk, inodes used again, state lost (fs-connector.ts). All    *)
(* but what a killed run had applied after its last checkpoint, and even that  *)
(* while nobody changes the folder.                                           *)
IsHere(i) == Here(i.path) /\ [NoRec EXCEPT !.id = i.rec.id, !.ino = i.rec.ino,
                 !.birth = i.rec.birth, !.mtime = i.rec.mtime, !.ctime = i.rec.ctime]
               = RecOf(i.rec.id, Seen(disk[i.path]))
CaughtUp ==
    clear /\ sync.at = "off" /\ token.kind = "cursor" /\ reconcile = "none" =>
        LET kept == {i \in index : i.rec.id \notin loose} IN
        /\ \A i \in kept : IsHere(i)
        /\ clock = 0 => kept = index
        /\ \A p \in Paths : Here(p) /\ token.old[p].id \notin loose =>
             Cardinality({i \in kept : i.path = p}) = 1

(* A delta names a file as the snapshot before it did, wherever it was moved   *)
(* and whatever was made in its place since: two files never change ids, and a *)
(* file left as it was keeps its own, seen or not (state.ts assignIds()).      *)
IdsFollowFiles ==
    sync.at \in {"apply", "applied"} =>
        /\ Births => \A p, q \in Paths :
             LET twins(recs, r) == {o \in Paths : recs[o].id # NoId /\ recs[o].ino = r.ino
                                                  /\ recs[o].birth = r.birth}
             IN /\ sync.old[p].id # NoId /\ sync.new[q].id # NoId
                /\ sync.old[p].birth > 0
                /\ twins(sync.old, sync.old[p]) = {p} /\ twins(sync.new, sync.old[p]) = {q}
                => sync.new[q].id = sync.old[p].id
        /\ \A p \in Paths :
             /\ sync.old[p].id # NoId
             /\ sync.old[p] = RecOf(sync.old[p].id, Seen(disk[p]))
             /\ \A q \in Paths \ {p} : sync.old[q].ino # sync.old[p].ino
             => sync.new[p].id = sync.old[p].id
        /\ Cardinality(Ids(sync.new))
             = Cardinality({p \in Paths : sync.new[p].id # NoId})

FollowsTheFolder == CaughtUp /\ IdsFollowFiles
=============================================================================
