--------------------------- MODULE TenantStorage ---------------------------
(***************************************************************************)
(* Where a tenant's blobs live, a move of them to another place, and the   *)
(* removal of the old copies (core/storage, tenant-storage.ts), with the   *)
(* uploads that go on meanwhile and the jobs that run it all.              *)
(*                                                                         *)
(* A place is what an admin types; At says which storage it names, so that *)
(* two places may be one.  A copy is good, "short" (cut off: its size      *)
(* tells) or "bad" (the same size, other bytes: only its hash tells).      *)
(* Each blob stands for its bytes, so any server may put any blob.  Keys,  *)
(* the probe of a place and the job's progress figures are left out, but   *)
(* for whether any blob failed.                                            *)
(***************************************************************************)
EXTENDS Naturals, FiniteSets, FiniteSetsExt

CONSTANTS
    Places,         \* what a tenant's admin may choose
    Local,          \* the server's own disk
    NoPlace,
    Stores,
    At,             \* the storage each place names
    NumBlobs,       \* blob ids, in the order pages read them
    PageSize,       \* PAGE
    Servers,
    Uploads,        \* bound: puts in all
    Workers,        \* handlers of the storage queue, on any server
    Damages,        \* what may become of a copy: "short", "bad", "none"
    SlowRecords,    \* an upload may take any time to record what it put
    LateDeletes,    \* a handler that outlived its lease may take any time
    MaxVersion,     \* bound: changes of the tenant's storage
    MaxFaults       \* bound: crashes, ended leases, failed copies, damages;
                    \* no more than a job's three retries

ASSUME StorageAssumption ==
    /\ Local \in Places /\ NoPlace \notin Places
    /\ At \in [Places -> Stores]
    /\ NumBlobs \in Nat /\ PageSize \in Nat \ {0}
    /\ Damages \subseteq {"short", "bad", "none"}
    /\ SlowRecords \in BOOLEAN /\ LateDeletes \in BOOLEAN
    /\ MaxVersion \in Nat /\ MaxFaults \in 0..3

VARIABLES
    row,            \* tenant_storage; version 0 stands for no row
    copy,           \* what each storage holds of each blob
    recorded,       \* the blobs the catalog names (blobs.location)
    cache,          \* each server's TenantBlobStores.cache
    put,            \* the uploads
    waiting,        \* the storage jobs that wait
    job,            \* the handlers
    gone,           \* the blobs whose last good copy was damaged
    faults

vars == <<row, copy, recorded, cache, put, waiting, job, gone, faults>>

Blobs    == 1..NumBlobs
Versions == 0..MaxVersion
Phases   == {"moving", "active", "cleaning"}
Tasks    == [version : Versions, task : {"move", "clean"}]
Chosen   == [version : Versions, current : Places]

\* What a put needs of the choice a server keeps (Resolved).
Resolved == [version |-> row.version, current |-> row.current]
NoChoice == [version |-> 0, current |-> Local]

NoPut == [pc |-> "idle", server |-> CHOOSE s \in Servers : TRUE, blob |-> 0,
          used |-> NoChoice, now |-> Local]

Idle == [pc |-> "idle", version |-> 0, task |-> "move", from |-> Local,
         to |-> Local, after |-> 0, page |-> {}, last |-> FALSE,
         second |-> FALSE, seen |-> {}, failed |-> FALSE, live |-> TRUE]

\* A tenant that has put some files, and never chose a place.
Init ==
    /\ row = [version |-> 0, current |-> Local, previous |-> NoPlace,
              phase |-> "active", failed |-> FALSE]
    /\ recorded \in SUBSET Blobs
    /\ copy = [s \in Stores |-> [b \in Blobs |->
                 IF s = At[Local] /\ b \in recorded THEN "good" ELSE "none"]]
    /\ cache = [s \in Servers |-> NoChoice]
    /\ put = [u \in Uploads |-> NoPut]
    /\ waiting = {}
    /\ job = [w \in Workers |-> Idle]
    /\ gone = {}
    /\ faults = 0

Fault == faults < MaxFaults /\ faults' = faults + 1

-----------------------------------------------------------------------------
(* Copies.                                                                 *)

\* Mutant: whatever is at a blob's path is taken for the blob.
RightSize_Any(s, b) == copy[s][b] # "none"

\* The size is the blob's: all that copying looks at, and putting it again.
RightSize(s, b) == copy[s][b] \in {"good", "bad"}

\* BlobStore.put() of the blob's own bytes: a copy of the right size stays.
PutInto(s, b) ==
    copy' = [copy EXCEPT ![s][b] = IF RightSize(s, b) THEN @ ELSE "good"]

\* The places that are read, in turn (TenantBlobStores.open).
ReadFrom(r) == {At[p] : p \in {r.current, r.previous} \ {NoPlace}}

-----------------------------------------------------------------------------
(* Uploads.                                                                *)

\* A server uses the choice it read within its last ten seconds, or reads it.
BeginPut(u) ==
    /\ put[u].pc = "idle"
    /\ \E s \in Servers, b \in Blobs : \E used \in {cache[s], Resolved} :
          /\ put' = [put EXCEPT ![u] = [@ EXCEPT !.pc = "write",
                        !.server = s, !.blob = b, !.used = used]]
          /\ cache' = [cache EXCEPT ![s] = used]
    /\ UNCHANGED <<row, copy, recorded, waiting, job, faults, gone>>

Write(u) ==
    /\ put[u].pc = "write"
    /\ PutInto(At[put[u].used.current], put[u].blob)
    /\ put' = [put EXCEPT ![u].pc = "look"]
    /\ UNCHANGED <<row, recorded, cache, waiting, job, faults, gone>>

\* Once written it reads the choice again.  A bucket is opened anew for each
\* version, the disk is the same object always.
Elsewhere(used, now) ==
    /\ now.version # used.version
    /\ ~(now.current = Local /\ used.current = Local)

Look(u) ==
    /\ put[u].pc = "look"
    /\ cache' = [cache EXCEPT ![put[u].server] = Resolved]
    /\ put' = [put EXCEPT ![u] = [@ EXCEPT !.now = row.current,
                  !.pc = IF Elsewhere(put[u].used, Resolved) THEN "copy"
                                                             ELSE "record"]]
    /\ UNCHANGED <<row, copy, recorded, waiting, job, faults, gone>>

Over(u) == put' = [put EXCEPT ![u] = [NoPut EXCEPT !.pc = "over"]]

\* copyBlob() from where it was put to where blobs go now; a copy that is not
\* there, or does not hash to the id, fails the upload.
CopyPut(u) ==
    LET b    == put[u].blob
        from == At[put[u].used.current]
        to   == At[put[u].now] IN
    /\ put[u].pc = "copy"
    /\ \/ /\ RightSize(to, b) \/ copy[from][b] = "good"
          /\ PutInto(to, b)
          /\ put' = [put EXCEPT ![u].pc = "record"]
       \/ /\ ~RightSize(to, b) /\ copy[from][b] # "good"
          /\ Over(u)
          /\ UNCHANGED copy
    /\ UNCHANGED <<row, recorded, cache, waiting, job, faults, gone>>

\* The transaction that records the upload commits, or refuses it (the grant
\* or the owner gone), or the server stops before it.
Record(u) ==
    /\ put[u].pc = "record"
    /\ recorded' = recorded \cup {put[u].blob}
    /\ Over(u)
    /\ UNCHANGED <<row, copy, cache, waiting, job, faults, gone>>

LetGo(u) ==
    /\ put[u].pc = "record"
    /\ Over(u)
    /\ UNCHANGED <<row, copy, recorded, cache, waiting, job, faults, gone>>

-----------------------------------------------------------------------------
(* The admin.  The job is sent once the change is committed, or never, if  *)
(* the server stops in between.                                            *)

Changed(r, task) ==
    /\ row' = r
    /\ waiting' \in {waiting, waiting \cup {[version |-> r.version, task |-> task]}}
    /\ UNCHANGED <<copy, recorded, cache, put, job, faults, gone>>

ChangePlace(p) ==
    /\ row.phase = "active"
    /\ p # row.current
    /\ row.previous = NoPlace
    /\ row.version < MaxVersion
    /\ Changed([version |-> row.version + 1, current |-> p,
                previous |-> row.current, phase |-> "moving",
                failed |-> FALSE], "move")

\* The same place with a new key: servers open it anew, nothing moves.
Rekey ==
    /\ row.phase = "active"
    /\ row.current # Local
    /\ row.version < MaxVersion
    /\ row' = [row EXCEPT !.version = @ + 1]
    /\ UNCHANGED <<copy, recorded, cache, put, waiting, job, faults, gone>>

\* A handler still at the page of a removal the row has gone past.
Belated(w) == job[w].task = "clean" /\ job[w].pc # "idle"
                 /\ job[w].version < row.version

startCleaning ==
    \/ /\ row.phase = "cleaning"
       /\ Changed(row, "clean")
    \/ /\ row.phase = "active"
       /\ row.previous # NoPlace
       /\ ~row.failed
       /\ row.version < MaxVersion
       /\ LateDeletes \/ \A w \in Workers : ~Belated(w)
       /\ Changed([row EXCEPT !.version = @ + 1, !.phase = "cleaning"], "clean")

\* Mutant: a move is started again where there was none.
restartMove_Anytime ==
    /\ row.phase # "cleaning"
    /\ row.version < MaxVersion
    /\ Changed([row EXCEPT !.version = @ + 1, !.phase = "moving",
                           !.failed = FALSE], "move")

restartMove ==
    /\ row.phase # "cleaning"
    /\ row.previous # NoPlace
    /\ row.version < MaxVersion
    /\ Changed([row EXCEPT !.version = @ + 1, !.phase = "moving",
                           !.failed = FALSE], "move")

-----------------------------------------------------------------------------
(* The jobs.  Of one version a job waits and one is active.                *)

PhaseOf(task) == IF task = "move" THEN "moving" ELSE "cleaning"

Stop(w) == job' = [job EXCEPT ![w] = Idle]

\* storesFor(): the choice as it is now, if it is still the job's.  Both places
\* are asked whether they are one; if not, the first progress clears what failed
\* (a choice that changes in between stops the job as if it had before).
Start(w) ==
    /\ job[w].pc = "idle"
    /\ \E j \in waiting :
          /\ \A v \in Workers : job[v].pc # "idle" /\ job[v].live
                                   => job[v].version # j.version
          /\ waiting' = waiting \ {j}
          /\ IF row.version = j.version /\ row.phase = PhaseOf(j.task)
                   /\ row.previous # NoPlace
             THEN LET same == At[row.previous] = At[row.current] IN
                  /\ job' = [job EXCEPT ![w] = [Idle EXCEPT
                        !.pc = IF same THEN "same" ELSE "page",
                        !.version = j.version, !.task = j.task,
                        !.from = row.previous, !.to = row.current]]
                  /\ row' = [row EXCEPT !.failed = @ /\ same]
             ELSE UNCHANGED <<row, job>>
    /\ UNCHANGED <<copy, recorded, cache, put, faults, gone>>

\* progress(): only while the row's version is the job's.
Current(w) == row.version = job[w].version

EndSame(w) ==
    /\ job[w].pc = "same"
    /\ row' = IF Current(w) THEN [row EXCEPT !.phase = "active",
                                             !.previous = NoPlace,
                                             !.failed = FALSE]
                            ELSE row
    /\ Stop(w)
    /\ UNCHANGED <<copy, recorded, cache, put, waiting, faults, gone>>

\* What a page may list: all, then (the removal's second pass) what was
\* recorded since it began, and the first pass had not seen.
Listed(w) == {b \in recorded : b > job[w].after}
                \ (IF job[w].second THEN job[w].seen ELSE {})

\* An upload that looked before the move began, and has not recorded yet.
Unsettled(w, u) == /\ put[u].pc \in {"copy", "record"}
                   /\ At[put[u].now] # At[job[w].to]

\* The first ids of those that may be listed.
FirstPage(S) == {b \in S : Cardinality({c \in S : c < b}) < PageSize}

\* An ended lease is noticed here, once a page.
ReadPage(w) ==
    /\ job[w].pc = "page"
    /\ IF job[w].live
       THEN /\ job[w].second /\ job[w].after = 0 /\ ~SlowRecords
                  => \A u \in Uploads : ~Unsettled(w, u)
            /\ job' = [job EXCEPT ![w] = [@ EXCEPT !.pc = "blob",
                          !.page = FirstPage(Listed(w)),
                          !.last = Cardinality(Listed(w)) < PageSize]]
       ELSE Stop(w)
    /\ UNCHANGED <<row, copy, recorded, cache, put, waiting, faults, gone>>

\* The page goes on past a blob, whatever became of it.
Past(w, b, failing) ==
    LET j == job[w] IN
    job' = [job EXCEPT ![w] = [j EXCEPT !.pc = "blob", !.page = j.page \ {b},
               !.after = b,
               !.seen = IF j.task = "clean" THEN j.seen \cup {b} ELSE j.seen,
               !.failed = j.failed \/ failing]]

\* A blob in neither place is lost, and holds nothing up.
MoveBlob(w) ==
    LET b    == Min(job[w].page)
        from == At[job[w].from]
        to   == At[job[w].to] IN
    /\ job[w].pc = "blob" /\ job[w].task = "move" /\ job[w].page # {}
    /\ \/ /\ RightSize(to, b) \/ copy[from][b] = "good"
          /\ PutInto(to, b)
          /\ Past(w, b, FALSE)
          /\ UNCHANGED faults
       \/ /\ ~RightSize(to, b) /\ copy[from][b] # "good"
          /\ Past(w, b, ~(copy[from][b] = "none" /\ copy[to][b] = "none"))
          /\ UNCHANGED <<copy, faults>>
       \/ /\ Fault
          /\ Past(w, b, TRUE)
          /\ UNCHANGED copy
    /\ UNCHANGED <<row, recorded, cache, put, waiting, gone>>

\* removeOld(): the new copy is checked against its id, and put again from the
\* old one if it is not right.
CheckBlob(w) ==
    LET b    == Min(job[w].page)
        from == At[job[w].from]
        to   == At[job[w].to] IN
    /\ job[w].pc = "blob" /\ job[w].task = "clean" /\ job[w].page # {}
    /\ \/ /\ copy[to][b] = "good" \/ copy[from][b] = "good"
          /\ IF copy[to][b] = "good" THEN UNCHANGED copy ELSE PutInto(to, b)
          /\ job' = [job EXCEPT ![w].pc = "delete"]
          /\ UNCHANGED faults
       \/ /\ copy[to][b] # "good" /\ copy[from][b] # "good"
          /\ Past(w, b, ~(copy[from][b] = "none" /\ copy[to][b] = "none"))
          /\ UNCHANGED <<copy, faults>>
       \/ /\ Fault
          /\ Past(w, b, TRUE)
          /\ UNCHANGED copy
    /\ UNCHANGED <<row, recorded, cache, put, waiting, gone>>

DeleteOld(w) ==
    LET b == Min(job[w].page) IN
    /\ job[w].pc = "delete"
    /\ copy' = [copy EXCEPT ![At[job[w].from]][b] = "none"]
    /\ Past(w, b, FALSE)
    /\ UNCHANGED <<row, recorded, cache, put, waiting, faults, gone>>

\* The page is over: on to the next, the second pass, or the end.
Progress(w) ==
    /\ job[w].pc = "blob" /\ job[w].page = {}
    /\ IF Current(w)
       THEN /\ row' = [row EXCEPT !.failed = job[w].failed]
            /\ job' = [job EXCEPT ![w] =
                  IF ~job[w].last THEN [@ EXCEPT !.pc = "page"]
                  ELSE IF job[w].task = "clean" /\ ~job[w].second
                  THEN [@ EXCEPT !.pc = "page", !.after = 0, !.second = TRUE]
                  ELSE [@ EXCEPT !.pc = "end"]]
       ELSE Stop(w) /\ UNCHANGED row
    /\ UNCHANGED <<copy, recorded, cache, put, waiting, faults, gone>>

\* The old place is let go once nothing is left to remove there.
End(w) ==
    /\ job[w].pc = "end"
    /\ row' = IF Current(w)
              THEN [row EXCEPT !.phase = "active", !.failed = job[w].failed,
                       !.previous = IF job[w].task = "clean" /\ ~job[w].failed
                                    THEN NoPlace ELSE @]
              ELSE row
    /\ Stop(w)
    /\ UNCHANGED <<copy, recorded, cache, put, waiting, faults, gone>>

Again(w) == {[version |-> job[w].version, task |-> job[w].task]}

\* A handler's process dies, or it throws: the job waits for another.
JobCrashes(w) ==
    /\ job[w].pc # "idle"
    /\ Fault
    /\ waiting' = IF job[w].live THEN waiting \cup Again(w) ELSE waiting
    /\ Stop(w)
    /\ UNCHANGED <<row, copy, recorded, cache, put, gone>>

\* A lease of six hours ends: the job waits for another, the handler goes on.
LeaseEnds(w) ==
    /\ job[w].pc # "idle" /\ job[w].live
    /\ Fault
    /\ waiting' = waiting \cup Again(w)
    /\ job' = [job EXCEPT ![w].live = FALSE]
    /\ UNCHANGED <<row, copy, recorded, cache, put, gone>>

\* A removal of the row's own version under way, or any between its check of
\* one copy and its deletion of the other.
Removing(w) ==
    \/ job[w].pc = "delete"
    \/ job[w].task = "clean" /\ job[w].pc # "idle" /\ Current(w)

\* A copy of a recorded blob is damaged or lost, but not within a removal, which
\* checks each blob once.
Damage(s, b) ==
    /\ \A w \in Workers : ~Removing(w)
    /\ b \in recorded /\ copy[s][b] = "good"
    /\ Fault
    /\ \E d \in Damages : copy' = [copy EXCEPT ![s][b] = d]
    /\ gone' = IF \E t \in ReadFrom(row) \ {s} : copy[t][b] = "good"
                THEN gone ELSE gone \cup {b}
    /\ UNCHANGED <<row, recorded, cache, put, waiting, job>>

-----------------------------------------------------------------------------
Upload(u) == BeginPut(u) \/ Write(u) \/ Look(u) \/ CopyPut(u) \/ Record(u)
                \/ LetGo(u)

Admin == (\E p \in Places : ChangePlace(p)) \/ Rekey \/ startCleaning
            \/ restartMove

Work(w) == \/ Start(w) \/ EndSame(w) \/ ReadPage(w)
           \/ MoveBlob(w) \/ CheckBlob(w) \/ DeleteOld(w) \/ Progress(w)
           \/ End(w) \/ JobCrashes(w) \/ LeaseEnds(w)

Next ==
    \/ \E u \in Uploads : Upload(u)
    \/ Admin
    \/ \E w \in Workers : Work(w)
    \/ \E s \in Stores, b \in Blobs : Damage(s, b)

Spec == Init /\ [][Next]_vars

-----------------------------------------------------------------------------
TypeOK ==
    /\ row \in [version : Versions, current : Places,
                previous : Places \cup {NoPlace}, phase : Phases,
                failed : BOOLEAN]
    /\ row.previous = NoPlace => row.phase = "active"
    /\ copy \in [Stores -> [Blobs -> {"none", "good", "short", "bad"}]]
    /\ recorded \subseteq Blobs /\ gone \subseteq recorded
    /\ cache \in [Servers -> Chosen]
    /\ \A u \in Uploads :
          /\ put[u].pc \in {"idle", "write", "look", "copy", "record", "over"}
          /\ put[u].used \in Chosen /\ put[u].now \in Places
    /\ waiting \subseteq Tasks
    /\ \A w \in Workers :
          /\ job[w].pc \in {"idle", "same", "page", "blob", "delete", "end"}
          /\ job[w].pc = "delete" => job[w].task = "clean" /\ job[w].page # {}
          /\ job[w].page \cup job[w].seen \subseteq Blobs

\* Whatever moves, crashes, retries and uploads cross, a blob the catalog names
\* has a good copy where it is read from: the place blobs go now, or the one
\* they come from while that is kept (TenantBlobStores.open, cleanTenantBlobs),
\* unless its last one was damaged.
NothingLost ==
    \A b \in recorded \ gone : \E s \in ReadFrom(row) : copy[s][b] = "good"
=============================================================================
