------------------------ MODULE TenantStorageProofs ------------------------
(***************************************************************************)
(* Theorems about TenantStorage, for every number of places, storages,     *)
(* blobs, servers, uploads, handlers, changes and faults.                  *)
(***************************************************************************)
EXTENDS TenantStorage, TLAPS, FiniteSetTheorems, WellFoundedInduction

-----------------------------------------------------------------------------
(* Typing.  TypeOK is not inductive: what a handler and an upload carry has *)
(* its type too, and an upload under way has a blob.                        *)

PutPcs == {"idle", "write", "look", "copy", "record", "over"}
JobPcs == {"idle", "same", "page", "blob", "delete", "end"}

SomeServer == CHOOSE s \in Servers : TRUE

Puts == [pc : PutPcs, server : Servers \cup {SomeServer},
         blob : Blobs \cup {0}, used : Chosen, now : Places]

Jobs == [pc : JobPcs, version : Versions, task : {"move", "clean"},
         from : Places, to : Places, after : Blobs \cup {0},
         page : SUBSET Blobs, last : BOOLEAN, second : BOOLEAN,
         seen : SUBSET Blobs, failed : BOOLEAN, live : BOOLEAN]

Rows == [version : Versions, current : Places,
         previous : Places \cup {NoPlace}, phase : Phases, failed : BOOLEAN]

Copies == [Stores -> [Blobs -> {"none", "good", "short", "bad"}]]

Typing ==
    /\ row \in Rows /\ (row.previous = NoPlace => row.phase = "active")
    /\ copy \in Copies
    /\ recorded \subseteq Blobs /\ gone \subseteq recorded
    /\ cache \in [Servers -> Chosen]
    /\ put \in [Uploads -> Puts]
    /\ \A u \in Uploads :
          put[u].pc \notin {"idle", "over"} => put[u].blob \in Blobs
    /\ waiting \subseteq Tasks
    /\ job \in [Workers -> Jobs]
    /\ \A w \in Workers :
          job[w].pc = "delete" => job[w].task = "clean" /\ job[w].page # {}

\* The first blob of a page that is not empty.
LEMMA MinIsFirst ==
    ASSUME NEW S \in SUBSET Blobs, S # {}
    PROVE  Min(S) \in S /\ \A c \in S : Min(S) <= c
  <1>1. Blobs \subseteq Nat
    BY StorageAssumption DEF Blobs
  <1>2. IsWellFoundedOn(OpToRel(<, Nat), Nat)
    BY NatLessThanWellFounded
  <1>3. PICK x \in S : \A y \in S : ~(<<y, x>> \in OpToRel(<, Nat))
    BY <1>1, <1>2, WFMin, Zenon
  <1>4. \A y \in S : y \in Nat /\ (~(y < x) => x <= y)
    BY <1>1
  <1>5. \A y \in S : ~(y < x)
    BY <1>1, <1>3 DEF OpToRel
  <1>6. \E z \in S : \A y \in S : z <= y
    BY <1>4, <1>5
  <1> QED BY <1>6 DEF Min

\* What a page leaves for later comes after all it lists, and a page that is
\* not full leaves nothing.
LEMMA PageIsFirst ==
    ASSUME NEW S \in SUBSET Blobs
    PROVE  /\ FirstPage(S) \subseteq S
           /\ Cardinality(S) < PageSize => FirstPage(S) = S
           /\ \A b \in S \ FirstPage(S), c \in FirstPage(S) : c < b
  <1> DEFINE Below(b) == {c \in S : c < b}
  <1>0. IsFiniteSet(Blobs) /\ Blobs \subseteq Nat
    BY FS_Interval, StorageAssumption DEF Blobs
  <1>1. IsFiniteSet(S) /\ S \subseteq Nat
    BY <1>0, FS_Subset
  <1>2. \A b \in S : /\ IsFiniteSet(Below(b)) /\ Cardinality(Below(b)) \in Nat
                     /\ Cardinality(Below(b)) <= Cardinality(S)
    <2> TAKE b \in S
    <2>1. Below(b) \in SUBSET S
      OBVIOUS
    <2> HIDE DEF Below
    <2> QED BY <1>1, <2>1, FS_Subset, FS_CardinalityType
  <1>3. Cardinality(S) \in Nat
    BY <1>1, FS_CardinalityType
  <1>4. \A b, c \in S : b <= c => Cardinality(Below(b)) <= Cardinality(Below(c))
    <2> SUFFICES ASSUME NEW b \in S, NEW c \in S, b <= c
                 PROVE  Cardinality(Below(b)) <= Cardinality(Below(c))
      OBVIOUS
    <2>1. \A a \in S : a < b => a < c
      BY <1>1
    <2>1a. Below(b) \in SUBSET Below(c)
      BY <2>1
    <2>2. IsFiniteSet(Below(c))
      BY <1>2
    <2> HIDE DEF Below
    <2> QED BY <2>1a, <2>2, FS_Subset
  <1>5. FirstPage(S) = {b \in S : Cardinality(Below(b)) < PageSize}
    BY DEF FirstPage
  <1> HIDE DEF Below
  <1>6. PageSize \in Nat
    BY StorageAssumption
  <1>7. ASSUME NEW b \in S \ FirstPage(S), NEW c \in FirstPage(S)
        PROVE  c < b
    <2>1. b \in S /\ c \in S /\ b \in Nat /\ c \in Nat
      BY <1>1, <1>5
    <2>2. ~(Cardinality(Below(b)) < PageSize) /\ Cardinality(Below(c)) < PageSize
      BY <1>5
    <2>3. ~(b <= c)
      BY <1>2, <1>4, <1>6, <2>1, <2>2
    <2> QED BY <2>1, <2>3
  <1>8. ASSUME Cardinality(S) < PageSize
        PROVE  FirstPage(S) = S
    BY <1>2, <1>3, <1>5, <1>6, <1>8
  <1> QED BY <1>5, <1>7, <1>8

LEMMA ConstantsTyped ==
    /\ NoPut \in Puts /\ Idle \in Jobs /\ NoChoice \in Chosen
    /\ [NoPut EXCEPT !.pc = "over"] \in Puts
    /\ Blobs \subseteq Nat
  <1>1. Local \in Places /\ 0 \in Versions /\ Blobs \subseteq Nat
    BY StorageAssumption DEF Versions, Blobs
  <1>2. NoChoice \in Chosen
    BY <1>1 DEF NoChoice, Chosen
  <1>3. NoPut \in Puts /\ [NoPut EXCEPT !.pc = "over"] \in Puts
    BY <1>1, <1>2 DEF NoPut, Puts, PutPcs, SomeServer
  <1>4. Idle \in Jobs
    BY <1>1 DEF Idle, Jobs, JobPcs
  <1> QED BY <1>1, <1>2, <1>3, <1>4

LEMMA InitTyped == Init => Typing
  <1> SUFFICES ASSUME Init PROVE Typing
    OBVIOUS
  <1> USE ConstantsTyped, StorageAssumption
  <1>1. row \in Rows /\ row.phase = "active"
    BY DEF Init, Rows, Versions, Phases
  <1>2. copy \in Copies
    BY DEF Init, Copies
  <1>3. cache \in [Servers -> Chosen]
    BY DEF Init
  <1>4. put \in [Uploads -> Puts] /\ \A u \in Uploads : put[u].pc = "idle"
    BY DEF Init, NoPut
  <1>5. job \in [Workers -> Jobs] /\ \A w \in Workers : job[w].pc = "idle"
    BY DEF Init, Idle
  <1>6. recorded \subseteq Blobs /\ gone = {} /\ waiting = {}
    BY DEF Init
  <1> QED BY <1>1, <1>2, <1>3, <1>4, <1>5, <1>6 DEF Typing

\* One upload or one handler goes on; what it carries keeps its type.
LEMMA OnePut ==
    ASSUME Typing, NEW u \in Uploads, NEW r \in Puts,
           r.pc \notin {"idle", "over"} => r.blob \in Blobs,
           put' = [put EXCEPT ![u] = r]
    PROVE  /\ put' \in [Uploads -> Puts]
           /\ \A v \in Uploads :
                 put'[v].pc \notin {"idle", "over"} => put'[v].blob \in Blobs
  BY DEF Typing

LEMMA OneJob ==
    ASSUME Typing, NEW w \in Workers, NEW r \in Jobs,
           r.pc = "delete" => r.task = "clean" /\ r.page # {},
           job' = [job EXCEPT ![w] = r]
    PROVE  /\ job' \in [Workers -> Jobs]
           /\ \A v \in Workers : job'[v].pc = "delete"
                 => job'[v].task = "clean" /\ job'[v].page # {}
  BY DEF Typing

LEMMA PutIntoTyped ==
    ASSUME Typing, NEW s \in Stores, NEW b \in Blobs, PutInto(s, b)
    PROVE  copy' \in Copies
  BY DEF Typing, Copies, PutInto

LEMMA UploadTyped ==
    ASSUME Typing, NEW u \in Uploads, Upload(u)
    PROVE  Typing'
  <1> USE ConstantsTyped
  <1>1. put[u] \in Puts /\ cache \in [Servers -> Chosen]
    BY DEF Typing
  <1>2. Resolved \in Chosen
    BY DEF Typing, Rows, Resolved, Chosen
  <1>3. ASSUME BeginPut(u) PROVE Typing'
    <2>1. PICK s \in Servers, b \in Blobs : \E used \in {cache[s], Resolved} :
             /\ put' = [put EXCEPT ![u] = [put[u] EXCEPT !.pc = "write",
                           !.server = s, !.blob = b, !.used = used]]
             /\ cache' = [cache EXCEPT ![s] = used]
      BY <1>3 DEF BeginPut, Typing
    <2>2. PICK used \in Chosen :
             /\ put' = [put EXCEPT ![u] = [put[u] EXCEPT !.pc = "write",
                           !.server = s, !.blob = b, !.used = used]]
             /\ cache' = [cache EXCEPT ![s] = used]
      BY <1>1, <1>2, <2>1
    <2>3. [put[u] EXCEPT !.pc = "write", !.server = s, !.blob = b,
              !.used = used] \in Puts
      BY <1>1 DEF Puts, PutPcs
    <2>4. cache' \in [Servers -> Chosen]
      BY <1>1, <2>2
    <2>5. UNCHANGED <<row, copy, recorded, waiting, job, faults, gone>>
      BY <1>3 DEF BeginPut
    <2>6. [put[u] EXCEPT !.pc = "write", !.server = s, !.blob = b,
              !.used = used].blob \in Blobs
      BY <1>1 DEF Puts
    <2>7. /\ put' \in [Uploads -> Puts]
          /\ \A v \in Uploads :
                put'[v].pc \notin {"idle", "over"} => put'[v].blob \in Blobs
      BY <2>2, <2>3, <2>6, OnePut
    <2> QED BY <2>4, <2>5, <2>7 DEF Typing
  <1>4. ASSUME Write(u) PROVE Typing'
    <2>1. put[u].blob \in Blobs /\ put[u].used \in Chosen
      BY <1>1, <1>4 DEF Write, Typing, Puts
    <2>2. At[put[u].used.current] \in Stores
      BY <2>1, StorageAssumption DEF Chosen
    <2>3. copy' \in Copies
      BY <1>4, <2>1, <2>2, PutIntoTyped DEF Write
    <2>4. put' = [put EXCEPT ![u] = [put[u] EXCEPT !.pc = "look"]]
      BY <1>4 DEF Write, Typing
    <2>5. [put[u] EXCEPT !.pc = "look"] \in Puts
      BY <1>1 DEF Puts, PutPcs
    <2>6. [put[u] EXCEPT !.pc = "look"].blob = put[u].blob
      BY <1>1 DEF Puts
    <2>7. /\ put' \in [Uploads -> Puts]
          /\ \A v \in Uploads :
                put'[v].pc \notin {"idle", "over"} => put'[v].blob \in Blobs
      BY <2>1, <2>4, <2>5, <2>6, OnePut
    <2>8. UNCHANGED <<row, recorded, cache, waiting, job, faults, gone>>
      BY <1>4 DEF Write
    <2> QED BY <2>3, <2>7, <2>8 DEF Typing
  <1>5. ASSUME Look(u) PROVE Typing'
    <2> DEFINE pc == IF Elsewhere(put[u].used, Resolved) THEN "copy" ELSE "record"
    <2> DEFINE r == [put[u] EXCEPT !.now = row.current, !.pc = pc]
    <2>1. put' = [put EXCEPT ![u] = r]
      BY <1>5 DEF Look, Typing
    <2>2. row.current \in Places /\ pc \in {"copy", "record"}
      BY DEF Typing, Rows
    <2>3. put[u].blob \in Blobs
      BY <1>5 DEF Look, Typing
    <2> HIDE DEF pc
    <2>4. r \in Puts /\ r.blob \in Blobs
      BY <1>1, <2>2, <2>3 DEF Puts, PutPcs
    <2> HIDE DEF r
    <2>5. /\ put' \in [Uploads -> Puts]
          /\ \A v \in Uploads :
                put'[v].pc \notin {"idle", "over"} => put'[v].blob \in Blobs
      BY <2>1, <2>4, OnePut
    <2>6. cache' \in [Servers -> Chosen]
      BY <1>1, <1>2, <1>5 DEF Look
    <2>7. UNCHANGED <<row, copy, recorded, waiting, job, faults, gone>>
      BY <1>5 DEF Look
    <2> QED BY <2>5, <2>6, <2>7 DEF Typing
  <1>6. ASSUME Over(u) PROVE
              /\ put' \in [Uploads -> Puts]
              /\ \A v \in Uploads :
                    put'[v].pc \notin {"idle", "over"} => put'[v].blob \in Blobs
    <2>1. [NoPut EXCEPT !.pc = "over"].pc = "over"
      BY DEF NoPut
    <2> QED BY <1>6, <2>1, OnePut DEF Over
  <1>7. ASSUME CopyPut(u) PROVE Typing'
    <2>1. put[u].blob \in Blobs /\ put[u].now \in Places
      BY <1>1, <1>7 DEF CopyPut, Typing, Puts
    <2>2. At[put[u].now] \in Stores
      BY <2>1, StorageAssumption
    <2>3. UNCHANGED <<row, recorded, cache, waiting, job, faults, gone>>
      BY <1>7 DEF CopyPut
    <2>4. CASE Over(u) /\ UNCHANGED copy
      BY <1>6, <2>3, <2>4 DEF Typing
    <2>5. CASE /\ PutInto(At[put[u].now], put[u].blob)
               /\ put' = [put EXCEPT ![u].pc = "record"]
      <3>1. copy' \in Copies
        BY <2>1, <2>2, <2>5, PutIntoTyped
      <3>2. put' = [put EXCEPT ![u] = [put[u] EXCEPT !.pc = "record"]]
        BY <2>5 DEF Typing
      <3>3. [put[u] EXCEPT !.pc = "record"] \in Puts
        BY <1>1 DEF Puts, PutPcs
      <3>4. [put[u] EXCEPT !.pc = "record"].blob = put[u].blob
        BY <1>1 DEF Puts
      <3>5. /\ put' \in [Uploads -> Puts]
            /\ \A v \in Uploads :
                  put'[v].pc \notin {"idle", "over"} => put'[v].blob \in Blobs
        BY <2>1, <3>2, <3>3, <3>4, OnePut
      <3> QED BY <2>3, <3>1, <3>5 DEF Typing
    <2> QED BY <1>7, <2>4, <2>5 DEF CopyPut
  <1>8. ASSUME Record(u) PROVE Typing'
    <2>1. put[u].blob \in Blobs
      BY <1>8 DEF Record, Typing
    <2>2. recorded' = recorded \cup {put[u].blob} /\ Over(u)
          /\ UNCHANGED <<row, copy, cache, waiting, job, faults, gone>>
      BY <1>8 DEF Record
    <2> QED BY <1>6, <2>1, <2>2 DEF Typing
  <1>9. ASSUME LetGo(u) PROVE Typing'
    BY <1>6, <1>9 DEF LetGo, Typing
  <1> QED BY <1>3, <1>4, <1>5, <1>7, <1>8, <1>9 DEF Upload

LEMMA AdminTyped ==
    ASSUME Typing, Admin
    PROVE  Typing'
  <1>1. row \in Rows /\ row.version \in Nat /\ MaxVersion \in Nat
    BY StorageAssumption DEF Typing, Rows, Versions
  <1>2. ASSUME NEW r \in Rows, NEW task \in {"move", "clean"},
               r.previous = NoPlace => r.phase = "active", Changed(r, task)
        PROVE  Typing'
    <2>1. [version |-> r.version, task |-> task] \in Tasks
      BY DEF Rows, Tasks
    <2>2. waiting' \subseteq Tasks
      BY <1>2, <2>1 DEF Changed, Typing
    <2>3. row' = r /\ UNCHANGED <<copy, recorded, cache, put, job, faults, gone>>
      BY <1>2 DEF Changed
    <2> QED BY <1>2, <2>2, <2>3 DEF Typing
  <1>3. ASSUME NEW p \in Places, ChangePlace(p) PROVE Typing'
    <2> DEFINE r == [version |-> row.version + 1, current |-> p,
                     previous |-> row.current, phase |-> "moving",
                     failed |-> FALSE]
    <2>1. Changed(r, "move") /\ row.version < MaxVersion
      BY <1>3 DEF ChangePlace
    <2>2. r \in Rows /\ r.previous # NoPlace
      BY <1>1, <2>1, StorageAssumption DEF Rows, Versions, Phases
    <2> HIDE DEF r
    <2> QED BY <1>2, <2>1, <2>2
  <1>4. ASSUME Rekey PROVE Typing'
    <2>1. /\ row' = [row EXCEPT !.version = @ + 1] /\ row.version < MaxVersion
          /\ UNCHANGED <<copy, recorded, cache, put, waiting, job, faults, gone>>
      BY <1>4 DEF Rekey
    <2>2. row' \in Rows /\ row'.previous = row.previous /\ row'.phase = row.phase
      BY <1>1, <2>1 DEF Rows, Versions
    <2> QED BY <2>1, <2>2 DEF Typing
  <1>5. ASSUME startCleaning PROVE Typing'
    <2>1. CASE Changed(row, "clean")
      BY <1>1, <1>2, <2>1 DEF Typing
    <2> DEFINE r == [row EXCEPT !.version = @ + 1, !.phase = "cleaning"]
    <2>2. CASE Changed(r, "clean") /\ row.version < MaxVersion
                  /\ row.previous # NoPlace
      <3>a. row.version + 1 \in Versions
        BY <1>1, <2>2 DEF Versions
      <3>1. r \in Rows /\ r.previous # NoPlace
        BY <1>1, <2>2, <3>a DEF Rows, Phases
      <3> HIDE DEF r
      <3> QED BY <1>2, <2>2, <3>1
    <2> QED BY <1>5, <2>1, <2>2 DEF startCleaning
  <1>6. ASSUME restartMove PROVE Typing'
    <2> DEFINE r == [row EXCEPT !.version = @ + 1, !.phase = "moving",
                                !.failed = FALSE]
    <2>1. Changed(r, "move") /\ row.version < MaxVersion /\ row.previous # NoPlace
      BY <1>6 DEF restartMove
    <2>a. row.version + 1 \in Versions
      BY <1>1, <2>1 DEF Versions
    <2>2. r \in Rows /\ r.previous # NoPlace
      BY <1>1, <2>1, <2>a DEF Rows, Phases
    <2> HIDE DEF r
    <2> QED BY <1>2, <2>1, <2>2
  <1> QED BY <1>3, <1>4, <1>5, <1>6 DEF Admin

\* A blob that a page has gone past.
LEMMA PastTyped ==
    ASSUME Typing, NEW w \in Workers, NEW b \in Blobs, NEW failing \in BOOLEAN,
           Past(w, b, failing)
    PROVE  /\ job' \in [Workers -> Jobs]
           /\ \A v \in Workers : job'[v].pc = "delete"
                 => job'[v].task = "clean" /\ job'[v].page # {}
  <1> DEFINE seen   == IF job[w].task = "clean" THEN job[w].seen \cup {b}
                                                ELSE job[w].seen
             page   == job[w].page \ {b}
             failed == job[w].failed \/ failing
             r      == [job[w] EXCEPT !.pc = "blob", !.page = page, !.after = b,
                                      !.seen = seen, !.failed = failed]
  <1>1. job[w] \in Jobs
    BY DEF Typing
  <1>2. job' = [job EXCEPT ![w] = r]
    BY DEF Past
  <1>3. seen \in SUBSET Blobs /\ page \in SUBSET Blobs /\ failed \in BOOLEAN
    BY <1>1 DEF Jobs
  <1> HIDE DEF seen, page, failed
  <1>4. r \in Jobs /\ r.pc = "blob"
    BY <1>1, <1>3 DEF Jobs, JobPcs
  <1> HIDE DEF r
  <1> QED BY <1>2, <1>4, OneJob

\* The blob a handler is at, and the storages it works between.
LEMMA AtABlob ==
    ASSUME Typing, NEW w \in Workers, job[w].page # {}
    PROVE  /\ Min(job[w].page) \in Blobs /\ Min(job[w].page) \in job[w].page
           /\ \A c \in job[w].page : Min(job[w].page) <= c
           /\ At[job[w].from] \in Stores /\ At[job[w].to] \in Stores
  <1>1. job[w].page \in SUBSET Blobs /\ job[w].from \in Places
        /\ job[w].to \in Places
    BY DEF Typing, Jobs
  <1>2. Min(job[w].page) \in job[w].page
        /\ \A c \in job[w].page : Min(job[w].page) <= c
    BY <1>1, MinIsFirst
  <1>3. At[job[w].from] \in Stores /\ At[job[w].to] \in Stores
    BY <1>1, StorageAssumption
  <1> QED BY <1>1, <1>2, <1>3

LEMMA WorkTyped ==
    ASSUME Typing, NEW w \in Workers, Work(w)
    PROVE  Typing'
  <1> USE ConstantsTyped
  <1> DEFINE JobsTyped ==
        /\ job \in [Workers -> Jobs]
        /\ \A v \in Workers :
              job[v].pc = "delete" => job[v].task = "clean" /\ job[v].page # {}
  <1>1. job[w] \in Jobs /\ row \in Rows
    BY DEF Typing
  <1>2. ASSUME Stop(w) PROVE JobsTyped'
    <2>1. Idle.pc = "idle"
      BY DEF Idle
    <2> QED BY <1>2, <2>1, OneJob DEF Stop
  <1>3. ASSUME NEW pc \in JobPcs \ {"delete"},
               job' = [job EXCEPT ![w].pc = pc]
        PROVE  JobsTyped'
    <2>1. job' = [job EXCEPT ![w] = [job[w] EXCEPT !.pc = pc]]
      BY <1>3 DEF Typing
    <2>2. [job[w] EXCEPT !.pc = pc] \in Jobs /\ [job[w] EXCEPT !.pc = pc].pc = pc
      BY <1>1 DEF Jobs
    <2> QED BY <1>3, <2>1, <2>2, OneJob
  <1>4. Again(w) \subseteq Tasks
    BY <1>1 DEF Again, Tasks, Jobs
  <1>5. ASSUME Start(w) PROVE Typing'
    <2>1. PICK j \in waiting :
             /\ waiting' = waiting \ {j}
             /\ \/ UNCHANGED <<row, job>>
                \/ /\ row.previous # NoPlace
                   /\ job' = [job EXCEPT ![w] = [Idle EXCEPT
                        !.pc = IF At[row.previous] = At[row.current]
                                  THEN "same" ELSE "page",
                        !.version = j.version, !.task = j.task,
                        !.from = row.previous, !.to = row.current]]
                   /\ row' = [row EXCEPT !.failed = row.failed
                                /\ At[row.previous] = At[row.current]]
      BY <1>5 DEF Start
    <2>2. UNCHANGED <<copy, recorded, cache, put, faults, gone>>
      BY <1>5 DEF Start
    <2>3. waiting' \subseteq Tasks /\ j \in Tasks
      BY <2>1 DEF Typing
    <2>4. CASE UNCHANGED <<row, job>>
      BY <2>2, <2>3, <2>4 DEF Typing
    <2>5. ASSUME row.previous # NoPlace,
                 job' = [job EXCEPT ![w] = [Idle EXCEPT
                        !.pc = IF At[row.previous] = At[row.current]
                                  THEN "same" ELSE "page",
                        !.version = j.version, !.task = j.task,
                        !.from = row.previous, !.to = row.current]],
                 row' = [row EXCEPT !.failed = row.failed
                                /\ At[row.previous] = At[row.current]]
          PROVE  Typing'
      <3> DEFINE pc == IF At[row.previous] = At[row.current]
                          THEN "same" ELSE "page"
                 r  == [Idle EXCEPT !.pc = pc,
                           !.version = j.version, !.task = j.task,
                           !.from = row.previous, !.to = row.current]
                 failed == row.failed /\ At[row.previous] = At[row.current]
      <3>1. pc \in {"same", "page"} /\ failed \in BOOLEAN
        BY <1>1 DEF Rows
      <3>2. row.previous \in Places /\ row.current \in Places
        BY <1>1, <2>5 DEF Rows
      <3>3. job' = [job EXCEPT ![w] = r] /\ row' = [row EXCEPT !.failed = failed]
        BY <2>5
      <3> HIDE DEF pc, failed
      <3>4. r \in Jobs /\ r.pc = pc
        BY <2>3, <3>1, <3>2 DEF Jobs, JobPcs, Tasks
      <3> HIDE DEF r
      <3>5. JobsTyped'
        BY <3>1, <3>3, <3>4, OneJob
      <3>6. row' \in Rows /\ row'.previous = row.previous
        BY <1>1, <3>1, <3>3 DEF Rows
      <3> QED BY <2>2, <2>3, <2>5, <3>5, <3>6 DEF Typing
    <2> QED BY <2>1, <2>4, <2>5
  <1>6. ASSUME EndSame(w) PROVE Typing'
    <2>1. row' \in Rows /\ (row'.previous = NoPlace => row'.phase = "active")
      BY <1>1, <1>6 DEF EndSame, Typing, Rows, Phases
    <2>2. UNCHANGED <<copy, recorded, cache, put, waiting, faults, gone>>
      BY <1>6 DEF EndSame
    <2> QED BY <1>2, <1>6, <2>1, <2>2 DEF EndSame, Typing
  <1>7. ASSUME ReadPage(w) PROVE Typing'
    <2>1. UNCHANGED <<row, copy, recorded, cache, put, waiting, faults, gone>>
      BY <1>7 DEF ReadPage
    <2>2. CASE Stop(w)
      BY <1>2, <2>1, <2>2 DEF Typing
    <2> DEFINE page == FirstPage(Listed(w))
               last == Cardinality(Listed(w)) < PageSize
               r == [job[w] EXCEPT !.pc = "blob", !.page = page, !.last = last]
    <2>3. CASE job' = [job EXCEPT ![w] = r]
      <3>1. page \in SUBSET Blobs /\ last \in BOOLEAN
        BY PageIsFirst DEF Listed, Typing
      <3> HIDE DEF page, last
      <3>2. r \in Jobs /\ r.pc = "blob"
        BY <1>1, <3>1 DEF Jobs, JobPcs
      <3> HIDE DEF r
      <3>3. JobsTyped'
        BY <2>3, <3>2, OneJob
      <3> QED BY <2>1, <3>3 DEF Typing
    <2> QED BY <1>7, <2>2, <2>3 DEF ReadPage
  <1>8. ASSUME NEW failing \in BOOLEAN, job[w].page # {},
               Past(w, Min(job[w].page), failing)
        PROVE  JobsTyped'
    BY <1>8, AtABlob, PastTyped
  <1>9. ASSUME MoveBlob(w) PROVE Typing'
    <2>1. job[w].page # {} /\ UNCHANGED <<row, recorded, cache, put, waiting, gone>>
      BY <1>9 DEF MoveBlob
    <2>2. copy' \in Copies
      BY <1>9, <2>1, AtABlob, PutIntoTyped DEF MoveBlob, Typing
    <2>3. \E failing \in BOOLEAN : Past(w, Min(job[w].page), failing)
      BY <1>9 DEF MoveBlob
    <2> QED BY <1>8, <2>1, <2>2, <2>3 DEF Typing
  <1>10. ASSUME CheckBlob(w) PROVE Typing'
    <2>1. /\ job[w].page # {} /\ job[w].task = "clean"
          /\ UNCHANGED <<row, recorded, cache, put, waiting, gone>>
      BY <1>10 DEF CheckBlob
    <2>2. copy' \in Copies
      BY <1>10, <2>1, AtABlob, PutIntoTyped DEF CheckBlob, Typing
    <2>3. \/ \E failing \in BOOLEAN : Past(w, Min(job[w].page), failing)
          \/ job' = [job EXCEPT ![w].pc = "delete"]
      BY <1>10 DEF CheckBlob
    <2>4. ASSUME job' = [job EXCEPT ![w].pc = "delete"] PROVE JobsTyped'
      <3> DEFINE r == [job[w] EXCEPT !.pc = "delete"]
      <3>1. job' = [job EXCEPT ![w] = r]
        BY <2>4 DEF Typing
      <3>2. r \in Jobs /\ r.page = job[w].page /\ r.task = job[w].task
        BY <1>1 DEF Jobs, JobPcs
      <3> HIDE DEF r
      <3> QED BY <2>1, <3>1, <3>2, OneJob
    <2>5. JobsTyped'
      BY <1>8, <2>1, <2>3, <2>4
    <2> QED BY <2>1, <2>2, <2>5 DEF Typing
  <1>11. ASSUME DeleteOld(w) PROVE Typing'
    <2>1. /\ job[w].page # {}
          /\ Past(w, Min(job[w].page), FALSE)
          /\ copy' = [copy EXCEPT ![At[job[w].from]][Min(job[w].page)] = "none"]
          /\ UNCHANGED <<row, recorded, cache, put, waiting, faults, gone>>
      BY <1>11 DEF DeleteOld, Typing
    <2>2. copy' \in Copies
      BY <2>1, AtABlob DEF Typing, Copies
    <2> QED BY <1>8, <2>1, <2>2 DEF Typing
  <1>12. ASSUME Progress(w) PROVE Typing'
    <2>1. UNCHANGED <<copy, recorded, cache, put, waiting, faults, gone>>
      BY <1>12 DEF Progress
    <2>2. row' \in Rows /\ row'.previous = row.previous /\ row'.phase = row.phase
      BY <1>1, <1>12 DEF Progress, Rows, Jobs
    <2>3. JobsTyped'
      <3>1. CASE Stop(w)
        BY <1>2, <3>1
      <3>2. CASE job' = [job EXCEPT ![w] = [job[w] EXCEPT !.pc = "page"]]
        <4>1. [job[w] EXCEPT !.pc = "page"] \in Jobs
          BY <1>1 DEF Jobs, JobPcs
        <4> QED BY <1>1, <3>2, <4>1, OneJob DEF Jobs
      <3>3. CASE job' = [job EXCEPT ![w] = [job[w] EXCEPT !.pc = "page",
                            !.after = 0, !.second = TRUE]]
        <4>1. [job[w] EXCEPT !.pc = "page", !.after = 0, !.second = TRUE] \in Jobs
          BY <1>1 DEF Jobs, JobPcs
        <4> QED BY <1>1, <3>3, <4>1, OneJob DEF Jobs
      <3>4. CASE job' = [job EXCEPT ![w] = [job[w] EXCEPT !.pc = "end"]]
        <4>1. [job[w] EXCEPT !.pc = "end"] \in Jobs
          BY <1>1 DEF Jobs, JobPcs
        <4> QED BY <1>1, <3>4, <4>1, OneJob DEF Jobs
      <3> HIDE DEF JobsTyped
      <3> QED BY <1>12, <3>1, <3>2, <3>3, <3>4 DEF Progress
    <2> QED BY <2>1, <2>2, <2>3 DEF Typing
  <1>13. ASSUME End(w) PROVE Typing'
    <2>1. row' \in Rows /\ (row'.previous = NoPlace => row'.phase = "active")
      BY <1>1, <1>13 DEF End, Typing, Rows, Phases, Jobs
    <2>2. UNCHANGED <<copy, recorded, cache, put, waiting, faults, gone>>
      BY <1>13 DEF End
    <2> QED BY <1>2, <1>13, <2>1, <2>2 DEF End, Typing
  <1>14. ASSUME JobCrashes(w) PROVE Typing'
    <2>1. waiting' \subseteq Tasks
      BY <1>4, <1>14 DEF JobCrashes, Typing
    <2> QED BY <1>2, <1>14, <2>1 DEF JobCrashes, Typing
  <1>15. ASSUME LeaseEnds(w) PROVE Typing'
    <2>1. waiting' \subseteq Tasks
      BY <1>4, <1>15 DEF LeaseEnds, Typing
    <2>2. job' = [job EXCEPT ![w] = [job[w] EXCEPT !.live = FALSE]]
      BY <1>15 DEF LeaseEnds, Typing
    <2>3. /\ [job[w] EXCEPT !.live = FALSE] \in Jobs
          /\ [job[w] EXCEPT !.live = FALSE].pc = job[w].pc
          /\ [job[w] EXCEPT !.live = FALSE].task = job[w].task
          /\ [job[w] EXCEPT !.live = FALSE].page = job[w].page
      BY <1>1 DEF Jobs
    <2>4. JobsTyped'
      BY <2>2, <2>3, OneJob DEF Typing
    <2> QED BY <1>15, <2>1, <2>4 DEF LeaseEnds, Typing
  <1> HIDE DEF JobsTyped
  <1> QED BY <1>5, <1>6, <1>7, <1>9, <1>10, <1>11, <1>12, <1>13, <1>14, <1>15
          DEF Work

LEMMA DamageTyped ==
    ASSUME Typing, NEW s \in Stores, NEW b \in Blobs, Damage(s, b)
    PROVE  Typing'
  <1>1. copy' \in Copies
    BY StorageAssumption DEF Damage, Typing, Copies
  <1>2. gone' \subseteq recorded
    BY DEF Damage, Typing
  <1> QED BY <1>1, <1>2 DEF Damage, Typing

\* What is stored and under way keeps its type: the choice, the copies, the
\* uploads and the handlers of the storage queue (tenant-storage.ts).
THEOREM StorageTyped == Spec => []TypeOK
  <1>1. ASSUME Typing, [Next]_vars PROVE Typing'
    <2>1. CASE Next
      BY <1>1, <2>1, UploadTyped, AdminTyped, WorkTyped, DamageTyped DEF Next
    <2>2. CASE UNCHANGED vars
      BY <1>1, <2>2 DEF vars, Typing
    <2> QED BY <1>1, <2>1, <2>2
  <1>2. Typing => TypeOK
    BY DEF Typing, TypeOK, Rows, Copies, Puts, PutPcs, Jobs, JobPcs
  <1> QED BY InitTyped, <1>1, <1>2, PTL DEF Spec

-----------------------------------------------------------------------------
(* That nothing is lost.  A blob's good copy is where it is read from       *)
(* because no removal, however old, empties the place blobs go to: what it  *)
(* deletes it has just checked there, and a removal that lets the old place *)
(* go has met every blob the catalog names, or its upload knew the new one. *)

From(w) == At[job[w].from]
To(w)   == At[job[w].to]
Good(s, b) == copy[s][b] = "good"

\* A handler of a removal, from its first page on.
Cleans(w) == /\ job[w].task = "clean"
             /\ job[w].pc \in {"page", "blob", "delete", "end"}

\* No copy has the right size and other bytes.
NeverBad == \A s \in Stores, b \in Blobs : copy[s][b] # "bad"

\* What a handler and an upload know of the choice is of its version or older.
KnowsTheRow(w) ==
    job[w].pc # "idle" =>
        /\ job[w].version <= row.version
        /\ Current(w) => /\ job[w].to = row.current
                         /\ row.previous \in {NoPlace, job[w].from}
        /\ job[w].pc = "same" => From(w) = To(w)
        /\ job[w].pc # "same" => From(w) # To(w)
        /\ job[w].page \subseteq recorded

JobsKnowTheRow == \A w \in Workers : KnowsTheRow(w)

UpTo(c) == /\ c.version <= row.version
           /\ c.version = row.version => c.current = row.current

PutKnows(u) ==
    LET b == put[u].blob IN
    /\ put[u].pc \in {"write", "look"} => UpTo(put[u].used)
    /\ put[u].pc \in {"look", "copy"} /\ b \notin recorded
          => Good(At[put[u].used.current], b)
    /\ put[u].pc = "record" /\ b \notin recorded => Good(At[put[u].now], b)
    /\ put[u].pc \in {"copy", "record"} => At[put[u].now] \in ReadFrom(row)

PutsKnow == /\ \A s \in Servers : UpTo(cache[s])
            /\ \A u \in Uploads : PutKnows(u)

\* The removals under way all empty other storages than any of them fills, and
\* fill one that is read; while one is of the row's version, the one it fills.
OnePlaceFilled ==
    (row.phase = "cleaning" \/ \E v \in Workers : Cleans(v) /\ Current(v))
        => \A w \in Workers : Cleans(w) => To(w) = At[row.current]

FilledIsRead  == \A w \in Workers : Cleans(w) => To(w) \in ReadFrom(row)
NoneIsEmptied == \A v, w \in Workers :
                    Cleans(v) /\ Cleans(w) => From(v) # To(w)

\* What is deleted next was checked, and is still there.
Checked == \A w \in Workers :
              job[w].pc = "delete" => Good(To(w), Min(job[w].page))

\* A blob the second pass has still to meet.
Pending(w, b) ==
    \/ job[w].pc = "page" /\ b > job[w].after
    \/ /\ job[w].pc \in {"blob", "delete"}
       /\ \/ b \in job[w].page
          \/ /\ ~job[w].last /\ b > job[w].after
             /\ \A c \in job[w].page : c < b

\* A removal that will let the old place go: what it met is good in the new
\* one, in its second pass every blob is, or will be met, and no upload is
\* left that knew only the old one.
RemovesAll(w) ==
    /\ ~job[w].failed => \A b \in job[w].seen \ gone : Good(To(w), b)
    /\ job[w].second /\ ~job[w].failed =>
          \A b \in recorded \ gone :
             b \in job[w].seen \/ Good(To(w), b) \/ Pending(w, b)
    /\ job[w].second /\ (job[w].pc # "page" \/ job[w].after # 0) =>
          \A u \in Uploads : ~Unsettled(w, u)
    /\ job[w].pc = "end" => job[w].second

RemovalsRemoveAll ==
    \A w \in Workers : Cleans(w) /\ Current(w) /\ row.previous # NoPlace
                          => RemovesAll(w)

Kept == /\ Typing /\ NeverBad /\ JobsKnowTheRow /\ PutsKnow
        /\ OnePlaceFilled /\ FilledIsRead /\ NoneIsEmptied
        /\ Checked /\ RemovalsRemoveAll /\ NothingLost

\* The environment the passing run assumes.
Timely == ~SlowRecords /\ ~LateDeletes /\ "bad" \notin Damages

LEMMA InitKept == Init => Kept
  <1> SUFFICES ASSUME Init PROVE Kept
    OBVIOUS
  <1>1. Typing
    BY InitTyped
  <1>2. /\ \A w \in Workers : job[w].pc = "idle"
        /\ \A u \in Uploads : put[u].pc = "idle"
    BY DEF Init, Idle, NoPut
  <1>3. \A s \in Servers : UpTo(cache[s])
    BY DEF Init, NoChoice, UpTo
  <1>4. /\ At[Local] \in Stores /\ At[Local] \in ReadFrom(row)
        /\ row.phase = "active"
    BY StorageAssumption DEF Init, ReadFrom
  <1>5. NeverBad
    BY DEF Init, NeverBad
  <1>6. NothingLost
    BY <1>4 DEF Init, NothingLost
  <1> QED BY <1>1, <1>2, <1>3, <1>4, <1>5, <1>6
      DEF Kept, JobsKnowTheRow, KnowsTheRow, PutsKnow, PutKnows, OnePlaceFilled,
          FilledIsRead, NoneIsEmptied, Cleans, Checked, RemovalsRemoveAll

\* Where blobs are read, place by place.
LEMMA ReadFromPlaces ==
    ASSUME Typing
    PROVE  /\ At[row.current] \in ReadFrom(row)
           /\ row.previous # NoPlace => At[row.previous] \in ReadFrom(row)
           /\ \A s \in ReadFrom(row) : s = At[row.current]
                 \/ (row.previous # NoPlace /\ s = At[row.previous])
           /\ ReadFrom(row) \subseteq Stores
  <1>1. row.current \in Places /\ row.current # NoPlace
        /\ row.previous \in Places \cup {NoPlace}
    BY StorageAssumption DEF Typing, Rows
  <1> QED BY <1>1, StorageAssumption DEF ReadFrom

\* A put makes one copy good, and changes no other.
LEMMA PutIntoDoes ==
    ASSUME Typing, NeverBad, NEW s \in Stores, NEW b \in Blobs, PutInto(s, b)
    PROVE  /\ NeverBad' /\ Good(s, b)'
           /\ \A t \in Stores, c \in Blobs : Good(t, c) => Good(t, c)'
  BY DEF Typing, Copies, NeverBad, PutInto, RightSize, Good

LEMMA UploadKept ==
    ASSUME Kept, NEW u \in Uploads, Upload(u)
    PROVE  Kept'
  <1>1. Typing /\ Typing' /\ NeverBad
    BY UploadTyped DEF Kept
  <1>2. UNCHANGED <<row, job, gone>>
    BY DEF Upload, BeginPut, Write, Look, CopyPut, Record, LetGo
  <1>3. put[u] \in Puts /\ put'[u] \in Puts
        /\ \A v \in Uploads : v # u => put'[v] = put[v]
    BY <1>1 DEF Typing, Upload, BeginPut, Write, Look, CopyPut, Record, LetGo,
                Over
  <1>4. ReadFrom(row)' = ReadFrom(row) /\ At[row.current] \in ReadFrom(row)
    BY <1>1, <1>2, ReadFromPlaces DEF ReadFrom
  \* What becomes of the copies: the upload's own at most is put.
  <1>5. /\ NeverBad'
        /\ \A t \in Stores, c \in Blobs : Good(t, c) => Good(t, c)'
    <2>1. CASE UNCHANGED copy
      BY <1>1, <2>1 DEF NeverBad, Good
    <2>2. CASE Write(u)
      <3>1. put[u].blob \in Blobs /\ At[put[u].used.current] \in Stores
        BY <1>1, <1>3, <2>2, StorageAssumption DEF Write, Typing, Puts, Chosen
      <3> QED BY <1>1, <2>2, <3>1, PutIntoDoes DEF Write
    <2>3. CASE CopyPut(u) /\ PutInto(At[put[u].now], put[u].blob)
      <3>1. put[u].blob \in Blobs /\ At[put[u].now] \in Stores
        BY <1>1, <1>3, <2>3, StorageAssumption DEF CopyPut, Typing, Puts
      <3> QED BY <1>1, <2>3, <3>1, PutIntoDoes
    <2> QED BY <2>1, <2>2, <2>3
         DEF Upload, BeginPut, Look, CopyPut, Record, LetGo
  \* What is recorded: the upload's blob at most, from "record".
  <1>6. \/ UNCHANGED recorded
        \/ put[u].pc = "record" /\ recorded' = recorded \cup {put[u].blob}
    BY DEF Upload, BeginPut, Write, Look, CopyPut, Record, LetGo
  <1>7. PutsKnow'
    <2>1. \A s \in Servers : UpTo(cache[s])'
      <3>1. cache' = cache
            \/ \E s \in Servers : cache' = [cache EXCEPT ![s] = Resolved]
            \/ Look(u)
        BY <1>1 DEF Upload, BeginPut, Write, Look, CopyPut, Record, LetGo, Typing
      <3>2. UpTo(Resolved)
        BY <1>1, StorageAssumption DEF UpTo, Resolved, Typing, Rows, Versions
      <3>3. \A s \in Servers : cache'[s] \in {cache[s], Resolved}
        BY <1>1, <3>1 DEF Look, Typing
      <3> QED BY <1>2, <3>2, <3>3 DEF Kept, PutsKnow, UpTo
    <2>2. ASSUME NEW v \in Uploads, v # u PROVE PutKnows(v)'
      <3>1. put'[v] = put[v] /\ put[v] \in Puts /\ PutKnows(v)
        BY <1>1, <1>3, <2>2 DEF Kept, PutsKnow, Typing
      <3>2. put[v].pc \in {"look", "copy", "record"} =>
                /\ put[v].blob \in Blobs
                /\ At[put[v].used.current] \in Stores /\ At[put[v].now] \in Stores
        BY <1>1, <3>1, StorageAssumption DEF Typing, Puts, Chosen
      <3>3. recorded \subseteq recorded'
        BY <1>6
      <3> QED BY <1>2, <1>4, <1>5, <3>1, <3>2, <3>3 DEF PutKnows, UpTo
    <2>3. PutKnows(u)'
      <3> USE <1>1, <1>3
      <3>0. PutKnows(u)
        BY DEF Kept, PutsKnow
      <3>1. CASE BeginPut(u)
        <4>0. PICK s \in Servers, b \in Blobs :
                 \E used \in {cache[s], Resolved} :
                    put' = [put EXCEPT ![u] = [put[u] EXCEPT !.pc = "write",
                              !.server = s, !.blob = b, !.used = used]]
          BY <3>1 DEF BeginPut
        <4>1. PICK used \in {cache[s], Resolved} :
                 put' = [put EXCEPT ![u] = [put[u] EXCEPT !.pc = "write",
                           !.server = s, !.blob = b, !.used = used]]
          BY <4>0
        <4>2. put'[u].pc = "write" /\ put'[u].used = used
          BY <4>1 DEF Typing, Puts
        <4>3. UpTo(used)
          BY <4>1, StorageAssumption
          DEF Kept, PutsKnow, UpTo, Resolved, Typing, Rows, Versions
        <4> QED BY <1>2, <4>2, <4>3 DEF PutKnows, UpTo
      <3>2. CASE Write(u)
        <4>1. /\ put[u].pc = "write" /\ put'[u].pc = "look"
              /\ put'[u].used = put[u].used /\ put'[u].blob = put[u].blob
          BY <3>2 DEF Write, Typing, Puts
        <4>2. put[u].blob \in Blobs /\ At[put[u].used.current] \in Stores
          BY <4>1, StorageAssumption DEF Typing, Puts, Chosen
        <4>3. Good(At[put[u].used.current], put[u].blob)'
          BY <3>2, <4>2, PutIntoDoes DEF Write
        <4> QED BY <1>2, <3>0, <4>1, <4>3 DEF PutKnows, UpTo, Good
      <3>3. CASE Look(u)
        <4>1. /\ put[u].pc = "look" /\ put'[u].now = row.current
              /\ put'[u].used = put[u].used /\ put'[u].blob = put[u].blob
              /\ put'[u].pc = IF Elsewhere(put[u].used, Resolved) THEN "copy"
                                                                 ELSE "record"
          BY <3>3 DEF Look, Typing, Puts
        <4>2. /\ UNCHANGED <<copy, recorded>>
          BY <3>3 DEF Look
        <4>3. put'[u].pc = "record" => put[u].used.current = row.current
          BY <3>0, <4>1 DEF Elsewhere, Resolved, PutKnows, UpTo
        <4> QED BY <1>2, <1>4, <3>0, <4>1, <4>2, <4>3 DEF PutKnows, Good
      <3>4. CASE CopyPut(u)
        <4>1. put[u].pc = "copy"
          BY <3>4 DEF CopyPut
        <4>2. CASE Over(u)
          BY <4>2 DEF Over, Typing, NoPut, PutKnows
        <4>3. CASE /\ PutInto(At[put[u].now], put[u].blob)
                   /\ put' = [put EXCEPT ![u].pc = "record"]
          <5>1. put'[u].pc = "record" /\ put'[u].now = put[u].now
                /\ put'[u].blob = put[u].blob
            BY <4>3 DEF Typing, Puts
          <5>2. put[u].blob \in Blobs /\ At[put[u].now] \in Stores
            BY <4>1, StorageAssumption DEF Typing, Puts
          <5>3. Good(At[put[u].now], put[u].blob)'
            BY <4>3, <5>2, PutIntoDoes
          <5> QED BY <1>4, <3>0, <4>1, <5>1, <5>3 DEF PutKnows, Good
        <4> QED BY <3>4, <4>2, <4>3 DEF CopyPut
      <3>5. CASE Over(u)
        BY <3>5 DEF Over, Typing, NoPut, PutKnows
      <3> QED BY <3>1, <3>2, <3>3, <3>4, <3>5 DEF Upload, Record, LetGo
    <2> QED BY <2>1, <2>2, <2>3 DEF PutsKnow
  <1>8. \A w \in Workers : /\ From(w)' = From(w) /\ To(w)' = To(w)
                           /\ Cleans(w)' = Cleans(w) /\ Current(w)' = Current(w)
    BY <1>2 DEF From, To, Cleans, Current
  <1>9. JobsKnowTheRow'
    BY <1>2, <1>6, <1>8 DEF Kept, JobsKnowTheRow, KnowsTheRow
  <1>10. OnePlaceFilled' /\ FilledIsRead' /\ NoneIsEmptied'
    BY <1>2, <1>4, <1>8 DEF Kept, OnePlaceFilled, FilledIsRead, NoneIsEmptied
  <1>11. \A w \in Workers : /\ To(w) \in Stores
                            /\ job[w].seen \subseteq Blobs
                            /\ job[w].after \in Nat
                            /\ job[w].page # {} => Min(job[w].page) \in Blobs
    BY <1>1, StorageAssumption, AtABlob, ConstantsTyped DEF To, Typing, Jobs
  <1>12. Checked'
    BY <1>1, <1>2, <1>5, <1>8, <1>11 DEF Kept, Checked, Typing, Good
  <1>13. NothingLost'
    <2> SUFFICES ASSUME NEW b \in recorded' \ gone
                 PROVE  \E s \in ReadFrom(row) : Good(s, b)'
      BY <1>2, <1>4 DEF NothingLost, Good
    <2>1. CASE b \in recorded
      <3>1. b \in Blobs /\ ReadFrom(row) \subseteq Stores
        BY <1>1, <2>1, ReadFromPlaces DEF Typing
      <3>2. \E s \in ReadFrom(row) : Good(s, b)
        BY <2>1 DEF Kept, NothingLost, Good
      <3> QED BY <1>5, <3>1, <3>2
    <2>2. CASE b \notin recorded
      <3>1. put[u].pc = "record" /\ b = put[u].blob
        BY <1>6, <2>2
      <3>2. Good(At[put[u].now], b) /\ At[put[u].now] \in ReadFrom(row)
        BY <2>2, <3>1 DEF Kept, PutsKnow, PutKnows
      <3>3. b \in Blobs /\ ReadFrom(row) \subseteq Stores
        BY <1>1, <3>1, ReadFromPlaces DEF Typing
      <3> QED BY <1>5, <3>2, <3>3
    <2> QED BY <2>1, <2>2
  <1>14. RemovalsRemoveAll'
    <2> SUFFICES ASSUME NEW w \in Workers,
                        Cleans(w), Current(w), row.previous # NoPlace
                 PROVE  RemovesAll(w)'
      BY <1>2, <1>8 DEF RemovalsRemoveAll
    <2>1. RemovesAll(w) /\ To(w) = At[row.current]
      <3>1. job[w].to = row.current
        BY DEF Kept, JobsKnowTheRow, KnowsTheRow, Cleans
      <3> QED BY <3>1 DEF Kept, RemovalsRemoveAll, To
    <2>2. \A v \in Uploads : Unsettled(w, v)' => Unsettled(w, v)
      <3>1. \A v \in Uploads : v # u => (Unsettled(w, v)' <=> Unsettled(w, v))
        BY <1>2, <1>3 DEF Unsettled
      <3>2. Unsettled(w, u)' => Unsettled(w, u)
        <4>1. CASE BeginPut(u) \/ Write(u) \/ Record(u) \/ LetGo(u)
          <5>1. BeginPut(u) => put'[u].pc = "write"
            BY <1>1, <1>3 DEF BeginPut, Typing, Puts
          <5>2. Write(u) => put'[u].pc = "look"
            BY <1>1, <1>3 DEF Write, Typing, Puts
          <5>3. Record(u) \/ LetGo(u) => put'[u].pc = "over"
            BY <1>1, <1>3 DEF Record, LetGo, Over, NoPut, Typing
          <5> QED BY <4>1, <5>1, <5>2, <5>3 DEF Unsettled
        <4>2. CASE Look(u)
          <5>1. put'[u].now = row.current
            BY <1>1, <1>3, <4>2 DEF Look, Typing, Puts
          <5> QED BY <1>2, <2>1, <5>1 DEF Unsettled, To
        <4>3. CASE CopyPut(u)
          <5>1. put[u].pc = "copy"
                /\ (put'[u].pc = "over" \/ put'[u].now = put[u].now)
            BY <1>1, <1>3, <4>3 DEF CopyPut, Over, NoPut, Typing, Puts
          <5> QED BY <1>2, <5>1 DEF Unsettled
        <4> QED BY <4>1, <4>2, <4>3 DEF Upload
      <3> QED BY <3>1, <3>2
    <2>3. ASSUME ~job[w].failed, NEW b \in job[w].seen \ gone
          PROVE  Good(To(w), b)'
      BY <1>5, <1>8, <1>11, <2>1, <2>3 DEF RemovesAll, Good
    <2>4. ASSUME job[w].second, ~job[w].failed, NEW b \in recorded' \ gone
          PROVE  b \in job[w].seen \/ Good(To(w), b)' \/ Pending(w, b)
      <3>1. CASE b \in recorded
        <4>1. b \in Blobs
          BY <1>1, <3>1 DEF Typing
        <4> QED BY <1>5, <1>8, <1>11, <2>1, <2>4, <3>1, <4>1
                DEF RemovesAll, Good
      <3>2. CASE b \notin recorded
        <4>1. put[u].pc = "record" /\ b = put[u].blob /\ b \in Blobs
          BY <1>1, <1>6, <3>2 DEF Typing
        <4>2. Good(At[put[u].now], b)
          BY <3>2, <4>1 DEF Kept, PutsKnow, PutKnows
        <4>3. CASE job[w].pc = "page" /\ job[w].after = 0
          BY <4>1, <4>3, StorageAssumption DEF Pending, Blobs
        <4>4. CASE job[w].pc # "page" \/ job[w].after # 0
          <5>1. At[put[u].now] = To(w)
            BY <2>1, <2>4, <4>1, <4>4 DEF RemovesAll, Unsettled, To
          <5> QED BY <1>5, <1>8, <1>11, <4>1, <4>2, <5>1 DEF Good
        <4> QED BY <4>3, <4>4
      <3> QED BY <3>1, <3>2
    <2>5. \A b \in Blobs : Pending(w, b)' = Pending(w, b)
      BY <1>2 DEF Pending
    <2>6. recorded' \subseteq Blobs
      BY <1>1 DEF Typing
    <2> QED BY <1>2, <1>8, <2>1, <2>2, <2>3, <2>4, <2>5, <2>6 DEF RemovesAll, Good
  <1> QED BY <1>1, <1>5, <1>7, <1>9, <1>10, <1>12, <1>13, <1>14 DEF Kept

LEMMA AdminKept ==
    ASSUME Kept, ~LateDeletes, Admin
    PROVE  Kept'
  <1>1. Typing /\ Typing' /\ row.version \in Nat
    BY AdminTyped DEF Kept, Typing, Rows, Versions
  <1>2. UNCHANGED <<copy, recorded, cache, put, job, gone>>
    BY DEF Admin, ChangePlace, Rekey, startCleaning, restartMove, Changed
  <1>a. ASSUME NEW p \in Places, ChangePlace(p)
        PROVE  /\ row'.version = row.version + 1 /\ row'.phase = "moving"
               /\ row.previous = NoPlace /\ row'.previous = row.current
    BY <1>a DEF ChangePlace, Changed
  <1>b. ASSUME Rekey
        PROVE  /\ row'.version = row.version + 1 /\ row'.phase = "active"
               /\ row'.current = row.current /\ row'.previous = row.previous
    BY <1>1, <1>b DEF Rekey, Typing, Rows
  <1>c. ASSUME startCleaning
        PROVE  \/ row' = row
               \/ /\ row'.version = row.version + 1
                  /\ row'.current = row.current /\ row'.previous = row.previous
                  /\ \A w \in Workers : ~Belated(w)
    <2>1. CASE Changed(row, "clean")
      BY <2>1 DEF Changed
    <2>2. CASE /\ Changed([row EXCEPT !.version = @ + 1,
                                     !.phase = "cleaning"], "clean")
               /\ \A w \in Workers : ~Belated(w)
      BY <1>1, <2>2 DEF Changed, Typing, Rows
    <2> QED BY <1>c, <2>1, <2>2 DEF startCleaning
  <1>d. ASSUME restartMove
        PROVE  /\ row'.version = row.version + 1 /\ row'.phase = "moving"
               /\ row'.current = row.current /\ row'.previous = row.previous
    BY <1>1, <1>d DEF restartMove, Changed, Typing, Rows
  \* Either the row stays, or its version is new and all that was read still is.
  <1>3. \/ row' = row
        \/ /\ row'.version = row.version + 1
           /\ \/ row'.current = row.current /\ row'.previous = row.previous
              \/ row.previous = NoPlace /\ row'.previous = row.current
    BY <1>a, <1>b, <1>c, <1>d DEF Admin
  <1>e. \/ row' = row \/ row'.phase # "cleaning"
        \/ /\ \A w \in Workers : ~Belated(w)
           /\ row'.current = row.current
    BY <1>a, <1>b, <1>c, <1>d DEF Admin
  <1>4. ReadFrom(row) \subseteq ReadFrom(row)'
    <2>1. row.current # NoPlace
      BY <1>1, StorageAssumption DEF Typing, Rows
    <2> QED BY <1>3, <2>1 DEF ReadFrom
  <1>5. \A w \in Workers : /\ From(w)' = From(w) /\ To(w)' = To(w)
                           /\ Cleans(w)' = Cleans(w)
    BY <1>2 DEF From, To, Cleans
  <1>6. \A w \in Workers : /\ job[w] \in Jobs /\ job[w].version \in Nat
                           /\ KnowsTheRow(w)
    BY <1>1 DEF Kept, Typing, Jobs, Versions, JobsKnowTheRow
  <1>7. CASE row' = row
    <2>1. ReadFrom(row)' = ReadFrom(row)
      BY <1>7
    <2>2. \A w \in Workers : Current(w)' = Current(w)
      BY <1>2, <1>7 DEF Current
    <2>3. NeverBad' /\ JobsKnowTheRow' /\ PutsKnow'
      BY <1>2, <1>5, <1>7, <2>1, <2>2
      DEF Kept, NeverBad, JobsKnowTheRow, KnowsTheRow, PutsKnow, PutKnows, UpTo,
          Good
    <2>4. OnePlaceFilled' /\ FilledIsRead' /\ NoneIsEmptied'
      BY <1>5, <1>7, <2>1, <2>2
      DEF Kept, OnePlaceFilled, FilledIsRead, NoneIsEmptied
    <2>5. Checked' /\ NothingLost'
      BY <1>2, <1>5, <2>1 DEF Kept, Checked, NothingLost, Good
    <2>6. RemovalsRemoveAll'
      BY <1>2, <1>5, <1>7, <2>2
      DEF Kept, RemovalsRemoveAll, RemovesAll, Unsettled, Pending, Good, To
    <2> QED BY <1>1, <2>3, <2>4, <2>5, <2>6 DEF Kept
  <1>8. CASE row'.version = row.version + 1
    <2>1. \A w \in Workers : job[w].pc # "idle" => ~Current(w)'
      BY <1>1, <1>2, <1>6, <1>8 DEF KnowsTheRow, Current
    <2>2. JobsKnowTheRow'
      BY <1>1, <1>2, <1>5, <1>6, <1>8, <2>1 DEF JobsKnowTheRow, KnowsTheRow
    <2>3. PutsKnow'
      <3>1. \A c \in Chosen : UpTo(c) => UpTo(c)'
        BY <1>1, <1>8 DEF UpTo, Chosen, Versions
      <3>2. \A u \in Uploads : put[u].used \in Chosen
        BY <1>1 DEF Typing, Puts
      <3>3. \A s \in Servers : cache[s] \in Chosen
        BY <1>1 DEF Typing
      <3>4. \A u \in Uploads : PutKnows(u)'
        BY <1>2, <1>4, <3>1, <3>2
        DEF Kept, PutsKnow, PutKnows, UpTo, Good
      <3> QED BY <1>2, <3>1, <3>3, <3>4 DEF Kept, PutsKnow, UpTo
    <2>4. \A w \in Workers : Cleans(w) => ~Current(w)'
      BY <2>1 DEF Cleans
    <2>5. OnePlaceFilled'
      <3>1. CASE row'.phase # "cleaning"
        BY <1>5, <2>4, <3>1 DEF OnePlaceFilled
      <3>2. CASE row'.phase = "cleaning"
        <4>1. /\ \A w \in Workers : ~Belated(w)
              /\ row'.current = row.current
          BY <1>1, <1>8, <1>e, <3>2
        <4>2. \A w \in Workers : Cleans(w) => Current(w)
          BY <1>1, <1>6, <4>1 DEF Cleans, Belated, KnowsTheRow, Current
        <4>3. \A w \in Workers : Cleans(w) => To(w) = At[row.current]
          BY <4>2 DEF Kept, OnePlaceFilled
        <4> QED BY <1>5, <4>1, <4>3 DEF OnePlaceFilled
      <3> QED BY <3>1, <3>2
    <2>6. FilledIsRead' /\ NoneIsEmptied'
      BY <1>4, <1>5 DEF Kept, FilledIsRead, NoneIsEmptied
    <2>7. NeverBad' /\ Checked' /\ NothingLost'
      BY <1>2, <1>4, <1>5 DEF Kept, NeverBad, Checked, NothingLost, Good
    <2>8. RemovalsRemoveAll'
      BY <1>5, <2>4 DEF RemovalsRemoveAll
    <2> QED BY <1>1, <2>2, <2>3, <2>5, <2>6, <2>7, <2>8 DEF Kept
  <1> QED BY <1>3, <1>7, <1>8

LEMMA DamageKept ==
    ASSUME Kept, "bad" \notin Damages,
           NEW s \in Stores, NEW b \in Blobs, Damage(s, b)
    PROVE  Kept'
  <1>1. Typing /\ Typing'
    BY DamageTyped DEF Kept
  <1>2. UNCHANGED <<row, recorded, cache, put, waiting, job>>
    BY DEF Damage
  <1>3. PICK d \in Damages : copy' = [copy EXCEPT ![s][b] = d]
    BY DEF Damage
  <1>4. \A t \in Stores, c \in Blobs : t # s \/ c # b => copy'[t][c] = copy[t][c]
    BY <1>1, <1>3 DEF Typing, Copies
  <1>5. b \in recorded /\ \A w \in Workers : ~Removing(w)
    BY DEF Damage
  <1>6. \A w \in Workers : /\ From(w)' = From(w) /\ To(w)' = To(w)
                           /\ Cleans(w)' = Cleans(w) /\ Current(w)' = Current(w)
    BY <1>2 DEF From, To, Cleans, Current
  <1>7. NeverBad'
    <2>1. copy'[s][b] # "bad"
      BY <1>1, <1>3 DEF Typing, Copies
    <2> QED BY <1>4, <2>1 DEF Kept, NeverBad
  <1>8. JobsKnowTheRow'
    BY <1>2, <1>6 DEF Kept, JobsKnowTheRow, KnowsTheRow
  <1>9. PutsKnow'
    <2>1. \A u \in Uploads : put[u].pc \in {"look", "copy", "record"} =>
             /\ put[u].blob \in Blobs
             /\ At[put[u].used.current] \in Stores /\ At[put[u].now] \in Stores
      BY <1>1, StorageAssumption DEF Typing, Puts, Chosen
    <2> QED BY <1>2, <1>4, <1>5, <2>1 DEF Kept, PutsKnow, PutKnows, UpTo, Good
  <1>10. OnePlaceFilled' /\ FilledIsRead' /\ NoneIsEmptied'
    BY <1>2, <1>6 DEF Kept, OnePlaceFilled, FilledIsRead, NoneIsEmptied
  <1>11. Checked'
    BY <1>2, <1>5 DEF Removing, Checked
  <1>12. RemovalsRemoveAll'
    BY <1>5, <1>6 DEF Removing, Cleans, RemovalsRemoveAll
  <1>13. NothingLost'
    <2> SUFFICES ASSUME NEW c \in recorded \ gone'
                 PROVE  \E t \in ReadFrom(row) : copy'[t][c] = "good"
      BY <1>2 DEF NothingLost
    <2>1. c \in Blobs /\ ReadFrom(row) \subseteq Stores
      BY <1>1, ReadFromPlaces DEF Typing
    <2>2. CASE c = b
      <3>1. \E t \in ReadFrom(row) \ {s} : copy[t][b] = "good"
        BY <2>2 DEF Damage
      <3> QED BY <1>4, <2>1, <2>2, <3>1
    <2>3. CASE c # b
      <3>1. c \notin gone
        BY <2>3 DEF Damage
      <3>2. \E t \in ReadFrom(row) : copy[t][c] = "good"
        BY <3>1 DEF Kept, NothingLost
      <3> QED BY <1>4, <2>1, <2>3, <3>2
    <2> QED BY <2>2, <2>3
  <1> QED BY <1>1, <1>7, <1>8, <1>9, <1>10, <1>11, <1>12, <1>13 DEF Kept

\* A handler goes on with what it was started for, or stops, and the row says
\* what it said, but for what failed and that the work may be over.
RowStands == /\ row'.version = row.version /\ row'.current = row.current
             /\ row'.previous = row.previous
             /\ row'.phase \in {row.phase, "active"}

OthersStand(w) == \A v \in Workers : v # w => job'[v] = job[v]

GoesOn(w) == /\ From(w)' = From(w) /\ To(w)' = To(w)
             /\ Cleans(w) /\ Current(w)' = Current(w)

LEMMA OthersDo ==
    ASSUME NEW w \in Workers, RowStands, OthersStand(w)
    PROVE  /\ ReadFrom(row)' = ReadFrom(row)
           /\ At[row.current]' = At[row.current]
           /\ \A v \in Workers : v # w =>
                 /\ From(v)' = From(v) /\ To(v)' = To(v)
                 /\ Cleans(v)' = Cleans(v) /\ Current(v)' = Current(v)
  <1>1. ReadFrom(row)' = ReadFrom(row) /\ At[row.current]' = At[row.current]
    BY DEF RowStands, ReadFrom
  <1>2. \A v \in Workers : v # w =>
           /\ From(v)' = From(v) /\ To(v)' = To(v)
           /\ Cleans(v)' = Cleans(v) /\ Current(v)' = Current(v)
    BY DEF OthersStand, RowStands, From, To, Cleans, Current
  <1> QED BY <1>1, <1>2

\* Of one handler's step: what it leaves as it was, and what is to be shown.
LEMMA OneHandlerKept ==
    ASSUME Kept, Typing', NEW w \in Workers,
           UNCHANGED <<recorded, cache, put, gone>>, RowStands, OthersStand(w),
           NeverBad', NothingLost',
           \A t \in Stores, c \in Blobs \ recorded : Good(t, c) => Good(t, c)',
           \A v \in Workers \ {w}, c \in Blobs :
              Cleans(v) /\ Good(To(v), c) => copy'[To(v)][c] = "good",
           KnowsTheRow(w)', OnePlaceFilled', FilledIsRead', NoneIsEmptied',
           job'[w].pc = "delete" => Good(To(w), Min(job[w].page))',
           Cleans(w)' /\ Current(w)' /\ row.previous # NoPlace => RemovesAll(w)'
    PROVE  Kept'
  <1>1. /\ ReadFrom(row)' = ReadFrom(row)
        /\ At[row.current]' = At[row.current]
        /\ \A v \in Workers : v # w =>
              /\ From(v)' = From(v) /\ To(v)' = To(v)
              /\ Cleans(v)' = Cleans(v) /\ Current(v)' = Current(v)
    BY OthersDo
  <1>2. JobsKnowTheRow'
    BY <1>1 DEF Kept, JobsKnowTheRow, KnowsTheRow, OthersStand, RowStands
  <1>3. PutsKnow'
    <2>1. \A u \in Uploads : put[u].pc \in {"look", "copy", "record"} =>
             /\ put[u].blob \in Blobs
             /\ At[put[u].used.current] \in Stores /\ At[put[u].now] \in Stores
      BY StorageAssumption DEF Kept, Typing, Puts, Chosen
    <2> QED BY <1>1, <2>1 DEF Kept, PutsKnow, PutKnows, UpTo, RowStands
  <1>4. /\ Typing /\ recorded \subseteq Blobs
        /\ \A v \in Workers : /\ job[v].seen \subseteq Blobs
                              /\ job[v].page # {} => Min(job[v].page) \in Blobs
    BY AtABlob DEF Kept, Typing, Jobs
  <1>5. Checked'
    <2> SUFFICES ASSUME NEW v \in Workers, job'[v].pc = "delete"
                 PROVE  Good(To(v), Min(job[v].page))'
      BY DEF Checked
    <2>1. CASE v = w
      BY <2>1
    <2>2. CASE v # w
      <3>1. job'[v] = job[v] /\ Good(To(v), Min(job[v].page))
        BY <2>2 DEF Kept, Checked, OthersStand
      <3>2. Cleans(v) /\ Min(job[v].page) \in Blobs
        BY <1>4, <3>1 DEF Typing, Cleans
      <3>3. copy'[To(v)][Min(job[v].page)] = "good"
        BY <2>2, <3>1, <3>2
      <3> QED BY <1>1, <2>2, <3>1, <3>3 DEF Good
    <2> QED BY <2>1, <2>2
  <1>6. RemovalsRemoveAll'
    <2> SUFFICES ASSUME NEW v \in Workers,
                        Cleans(v)', Current(v)', row.previous # NoPlace
                 PROVE  RemovesAll(v)'
      BY DEF RemovalsRemoveAll, RowStands
    <2>1. CASE v = w
      BY <2>1
    <2>2. CASE v # w
      <3>1. job'[v] = job[v] /\ Cleans(v) /\ RemovesAll(v)
        BY <1>1, <2>2 DEF Kept, RemovalsRemoveAll, OthersStand
      <3>2. /\ \A b \in Blobs : Pending(v, b)' = Pending(v, b)
            /\ \A u \in Uploads : Unsettled(v, u)' = Unsettled(v, u)
        BY <3>1 DEF Pending, Unsettled
      <3>3. \A c \in Blobs : Good(To(v), c) => Good(To(v), c)'
        BY <1>1, <2>2, <3>1 DEF Good
      <3> QED BY <1>4, <3>1, <3>2, <3>3 DEF RemovesAll
    <2> QED BY <2>1, <2>2
  <1> QED BY <1>2, <1>3, <1>5, <1>6 DEF Kept

LEMMA PlacesStand ==
    ASSUME Kept, NEW w \in Workers, RowStands, OthersStand(w),
           Cleans(w)' => GoesOn(w)
    PROVE  OnePlaceFilled' /\ FilledIsRead' /\ NoneIsEmptied'
  <1>1. /\ ReadFrom(row)' = ReadFrom(row)
        /\ At[row.current]' = At[row.current]
        /\ \A v \in Workers : v # w =>
              /\ From(v)' = From(v) /\ To(v)' = To(v)
              /\ Cleans(v)' = Cleans(v) /\ Current(v)' = Current(v)
    BY OthersDo
  <1>2. OnePlaceFilled'
    BY <1>1 DEF Kept, OnePlaceFilled, GoesOn, RowStands
  <1>3. FilledIsRead' /\ NoneIsEmptied'
    BY <1>1 DEF Kept, FilledIsRead, NoneIsEmptied, GoesOn
  <1> QED BY <1>2, <1>3

\* The same, where no copy that is good is touched.
LEMMA HandlerKept ==
    ASSUME Kept, Typing', NEW w \in Workers,
           UNCHANGED <<recorded, cache, put, gone>>, RowStands, OthersStand(w),
           NeverBad',
           \A t \in Stores, c \in Blobs : Good(t, c) => Good(t, c)',
           KnowsTheRow(w)',
           Cleans(w)' => GoesOn(w),
           job'[w].pc = "delete" => Good(To(w), Min(job[w].page))',
           Cleans(w)' /\ Current(w) /\ row.previous # NoPlace /\ RemovesAll(w)
              => RemovesAll(w)'
    PROVE  Kept'
  <1>1. Typing /\ \A v \in Workers : To(v) \in Stores
    BY StorageAssumption DEF Kept, Typing, Jobs, To
  <1>2. NothingLost'
    <2>1. ReadFrom(row)' = ReadFrom(row) /\ ReadFrom(row) \subseteq Stores
      BY <1>1, OthersDo, ReadFromPlaces
    <2>2. \A b \in recorded : b \in Blobs
      BY <1>1 DEF Typing
    <2> QED BY <2>1, <2>2 DEF Kept, NothingLost, Good
  <1>3. OnePlaceFilled' /\ FilledIsRead' /\ NoneIsEmptied'
    BY PlacesStand
  <1>4. \A v \in Workers \ {w}, c \in Blobs :
           Cleans(v) /\ Good(To(v), c) => copy'[To(v)][c] = "good"
    BY <1>1 DEF Good
  <1>5. Cleans(w)' /\ Current(w)' /\ row.previous # NoPlace => RemovesAll(w)'
    BY DEF GoesOn, Kept, RemovalsRemoveAll
  <1> QED BY <1>2, <1>3, <1>4, <1>5, OneHandlerKept

\* Nothing is stored or deleted.
LEMMA CopiesStand ==
    ASSUME NeverBad, UNCHANGED copy
    PROVE  /\ NeverBad'
           /\ \A t \in Stores, c \in Blobs : Good(t, c) => Good(t, c)'
  BY DEF NeverBad, Good

LEMMA StopKept ==
    ASSUME Kept, Typing', NEW w \in Workers, Stop(w), RowStands,
           UNCHANGED <<copy, recorded, cache, put, gone>>
    PROVE  Kept'
  <1>1. OthersStand(w) /\ job'[w].pc = "idle"
    BY DEF Kept, Typing, Stop, OthersStand, Idle
  <1>2. KnowsTheRow(w)' /\ ~Cleans(w)' /\ job'[w].pc # "delete"
    BY <1>1 DEF KnowsTheRow, Cleans
  <1>3. /\ NeverBad'
        /\ \A t \in Stores, c \in Blobs : Good(t, c) => Good(t, c)'
    BY CopiesStand DEF Kept
  <1> QED BY <1>1, <1>2, <1>3, HandlerKept

LEMMA LeaseKept ==
    ASSUME Kept, Typing', NEW w \in Workers, LeaseEnds(w)
    PROVE  Kept'
  <1>1. /\ UNCHANGED <<row, copy, recorded, cache, put, gone>>
        /\ job' = [job EXCEPT ![w].live = FALSE]
    BY DEF LeaseEnds
  <1>2. OthersStand(w)
    BY <1>1 DEF Kept, Typing, OthersStand
  <1>3. /\ job'[w].pc = job[w].pc /\ job'[w].version = job[w].version
        /\ job'[w].task = job[w].task /\ job'[w].from = job[w].from
        /\ job'[w].to = job[w].to /\ job'[w].after = job[w].after
        /\ job'[w].page = job[w].page /\ job'[w].last = job[w].last
        /\ job'[w].second = job[w].second /\ job'[w].seen = job[w].seen
        /\ job'[w].failed = job[w].failed
    BY <1>1 DEF Kept, Typing, Jobs
  <1>4. RowStands
    BY <1>1 DEF RowStands
  <1>5. /\ From(w)' = From(w) /\ To(w)' = To(w)
        /\ Cleans(w)' = Cleans(w) /\ Current(w)' = Current(w)
    BY <1>1, <1>3 DEF From, To, Cleans, Current
  <1>6. KnowsTheRow(w)'
    BY <1>1, <1>3, <1>5 DEF Kept, JobsKnowTheRow, KnowsTheRow
  <1>7. job'[w].pc = "delete" => Good(To(w), Min(job[w].page))'
    BY <1>1, <1>3, <1>5 DEF Kept, Checked, Good
  <1>8. RemovesAll(w) => RemovesAll(w)'
    BY <1>1, <1>3, <1>5 DEF RemovesAll, Good, Pending, Unsettled
  <1>9. /\ NeverBad'
        /\ \A t \in Stores, c \in Blobs : Good(t, c) => Good(t, c)'
    BY <1>1, CopiesStand DEF Kept
  <1> QED BY <1>1, <1>2, <1>4, <1>5, <1>6, <1>7, <1>8, <1>9, HandlerKept
          DEF GoesOn

LEMMA ReadPageKept ==
    ASSUME Kept, ~SlowRecords, Typing', NEW w \in Workers, ReadPage(w)
    PROVE  Kept'
  <1>1. UNCHANGED <<row, copy, recorded, cache, put, gone>> /\ RowStands
    BY DEF ReadPage, RowStands
  <1>2. CASE Stop(w)
    BY <1>1, <1>2, StopKept
  <1> DEFINE S == Listed(w)
             last == Cardinality(S) < PageSize
  <1>3. CASE /\ job' = [job EXCEPT ![w] = [job[w] EXCEPT !.pc = "blob",
                          !.page = FirstPage(S), !.last = last]]
             /\ job[w].pc = "page"
             /\ job[w].second /\ job[w].after = 0
                   => \A u \in Uploads : ~Unsettled(w, u)
    <2>1. Typing /\ job[w] \in Jobs
      BY DEF Kept, Typing
    <2>2. OthersStand(w)
      BY <1>3, <2>1 DEF Typing, OthersStand
    <2> HIDE DEF last, S
    <2>3. /\ job'[w].pc = "blob" /\ job'[w].version = job[w].version
          /\ job'[w].task = job[w].task /\ job'[w].from = job[w].from
          /\ job'[w].to = job[w].to /\ job'[w].after = job[w].after
          /\ job'[w].page = FirstPage(S) /\ job'[w].last = last
          /\ job'[w].second = job[w].second /\ job'[w].seen = job[w].seen
          /\ job'[w].failed = job[w].failed
      BY <1>3, <2>1 DEF Typing, Jobs
    <2>4. /\ From(w)' = From(w) /\ To(w)' = To(w)
          /\ Cleans(w)' => Cleans(w) /\ Current(w)' = Current(w)
      BY <1>1, <1>3, <2>3 DEF From, To, Cleans, Current
    <2>5. /\ S \in SUBSET Blobs
          /\ S = {b \in recorded : b > job[w].after}
                    \ (IF job[w].second THEN job[w].seen ELSE {})
      BY <2>1 DEF S, Listed, Typing
    <2>6. /\ FirstPage(S) \subseteq S
          /\ last => FirstPage(S) = S
          /\ \A b \in S \ FirstPage(S), c \in FirstPage(S) : c < b
      BY <2>5, PageIsFirst DEF last
    <2>7. KnowsTheRow(w)'
      BY <1>1, <1>3, <2>3, <2>4, <2>5, <2>6, ZenonT(60)
      DEF Kept, JobsKnowTheRow, KnowsTheRow, Current
    <2>8. ASSUME RemovesAll(w) PROVE RemovesAll(w)'
      <3>1. \A u \in Uploads : Unsettled(w, u)' = Unsettled(w, u)
        BY <1>1, <2>3 DEF Unsettled
      <3>2. job[w].second => \A u \in Uploads : ~Unsettled(w, u)
        BY <1>3, <2>8 DEF RemovesAll
      <3>3. ASSUME job[w].second, ~job[w].failed, NEW b \in recorded \ gone
            PROVE  b \in job[w].seen \/ Good(To(w), b) \/ Pending(w, b)'
        <4>1. b \in job[w].seen \/ Good(To(w), b) \/ b > job[w].after
          BY <1>3, <2>8, <3>3 DEF RemovesAll, Pending
        <4>2. CASE b \in S
          <5>1. b > job[w].after
            BY <2>5, <4>2
          <5>2. CASE b \in FirstPage(S)
            BY <2>3, <5>2 DEF Pending
          <5>3. CASE b \notin FirstPage(S)
            <6>1. ~last /\ \A c \in FirstPage(S) : c < b
              BY <2>6, <4>2, <5>3
            <6> QED BY <2>3, <5>1, <6>1 DEF Pending
          <5> QED BY <5>2, <5>3
        <4> QED BY <2>5, <3>3, <4>1, <4>2
      <3> QED BY <1>1, <2>3, <2>4, <2>8, <3>1, <3>2, <3>3 DEF RemovesAll, Good
    <2>9. /\ NeverBad'
          /\ \A t \in Stores, c \in Blobs : Good(t, c) => Good(t, c)'
      BY <1>1, CopiesStand DEF Kept
    <2>10. Cleans(w)' => GoesOn(w)
      BY <2>4 DEF GoesOn
    <2> QED BY <1>1, <2>2, <2>3, <2>7, <2>8, <2>9, <2>10, HandlerKept
  <1> QED BY <1>2, <1>3 DEF ReadPage

\* A page that goes past its first blob: what the handler carries after it.
LEMMA PastDoes ==
    ASSUME Typing, NEW w \in Workers, NEW b \in Blobs, NEW failing \in BOOLEAN,
           Past(w, b, failing)
    PROVE  /\ OthersStand(w)
           /\ job'[w].pc = "blob" /\ job'[w].version = job[w].version
           /\ job'[w].task = job[w].task /\ job'[w].from = job[w].from
           /\ job'[w].to = job[w].to /\ job'[w].after = b
           /\ job'[w].page = job[w].page \ {b} /\ job'[w].last = job[w].last
           /\ job'[w].second = job[w].second
           /\ job[w].task = "clean" => job'[w].seen = job[w].seen \cup {b}
           /\ job'[w].failed = (job[w].failed \/ failing)
  <1> DEFINE seen   == IF job[w].task = "clean" THEN job[w].seen \cup {b}
                                                ELSE job[w].seen
             page   == job[w].page \ {b}
             failed == job[w].failed \/ failing
  <1>1. job[w] \in Jobs /\ job \in [Workers -> Jobs]
    BY DEF Typing
  <1>2. job' = [job EXCEPT ![w] = [job[w] EXCEPT !.pc = "blob", !.page = page,
                   !.after = b, !.seen = seen, !.failed = failed]]
    BY DEF Past
  <1>3. job[w].task = "clean" => seen = job[w].seen \cup {b}
    OBVIOUS
  <1> HIDE DEF seen, page, failed
  <1>4. /\ OthersStand(w)
        /\ job'[w].pc = "blob" /\ job'[w].version = job[w].version
        /\ job'[w].task = job[w].task /\ job'[w].from = job[w].from
        /\ job'[w].to = job[w].to /\ job'[w].after = b
        /\ job'[w].page = page /\ job'[w].last = job[w].last
        /\ job'[w].second = job[w].second
        /\ job'[w].seen = seen /\ job'[w].failed = failed
    BY <1>1, <1>2 DEF OthersStand, Jobs
  <1>5. page = job[w].page \ {b} /\ failed = (job[w].failed \/ failing)
    BY DEF page, failed
  <1> QED BY <1>3, <1>4, <1>5

\* It stays a handler of its place, and a removal goes on removing all, as long
\* as a blob it did not fail at is good in the new place, or was damaged.
LEMMA PastKept ==
    ASSUME Kept, NEW w \in Workers, NEW failing \in BOOLEAN,
           job[w].pc \in {"blob", "delete"}, job[w].page # {},
           NEW b \in Blobs, b = Min(job[w].page), Past(w, b, failing),
           UNCHANGED <<row, recorded, put, gone>>,
           \A c \in Blobs : Good(To(w), c) => Good(To(w), c)',
           ~failing /\ Current(w) /\ row.previous # NoPlace /\ job[w].task = "clean"
              => b \in gone \/ Good(To(w), b)'
    PROVE  /\ OthersStand(w) /\ RowStands /\ job'[w].pc = "blob"
           /\ KnowsTheRow(w)' /\ (Cleans(w)' => GoesOn(w))
           /\ Cleans(w)' /\ Current(w) /\ row.previous # NoPlace /\ RemovesAll(w)
                 => RemovesAll(w)'
  <1>1. Typing /\ job[w] \in Jobs
    BY DEF Kept, Typing
  <1>2. b \in job[w].page /\ \A c \in job[w].page : b <= c
    BY <1>1, AtABlob
  <1>5. /\ OthersStand(w)
        /\ job'[w].pc = "blob" /\ job'[w].version = job[w].version
        /\ job'[w].task = job[w].task /\ job'[w].from = job[w].from
        /\ job'[w].to = job[w].to /\ job'[w].after = b
        /\ job'[w].page = job[w].page \ {b} /\ job'[w].last = job[w].last
        /\ job'[w].second = job[w].second
        /\ job[w].task = "clean" => job'[w].seen = job[w].seen \cup {b}
        /\ job'[w].failed = (job[w].failed \/ failing)
    BY <1>1, PastDoes
  <1>6. RowStands
    BY DEF RowStands
  <1>7. /\ From(w)' = From(w) /\ To(w)' = To(w) /\ Current(w)' = Current(w)
        /\ Cleans(w)' = Cleans(w)
    BY <1>5 DEF From, To, Current, Cleans
  <1>8. KnowsTheRow(w)'
    BY <1>5, <1>7 DEF Kept, JobsKnowTheRow, KnowsTheRow
  <1>9. ASSUME Cleans(w), Current(w), row.previous # NoPlace, RemovesAll(w)
        PROVE  RemovesAll(w)'
    <2>1. job[w].task = "clean"
      BY <1>9 DEF Cleans
    <2>2. \A u \in Uploads : Unsettled(w, u)' = Unsettled(w, u)
      BY <1>5 DEF Unsettled
    <2>3. job[w].second => \A u \in Uploads : ~Unsettled(w, u)
      BY <1>9 DEF RemovesAll
    <2>4. ASSUME ~job'[w].failed, NEW c \in job'[w].seen \ gone
          PROVE  Good(To(w), c)'
      <3>1. c \in Blobs /\ ~job[w].failed /\ ~failing
        BY <1>1, <1>2, <1>5, <2>1, <2>4 DEF Jobs
      <3>2. c # b => Good(To(w), c)
        BY <1>5, <1>9, <2>1, <2>4, <3>1 DEF RemovesAll
      <3>3. CASE c = b
        BY <1>9, <2>1, <2>4, <3>1, <3>3
      <3>4. CASE c # b
        BY <3>1, <3>2, <3>4
      <3> QED BY <3>3, <3>4
    <2>5. ASSUME job[w].second, ~job'[w].failed, NEW c \in recorded \ gone
          PROVE  c \in job'[w].seen \/ Good(To(w), c)' \/ Pending(w, c)'
      <3>1. c \in Blobs /\ ~job[w].failed
        BY <1>1, <1>5, <2>5 DEF Typing
      <3>2. c \in job[w].seen \/ Good(To(w), c) \/ Pending(w, c)
        BY <1>9, <2>5, <3>1 DEF RemovesAll
      <3>3. ASSUME Pending(w, c), c # b PROVE Pending(w, c)'
        <4>1. \/ c \in job[w].page
              \/ /\ ~job[w].last /\ c > job[w].after
                 /\ \A d \in job[w].page : d < c
          BY <3>3 DEF Pending
        <4>2. b \in Nat /\ c \in Nat
          BY <1>2, <3>1, ConstantsTyped
        <4> QED BY <1>2, <1>5, <3>3, <4>1, <4>2 DEF Pending
      <3> QED BY <1>5, <2>1, <3>1, <3>2, <3>3
    <2> QED BY <1>5, <1>7, <2>2, <2>3, <2>4, <2>5 DEF RemovesAll, Good
  <1> QED BY <1>5, <1>6, <1>7, <1>8, <1>9 DEF GoesOn

LEMMA PastIsKept ==
    ASSUME Kept, Typing', NEW w \in Workers, NEW failing \in BOOLEAN,
           job[w].pc = "blob", job[w].page # {},
           NEW b \in Blobs, b = Min(job[w].page), Past(w, b, failing),
           UNCHANGED <<row, recorded, cache, put, gone>>, NeverBad',
           \A t \in Stores, c \in Blobs : Good(t, c) => Good(t, c)',
           ~failing /\ Current(w) /\ row.previous # NoPlace /\ job[w].task = "clean"
              => b \in gone \/ copy'[To(w)][b] = "good"
    PROVE  Kept'
  <1>1. Typing
    BY DEF Kept
  <1>2. job'[w].to = job[w].to
    BY <1>1, PastDoes
  <1>3. To(w) \in Stores /\ To(w)' = To(w)
    BY <1>1, <1>2, AtABlob DEF To
  <1>4. \A c \in Blobs : Good(To(w), c) => Good(To(w), c)'
    BY <1>3 DEF Good
  <1>5. ~failing /\ Current(w) /\ row.previous # NoPlace /\ job[w].task = "clean"
           => b \in gone \/ Good(To(w), b)'
    BY <1>3 DEF Good
  <1>6. /\ OthersStand(w) /\ RowStands /\ job'[w].pc = "blob"
        /\ KnowsTheRow(w)' /\ (Cleans(w)' => GoesOn(w))
        /\ Cleans(w)' /\ Current(w) /\ row.previous # NoPlace /\ RemovesAll(w)
              => RemovesAll(w)'
    BY <1>4, <1>5, PastKept
  <1> QED BY <1>6, HandlerKept

LEMMA MoveBlobKept ==
    ASSUME Kept, Typing', NEW w \in Workers, MoveBlob(w)
    PROVE  Kept'
  <1>1. /\ Typing /\ NeverBad
        /\ job[w].pc = "blob" /\ job[w].task = "move" /\ job[w].page # {}
        /\ UNCHANGED <<row, recorded, cache, put, gone>>
    BY DEF Kept, MoveBlob
  <1>2. PICK b \in Blobs : b = Min(job[w].page)
    BY <1>1, AtABlob
  <1>3. PICK failing \in BOOLEAN : Past(w, b, failing)
    BY <1>2 DEF MoveBlob
  <1>4. UNCHANGED copy \/ PutInto(At[job[w].to], b)
    BY <1>2 DEF MoveBlob
  <1>5. /\ NeverBad'
        /\ \A t \in Stores, c \in Blobs : Good(t, c) => Good(t, c)'
    BY <1>1, <1>4, AtABlob, CopiesStand, PutIntoDoes
  <1> QED BY <1>1, <1>2, <1>3, <1>5, PastIsKept

\* A blob that is good in neither place is one whose last copy was damaged.
LEMMA CheckBlobKept ==
    ASSUME Kept, Typing', NEW w \in Workers, CheckBlob(w)
    PROVE  Kept'
  <1>1. /\ Typing /\ NeverBad /\ job[w] \in Jobs
        /\ job[w].pc = "blob" /\ job[w].task = "clean" /\ job[w].page # {}
        /\ UNCHANGED <<row, recorded, cache, put, gone>>
    BY DEF Kept, CheckBlob, Typing
  <1>2. PICK b \in Blobs : b = Min(job[w].page)
    BY <1>1, AtABlob
  <1>3. b \in job[w].page /\ To(w) \in Stores
    BY <1>1, <1>2, AtABlob DEF To
  <1>4. CASE /\ UNCHANGED copy
             /\ \E failing \in BOOLEAN :
                   /\ Past(w, b, failing)
                   /\ failing \/ (copy[To(w)][b] # "good" /\ copy[From(w)][b] # "good")
    <2>1. PICK failing \in BOOLEAN :
             /\ Past(w, b, failing)
             /\ failing \/ (copy[To(w)][b] # "good" /\ copy[From(w)][b] # "good")
      BY <1>4
    <2>2. ASSUME ~failing, Current(w), row.previous # NoPlace
          PROVE  b \in gone
      <3>1. b \in recorded /\ From(w) = At[row.previous] /\ To(w) = At[row.current]
        BY <1>1, <1>3, <2>2 DEF Kept, JobsKnowTheRow, KnowsTheRow, From, To
      <3>2. \A s \in ReadFrom(row) : copy[s][b] # "good"
        BY <1>1, <2>1, <2>2, <3>1, ReadFromPlaces
      <3> QED BY <3>1, <3>2 DEF Kept, NothingLost
    <2>3. /\ NeverBad'
          /\ \A t \in Stores, c \in Blobs : Good(t, c) => Good(t, c)'
      BY <1>1, <1>4, CopiesStand
    <2> QED BY <1>1, <1>2, <2>1, <2>2, <2>3, PastIsKept
  <1>5. CASE /\ \/ copy[To(w)][b] = "good" /\ UNCHANGED copy
                \/ PutInto(To(w), b)
             /\ job' = [job EXCEPT ![w].pc = "delete"]
    <2>1. /\ NeverBad' /\ copy'[To(w)][b] = "good"
          /\ \A t \in Stores, c \in Blobs : Good(t, c) => Good(t, c)'
      BY <1>1, <1>3, <1>5, CopiesStand, PutIntoDoes DEF Good
    <2>2. /\ OthersStand(w) /\ RowStands
          /\ job'[w].pc = "delete" /\ job'[w].version = job[w].version
          /\ job'[w].task = job[w].task /\ job'[w].from = job[w].from
          /\ job'[w].to = job[w].to /\ job'[w].after = job[w].after
          /\ job'[w].page = job[w].page /\ job'[w].last = job[w].last
          /\ job'[w].second = job[w].second /\ job'[w].seen = job[w].seen
          /\ job'[w].failed = job[w].failed
      BY <1>1, <1>5 DEF Typing, Jobs, OthersStand, RowStands
    <2>3. /\ From(w)' = From(w) /\ To(w)' = To(w) /\ Current(w)' = Current(w)
          /\ Cleans(w)' /\ Cleans(w)
      BY <1>1, <2>2 DEF From, To, Current, Cleans
    <2>4. KnowsTheRow(w)'
      BY <1>1, <2>2, <2>3 DEF Kept, JobsKnowTheRow, KnowsTheRow
    <2>5. Min(job[w].page)' = b
      BY <1>2, <2>2
    <2>6. Good(To(w), Min(job[w].page))'
      BY <2>1, <2>3, <2>5 DEF Good
    <2>7. ASSUME RemovesAll(w) PROVE RemovesAll(w)'
      <3>1. /\ \A u \in Uploads : Unsettled(w, u)' = Unsettled(w, u)
            /\ \A c \in Blobs : Pending(w, c)' = Pending(w, c)
        BY <1>1, <2>2 DEF Unsettled, Pending
      <3>2. \A c \in Blobs : Good(To(w), c) => Good(To(w), c)'
        BY <1>3, <2>1, <2>3 DEF Good
      <3>3. recorded \subseteq Blobs /\ job[w].seen \subseteq Blobs
        BY <1>1 DEF Typing, Jobs
      <3> QED BY <1>1, <2>2, <2>7, <3>1, <3>2, <3>3 DEF RemovesAll
    <2> QED BY <1>1, <2>1, <2>2, <2>3, <2>4, <2>6, <2>7, HandlerKept DEF GoesOn
  <1>6. \/ /\ IF copy[To(w)][b] = "good" THEN UNCHANGED copy
                                          ELSE PutInto(To(w), b)
           /\ job' = [job EXCEPT ![w].pc = "delete"]
        \/ /\ copy[To(w)][b] # "good" /\ copy[From(w)][b] # "good"
           /\ Past(w, b, ~(copy[From(w)][b] = "none" /\ copy[To(w)][b] = "none"))
           /\ UNCHANGED copy
        \/ Past(w, b, TRUE) /\ UNCHANGED copy
    BY <1>2 DEF CheckBlob, From, To
  <1>7. CASE /\ IF copy[To(w)][b] = "good" THEN UNCHANGED copy
                                          ELSE PutInto(To(w), b)
             /\ job' = [job EXCEPT ![w].pc = "delete"]
    BY <1>5, <1>7
  <1>8. CASE /\ copy[To(w)][b] # "good" /\ copy[From(w)][b] # "good"
             /\ Past(w, b, ~(copy[From(w)][b] = "none" /\ copy[To(w)][b] = "none"))
             /\ UNCHANGED copy
    <2> DEFINE failing == ~(copy[From(w)][b] = "none" /\ copy[To(w)][b] = "none")
    <2>1. failing \in BOOLEAN /\ Past(w, b, failing)
      BY <1>8
    <2> HIDE DEF failing
    <2>2. \E f \in BOOLEAN : /\ Past(w, b, f)
                             /\ \/ f
                                \/ /\ copy[To(w)][b] # "good"
                                   /\ copy[From(w)][b] # "good"
      BY <1>8, <2>1, Zenon
    <2> QED BY <1>4, <1>8, <2>2
  <1>9. CASE Past(w, b, TRUE) /\ UNCHANGED copy
    BY <1>4, <1>9
  <1> QED BY <1>6, <1>7, <1>8, <1>9

LEMMA ProgressKept ==
    ASSUME Kept, Typing', NEW w \in Workers, Progress(w)
    PROVE  Kept'
  <1>1. /\ Typing /\ job[w] \in Jobs /\ row \in Rows
        /\ job[w].pc = "blob" /\ job[w].page = {}
        /\ UNCHANGED <<copy, recorded, cache, put, gone>>
    BY DEF Kept, Progress, Typing
  <1>2. RowStands
    BY <1>1 DEF Progress, RowStands, Rows
  <1>3. CASE Stop(w)
    BY <1>1, <1>2, <1>3, StopKept
  <1>4. ASSUME OthersStand(w), job'[w].version = job[w].version,
               job'[w].task = job[w].task, job'[w].from = job[w].from,
               job'[w].to = job[w].to, job'[w].page = job[w].page,
               job'[w].seen = job[w].seen, job'[w].failed = job[w].failed,
               job'[w].pc \in {"page", "end"},
               RemovesAll(w) /\ job[w].task = "clean" => RemovesAll(w)'
        PROVE  Kept'
    <2>1. /\ From(w)' = From(w) /\ To(w)' = To(w) /\ Current(w)' = Current(w)
          /\ Cleans(w)' => Cleans(w)
      BY <1>1, <1>2, <1>4 DEF From, To, Current, Cleans, RowStands
    <2>2. KnowsTheRow(w)'
      BY <1>1, <1>2, <1>4, <2>1
      DEF Kept, JobsKnowTheRow, KnowsTheRow, RowStands
    <2>3. /\ NeverBad'
          /\ \A t \in Stores, c \in Blobs : Good(t, c) => Good(t, c)'
      BY <1>1, CopiesStand DEF Kept
    <2>4. job'[w].pc # "delete" /\ (Cleans(w) => job[w].task = "clean")
      BY <1>4 DEF Cleans
    <2> QED BY <1>1, <1>2, <1>4, <2>1, <2>2, <2>3, <2>4, HandlerKept DEF GoesOn
  <1>5. CASE /\ ~job[w].last
             /\ job' = [job EXCEPT ![w] = [job[w] EXCEPT !.pc = "page"]]
    <2>1. /\ OthersStand(w) /\ job'[w].version = job[w].version
          /\ job'[w].task = job[w].task /\ job'[w].from = job[w].from
          /\ job'[w].to = job[w].to /\ job'[w].page = job[w].page
          /\ job'[w].seen = job[w].seen /\ job'[w].failed = job[w].failed
          /\ job'[w].pc = "page" /\ job'[w].second = job[w].second
          /\ job'[w].after = job[w].after
      BY <1>1, <1>5 DEF Typing, Jobs, OthersStand
    <2>2. ASSUME RemovesAll(w) PROVE RemovesAll(w)'
      <3>1. \A b \in Blobs : Pending(w, b) => Pending(w, b)'
        BY <1>1, <1>5, <2>1 DEF Pending
      <3>2. /\ \A u \in Uploads : Unsettled(w, u)' = Unsettled(w, u)
            /\ \A b \in Blobs : Good(To(w), b) = Good(To(w), b)'
            /\ recorded \subseteq Blobs
        BY <1>1, <2>1 DEF Unsettled, Good, To, Typing
      <3> QED BY <1>1, <2>1, <2>2, <3>1, <3>2 DEF RemovesAll, Jobs
    <2> QED BY <1>4, <2>1, <2>2
  <1>6. CASE /\ job[w].task = "clean" /\ ~job[w].second
             /\ job' = [job EXCEPT ![w] = [job[w] EXCEPT !.pc = "page",
                                              !.after = 0, !.second = TRUE]]
    <2>1. /\ OthersStand(w) /\ job'[w].version = job[w].version
          /\ job'[w].task = job[w].task /\ job'[w].from = job[w].from
          /\ job'[w].to = job[w].to /\ job'[w].page = job[w].page
          /\ job'[w].seen = job[w].seen /\ job'[w].failed = job[w].failed
          /\ job'[w].pc = "page" /\ job'[w].second /\ job'[w].after = 0
      BY <1>1, <1>6 DEF Typing, Jobs, OthersStand
    <2>2. ASSUME RemovesAll(w) PROVE RemovesAll(w)'
      <3>0. \A b \in Blobs : b > 0
        BY StorageAssumption DEF Blobs
      <3>1. \A b \in recorded : Pending(w, b)'
        BY <1>1, <2>1, <3>0 DEF Pending, Typing
      <3>2. /\ \A b \in Blobs : Good(To(w), b) = Good(To(w), b)'
            /\ recorded \subseteq Blobs
        BY <1>1, <2>1 DEF Good, To, Typing
      <3> QED BY <1>1, <2>1, <2>2, <3>1, <3>2 DEF RemovesAll, Jobs
    <2> QED BY <1>4, <2>1, <2>2
  <1>7. CASE /\ job[w].last /\ (job[w].task = "clean" => job[w].second)
             /\ job' = [job EXCEPT ![w] = [job[w] EXCEPT !.pc = "end"]]
    <2>1. /\ OthersStand(w) /\ job'[w].version = job[w].version
          /\ job'[w].task = job[w].task /\ job'[w].from = job[w].from
          /\ job'[w].to = job[w].to /\ job'[w].page = job[w].page
          /\ job'[w].seen = job[w].seen /\ job'[w].failed = job[w].failed
          /\ job'[w].pc = "end" /\ job'[w].second = job[w].second
          /\ job'[w].after = job[w].after
      BY <1>1, <1>7 DEF Typing, Jobs, OthersStand
    <2>2. ASSUME RemovesAll(w), job[w].task = "clean" PROVE RemovesAll(w)'
      <3>1. \A b \in Blobs : ~Pending(w, b)
        BY <1>1, <1>7 DEF Pending
      <3>2. /\ \A u \in Uploads : Unsettled(w, u)' = Unsettled(w, u)
            /\ \A b \in Blobs : Good(To(w), b) = Good(To(w), b)'
            /\ recorded \subseteq Blobs
        BY <1>1, <2>1 DEF Unsettled, Good, To, Typing
      <3> QED BY <1>1, <1>7, <2>1, <2>2, <3>1, <3>2 DEF RemovesAll, Jobs
    <2> QED BY <1>4, <2>1, <2>2
  <1>8. \/ Stop(w)
        \/ ~job[w].last /\ job' = [job EXCEPT ![w] = [job[w] EXCEPT !.pc = "page"]]
        \/ /\ job[w].task = "clean" /\ ~job[w].second
           /\ job' = [job EXCEPT ![w] = [job[w] EXCEPT !.pc = "page",
                                            !.after = 0, !.second = TRUE]]
        \/ /\ job[w].last /\ (job[w].task = "clean" => job[w].second)
           /\ job' = [job EXCEPT ![w] = [job[w] EXCEPT !.pc = "end"]]
    BY DEF Progress
  <1> QED BY <1>3, <1>5, <1>6, <1>7, <1>8

LEMMA JobCrashesKept ==
    ASSUME Kept, Typing', NEW w \in Workers, JobCrashes(w)
    PROVE  Kept'
  <1>1. Stop(w) /\ UNCHANGED <<row, copy, recorded, cache, put, gone>>
    BY DEF JobCrashes
  <1> QED BY <1>1, StopKept DEF RowStands

\* A removal that starts is of the row's version: all the removals under way
\* fill the place it fills, and none empties that.
LEMMA StartKept ==
    ASSUME Kept, Typing', NEW w \in Workers, Start(w)
    PROVE  Kept'
  <1>1. /\ Typing /\ job[w].pc = "idle" /\ ~Cleans(w)
        /\ UNCHANGED <<copy, recorded, cache, put, gone>>
    BY DEF Kept, Start, Cleans
  <1>2. /\ NeverBad'
        /\ \A t \in Stores, c \in Blobs : Good(t, c) => Good(t, c)'
    BY <1>1, CopiesStand DEF Kept
  <1>3. CASE UNCHANGED <<row, job>>
    <2>1. OthersStand(w) /\ RowStands
      BY <1>3 DEF OthersStand, RowStands
    <2>2. job'[w].pc = "idle" /\ ~Cleans(w)'
      BY <1>1, <1>3 DEF Cleans
    <2> QED BY <1>1, <1>2, <2>1, <2>2, HandlerKept DEF KnowsTheRow
  <1> DEFINE pc == IF At[row.previous] = At[row.current] THEN "same" ELSE "page"
             failed == row.failed /\ At[row.previous] = At[row.current]
  <1>4. ASSUME NEW j \in waiting, row.version = j.version,
               row.phase = PhaseOf(j.task), row.previous # NoPlace,
               job' = [job EXCEPT ![w] = [Idle EXCEPT !.pc = pc,
                          !.version = j.version, !.task = j.task,
                          !.from = row.previous, !.to = row.current]],
               row' = [row EXCEPT !.failed = failed]
        PROVE  Kept'
    <2>1. j \in Tasks /\ row \in Rows /\ row.version \in Nat
      BY <1>1 DEF Typing, Rows, Versions
    <2>2. pc \in {"same", "page"} /\ (pc = "same" <=> At[row.previous] = At[row.current])
      OBVIOUS
    <2> HIDE DEF pc, failed
    <2>3. OthersStand(w) /\ RowStands
      BY <1>1, <1>4, <2>1 DEF Typing, Rows, OthersStand, RowStands
    <2>4. /\ job'[w].pc = pc /\ job'[w].version = row.version
          /\ job'[w].task = j.task /\ job'[w].from = row.previous
          /\ job'[w].to = row.current /\ job'[w].page = {}
          /\ job'[w].second = FALSE /\ job'[w].seen = {}
      BY <1>1, <1>4 DEF Typing, Idle
    <2>5. From(w)' = At[row.previous] /\ To(w)' = At[row.current]
      BY <2>4 DEF From, To
    <2>6. Current(w)'
      BY <2>3, <2>4 DEF Current, RowStands
    <2>7. KnowsTheRow(w)'
      BY <2>1, <2>2, <2>3, <2>4, <2>5 DEF KnowsTheRow, RowStands
    <2>8. /\ ReadFrom(row)' = ReadFrom(row)
          /\ At[row.current]' = At[row.current]
          /\ \A v \in Workers : v # w =>
                /\ From(v)' = From(v) /\ To(v)' = To(v)
                /\ Cleans(v)' = Cleans(v) /\ Current(v)' = Current(v)
      BY <2>3, OthersDo
    <2>9. Cleans(w)' => /\ row.phase = "cleaning"
                        /\ At[row.previous] # At[row.current]
      BY <1>4, <2>2, <2>4 DEF Cleans, PhaseOf
    <2>10. row'.phase = row.phase
      BY <1>4, <2>1 DEF Rows
    <2>11. OnePlaceFilled'
      BY <2>5, <2>8, <2>9, <2>10 DEF Kept, OnePlaceFilled
    <2>12. FilledIsRead'
      BY <1>1, <2>5, <2>8, ReadFromPlaces DEF Kept, FilledIsRead
    <2>13. NoneIsEmptied'
      <3>1. \A v \in Workers : Cleans(v) => From(v) # To(v)
        BY DEF Kept, JobsKnowTheRow, KnowsTheRow, Cleans
      <3>2. Cleans(w)' => \A v \in Workers : Cleans(v) => To(v) = At[row.current]
        BY <2>9 DEF Kept, OnePlaceFilled
      <3> QED BY <1>1, <2>5, <2>8, <2>9, <3>1, <3>2 DEF Kept, NoneIsEmptied
    <2>14. RemovesAll(w)'
      BY <2>2, <2>4 DEF RemovesAll
    <2>15. NothingLost'
      BY <1>1, <2>8 DEF Kept, NothingLost
    <2>16. \A v \in Workers, c \in Blobs : Good(To(v), c) => copy'[To(v)][c] = "good"
      BY <1>1 DEF Good
    <2>17. job'[w].pc # "delete"
      BY <2>2, <2>4
    <2> QED BY <1>1, <1>2, <2>3, <2>7, <2>11, <2>12, <2>13, <2>14, <2>15, <2>16,
               <2>17, OneHandlerKept
  <1>5. PICK j \in waiting :
           \/ UNCHANGED <<row, job>>
           \/ /\ row.version = j.version /\ row.phase = PhaseOf(j.task)
              /\ row.previous # NoPlace
              /\ job' = [job EXCEPT ![w] = [Idle EXCEPT !.pc = pc,
                            !.version = j.version, !.task = j.task,
                            !.from = row.previous, !.to = row.current]]
              /\ row' = [row EXCEPT !.failed = failed]
    BY DEF Start
  <1> HIDE DEF pc, failed
  <1> QED BY <1>3, <1>4, <1>5

\* The old place is let go, if every blob is in the new one by then.
LEMMA PreviousDropped ==
    ASSUME Kept, Typing', NEW w \in Workers, Stop(w),
           UNCHANGED <<copy, recorded, cache, put, gone>>,
           row'.version = row.version, row'.current = row.current,
           row'.previous = NoPlace, row'.phase = "active",
           \A b \in recorded \ gone : Good(At[row.current], b),
           \A u \in Uploads : put[u].pc \in {"copy", "record"}
              => At[put[u].now] = At[row.current],
           \A v \in Workers : Cleans(v) => To(v) = At[row.current]
    PROVE  Kept'
  <1>1. Typing /\ OthersStand(w) /\ job'[w].pc = "idle"
    BY DEF Kept, Typing, Stop, OthersStand, Idle
  <1>2. \A v \in Workers :
           /\ job'[v].pc # "idle" => job'[v] = job[v] /\ v # w
           /\ Cleans(v)' => Cleans(v) /\ To(v)' = To(v) /\ From(v)' = From(v)
    BY <1>1 DEF OthersStand, Cleans, To, From
  <1>3. At[row.current] \in ReadFrom(row)'
    BY StorageAssumption DEF ReadFrom, Kept, Typing, Rows
  <1>4. NeverBad'
    BY DEF Kept, NeverBad
  <1>5. JobsKnowTheRow'
    BY <1>2
    DEF Kept, JobsKnowTheRow, KnowsTheRow, Current, From, To
  <1>6. PutsKnow'
    BY <1>3 DEF Kept, PutsKnow, PutKnows, UpTo, Good
  <1>7. OnePlaceFilled' /\ FilledIsRead' /\ NoneIsEmptied'
    BY <1>2, <1>3 DEF Kept, OnePlaceFilled, FilledIsRead, NoneIsEmptied
  <1>8. Checked'
    BY <1>2 DEF Kept, Checked, Good, To
  <1>9. RemovalsRemoveAll'
    BY DEF RemovalsRemoveAll
  <1>10. NothingLost'
    BY <1>3 DEF NothingLost, Good
  <1> QED BY <1>4, <1>5, <1>6, <1>7, <1>8, <1>9, <1>10 DEF Kept

LEMMA EndSameKept ==
    ASSUME Kept, Typing', NEW w \in Workers, EndSame(w)
    PROVE  Kept'
  <1>1. /\ Typing /\ row \in Rows /\ job[w].pc = "same" /\ Stop(w)
        /\ UNCHANGED <<copy, recorded, cache, put, gone>>
    BY DEF Kept, Typing, EndSame
  <1>2. CASE ~Current(w)
    BY <1>1, <1>2, StopKept DEF EndSame, RowStands
  <1>3. CASE Current(w)
    <2>1. /\ row'.version = row.version /\ row'.current = row.current
          /\ row'.previous = NoPlace /\ row'.phase = "active"
      BY <1>1, <1>3 DEF EndSame, Rows
    <2>2. /\ job[w].to = row.current /\ From(w) = To(w)
          /\ row.previous \in {NoPlace, job[w].from}
      BY <1>1, <1>3 DEF Kept, JobsKnowTheRow, KnowsTheRow
    <2>3. \A s \in ReadFrom(row) : s = At[row.current]
      BY <1>1, <2>2, ReadFromPlaces DEF From, To
    <2>4. \A b \in recorded \ gone : Good(At[row.current], b)
      BY <2>3 DEF Kept, NothingLost, Good
    <2>5. \A u \in Uploads : put[u].pc \in {"copy", "record"}
             => At[put[u].now] = At[row.current]
      BY <2>3 DEF Kept, PutsKnow, PutKnows
    <2>6. \A v \in Workers : Cleans(v) => To(v) = At[row.current]
      BY <2>3 DEF Kept, FilledIsRead
    <2> QED BY <1>1, <2>1, <2>4, <2>5, <2>6, PreviousDropped
  <1> QED BY <1>2, <1>3

LEMMA EndKept ==
    ASSUME Kept, Typing', NEW w \in Workers, End(w)
    PROVE  Kept'
  <1>1. /\ Typing /\ row \in Rows /\ job[w] \in Jobs
        /\ job[w].pc = "end" /\ Stop(w)
        /\ UNCHANGED <<copy, recorded, cache, put, gone>>
    BY DEF Kept, Typing, End
  <1>2. CASE RowStands
    BY <1>1, <1>2, StopKept
  <1>3. CASE /\ Current(w) /\ job[w].task = "clean" /\ ~job[w].failed
             /\ row.previous # NoPlace
    <2>1. /\ row'.version = row.version /\ row'.current = row.current
          /\ row'.previous = NoPlace /\ row'.phase = "active"
      BY <1>1, <1>3 DEF End, Rows
    <2>2. Cleans(w) /\ RemovesAll(w) /\ To(w) = At[row.current]
      BY <1>1, <1>3 DEF Kept, RemovalsRemoveAll, Cleans, JobsKnowTheRow,
         KnowsTheRow, To
    <2>3. job[w].second /\ \A b \in Blobs : ~Pending(w, b)
      BY <1>1, <2>2 DEF RemovesAll, Pending
    <2>4. \A b \in recorded \ gone : Good(At[row.current], b)
      BY <1>1, <1>3, <2>2, <2>3 DEF RemovesAll, Typing
    <2>5. \A u \in Uploads : put[u].pc \in {"copy", "record"}
             => At[put[u].now] = At[row.current]
      BY <1>1, <2>2, <2>3 DEF RemovesAll, Unsettled, To
    <2>6. \A v \in Workers : Cleans(v) => To(v) = At[row.current]
      BY <1>3, <2>2 DEF Kept, OnePlaceFilled
    <2> QED BY <1>1, <2>1, <2>4, <2>5, <2>6, PreviousDropped
  <1>4. ~(Current(w) /\ job[w].task = "clean" /\ ~job[w].failed
             /\ row.previous # NoPlace) => RowStands
    BY <1>1 DEF End, RowStands, Rows
  <1> QED BY <1>2, <1>3, <1>4

\* What a removal deletes was checked where it is kept, and no removal under
\* way deletes there.
LEMMA DeleteOldKept ==
    ASSUME Kept, Typing', NEW w \in Workers, DeleteOld(w)
    PROVE  Kept'
  <1>1. /\ Typing /\ NeverBad /\ job[w] \in Jobs /\ job[w].pc = "delete"
        /\ job[w].task = "clean" /\ job[w].page # {}
        /\ UNCHANGED <<row, recorded, cache, put, gone>>
    BY DEF Kept, DeleteOld, Typing
  <1>2. PICK b \in Blobs : b = Min(job[w].page)
    BY <1>1, AtABlob
  <1>3. /\ copy' = [copy EXCEPT ![From(w)][b] = "none"]
        /\ Past(w, b, FALSE)
    BY <1>2 DEF DeleteOld, From
  <1>4. /\ From(w) \in Stores /\ \A v \in Workers : To(v) \in Stores
        /\ b \in job[w].page
    BY <1>1, <1>2, AtABlob, StorageAssumption DEF From, To, Typing, Jobs
  <1>5. \A t \in Stores, c \in Blobs :
           copy'[t][c] = IF t = From(w) /\ c = b THEN "none" ELSE copy[t][c]
    BY <1>1, <1>3, <1>4 DEF Typing, Copies
  <1>6. Cleans(w) /\ b \in recorded /\ Good(To(w), b) /\ From(w) # To(w)
    BY <1>1, <1>2, <1>4
    DEF Cleans, Kept, Checked, JobsKnowTheRow, KnowsTheRow
  <1>7. \A v \in Workers, c \in Blobs :
           Cleans(v) /\ Good(To(v), c) => copy'[To(v)][c] = "good"
    BY <1>4, <1>5, <1>6 DEF Kept, NoneIsEmptied, Good
  <1>8. NeverBad'
    BY <1>1, <1>5 DEF NeverBad
  <1>9. To(w)' = To(w)
    BY <1>1, <1>2, <1>3, PastDoes DEF To
  <1>10. \A c \in Blobs : Good(To(w), c) => Good(To(w), c)'
    BY <1>6, <1>7, <1>9 DEF Good
  <1>11. Good(To(w), b)'
    BY <1>6, <1>10
  <1>12. /\ OthersStand(w) /\ RowStands /\ job'[w].pc = "blob"
         /\ KnowsTheRow(w)' /\ (Cleans(w)' => GoesOn(w))
         /\ Cleans(w)' /\ Current(w) /\ row.previous # NoPlace /\ RemovesAll(w)
               => RemovesAll(w)'
    BY <1>1, <1>2, <1>3, <1>10, <1>11, PastKept
  <1>13. OnePlaceFilled' /\ FilledIsRead' /\ NoneIsEmptied'
    BY <1>12, PlacesStand
  <1>14. NothingLost'
    <2>1. ReadFrom(row)' = ReadFrom(row) /\ ReadFrom(row) \subseteq Stores
      BY <1>1, <1>12, OthersDo, ReadFromPlaces
    <2>2. To(w) \in ReadFrom(row) /\ copy'[To(w)][b] = "good"
      BY <1>6, <1>7 DEF Kept, FilledIsRead
    <2>3. ASSUME NEW c \in recorded \ gone
          PROVE  \E t \in ReadFrom(row) : copy'[t][c] = "good"
      <3>1. c \in Blobs
        BY <1>1 DEF Typing
      <3>2. CASE c = b
        BY <2>2, <3>2
      <3>3. CASE c # b
        BY <1>5, <2>1, <3>1, <3>3 DEF Kept, NothingLost
      <3> QED BY <3>2, <3>3
    <2> QED BY <1>1, <2>1, <2>3 DEF NothingLost
  <1>15. \A t \in Stores, c \in Blobs \ recorded : Good(t, c) => Good(t, c)'
    BY <1>5, <1>6 DEF Good
  <1>16. Cleans(w)' /\ Current(w)' /\ row.previous # NoPlace => RemovesAll(w)'
    BY <1>12 DEF GoesOn, Kept, RemovalsRemoveAll
  <1> QED BY <1>1, <1>7, <1>8, <1>12, <1>13, <1>14, <1>15, <1>16, OneHandlerKept

LEMMA WorkKept ==
    ASSUME Kept, ~SlowRecords, NEW w \in Workers, Work(w)
    PROVE  Kept'
  <1>1. Typing'
    BY WorkTyped DEF Kept
  <1> QED BY <1>1, StartKept, EndSameKept, ReadPageKept, MoveBlobKept,
             CheckBlobKept, DeleteOldKept, ProgressKept, EndKept,
             JobCrashesKept, LeaseKept DEF Work

\* However moves, removals, uploads, retries, crashes, ended leases and changes
\* of the place cross, a blob the catalog names has a good copy where it is read
\* from, unless its last one was damaged (TenantBlobStores.open, removeOld,
\* startCleaning), if uploads record in time, a removal that outlived its lease
\* is over before the next is begun, and damage shows in a copy's size.
THEOREM BlobsKept ==
    ASSUME Timely
    PROVE  Spec => []NothingLost
  <1>1. ASSUME Kept, [Next]_vars PROVE Kept'
    <2>1. CASE Next
      BY <1>1, <2>1, UploadKept, AdminKept, WorkKept, DamageKept
         DEF Next, Timely
    <2>2. CASE UNCHANGED vars
      <3>1. UNCHANGED <<row, copy, recorded, cache, put, waiting, job, gone>>
        BY <2>2 DEF vars
      <3>2. \A w \in Workers : /\ From(w)' = From(w) /\ To(w)' = To(w)
                               /\ Cleans(w)' = Cleans(w)
                               /\ Current(w)' = Current(w)
        BY <3>1 DEF From, To, Cleans, Current
      <3>3. Typing' /\ NeverBad' /\ JobsKnowTheRow' /\ PutsKnow'
        BY <1>1, <2>2, <3>1, <3>2 DEF Kept, Typing, vars, NeverBad,
           JobsKnowTheRow, KnowsTheRow, PutsKnow, PutKnows, UpTo, Good
      <3>4. OnePlaceFilled' /\ FilledIsRead' /\ NoneIsEmptied'
        BY <1>1, <3>1, <3>2
        DEF Kept, OnePlaceFilled, FilledIsRead, NoneIsEmptied
      <3>5. Checked' /\ NothingLost'
        BY <1>1, <3>1, <3>2 DEF Kept, Checked, NothingLost, Good
      <3>6. RemovalsRemoveAll'
        BY <1>1, <3>1, <3>2
        DEF Kept, RemovalsRemoveAll, RemovesAll, Unsettled, Pending, Good, To
      <3> QED BY <3>3, <3>4, <3>5, <3>6 DEF Kept
    <2> QED BY <1>1, <2>1, <2>2
  <1>2. Kept => NothingLost
    BY DEF Kept
  <1> QED BY InitKept, <1>1, <1>2, PTL DEF Spec
=============================================================================
