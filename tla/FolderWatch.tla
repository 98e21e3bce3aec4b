------------------------------ MODULE FolderWatch ------------------------------
(****************************************************************************)
(* The watching of one folder source and the sync requests it makes:         *)
(* watchSources() with its debouncer (apps/server watch.ts), the sync queue   *)
(* it asks (requestSync() and runSyncJob(), core/jobs), and the server that   *)
(* starts and stops both.                                                    *)
(*                                                                          *)
(* The folder is a version, an identity and whether it is there. Which of its *)
(* subfolders has a watch is abstracted: a watcher that is ready reports      *)
(* every change of the folder it holds, one that is still walking may report  *)
(* it or not. Versions order what a run has seen of it.                      *)
(****************************************************************************)
EXTENDS Integers

CONSTANTS
    MaxChanges,     \* changes of the folder
    MaxFaults       \* failures: of a watch, of a request, of a run, of the server

VARIABLES
    folder,     \* its version, its identity, whether it is there
    view,       \* versions: read by a finished run, owed a sync, left to the schedule
    watcher,    \* the watch handle, and the timer that tries again
    debouncer,  \* whether a timer is set, what `fire` is doing, `again`, and since when
    news,       \* an event of the watched folder not delivered yet
    job,        \* the source's jobs: one waiting, one running (from a version), stopped
    server,     \* "down", "jobs" (its queue runs, nothing is watched yet), "up"
    faults

vars == <<folder, view, watcher, debouncer, news, job, server, faults>>

Later(a, b) == IF a > b THEN a ELSE b
NotRunning == -1

NoWatch == [on |-> FALSE, id |-> 0, ready |-> FALSE, again |-> FALSE, retry |-> FALSE]
Quiet == [timer |-> FALSE, phase |-> "none", again |-> FALSE, from |-> 0]

(* A factory that started: the folder as it is now, its walk still to come.   *)
Watching(again) == [on |-> TRUE, id |-> folder.id, ready |-> FALSE, again |-> again,
                    retry |-> FALSE]
(* failed(): nothing is watched, and arm(true) is tried again later.          *)
Failed == [NoWatch EXCEPT !.retry = TRUE]

Init ==
    /\ folder = [ver |-> 0, id |-> 0, there |-> TRUE]
    /\ view = [indexed |-> 0, owed |-> 0, left |-> 0]
    /\ watcher = NoWatch
    /\ debouncer = Quiet
    /\ news = FALSE
    /\ job = [waiting |-> FALSE, running |-> NotRunning, stopped |-> FALSE]
    /\ server = "down"
    /\ faults = 0

Fault == faults < MaxFaults /\ faults' = faults + 1

----------------------------------------------------------------------------
(* The debouncer. `d` is what it holds, `w` the watcher its fire would use.   *)

Poked(d) == [d EXCEPT !.timer = TRUE]

(* due(): never twice at once; a fire without a watcher does nothing.         *)
Due(d, w) ==
    IF d.phase # "none" THEN [d EXCEPT !.timer = FALSE, !.again = TRUE]
    ELSE [Quiet EXCEPT !.phase = IF w.on THEN "stat" ELSE "none", !.from = folder.ver]

(* A fire that settled. Mutant: the burst that came meanwhile is dropped.     *)
Settled_Forgets(d, w) == [d EXCEPT !.phase = "none", !.again = FALSE]
Settled(d, w) ==
    IF d.again THEN Due([d EXCEPT !.phase = "none", !.again = FALSE], w)
    ELSE [d EXCEPT !.phase = "none"]

(* A fire that waits for stat() finds that its watcher is no more the one.    *)
Orphaned(d) == IF d.phase = "stat" THEN [d EXCEPT !.phase = "stale"] ELSE d

TimerFires ==
    /\ debouncer.timer
    /\ debouncer' = Due(debouncer, watcher)
    /\ UNCHANGED <<folder, view, watcher, news, job, server, faults>>

----------------------------------------------------------------------------
(* The folder changes, goes, comes back or is replaced by another. A sync of  *)
(* the change is owed by whatever is to notice it: the watcher, the one armed *)
(* again after it, or the run of the next start. The first watch of a start   *)
(* asks for no run when it is ready: what changes inside the folder before    *)
(* that is the schedule's, unless the start's own run is still to begin. The  *)
(* root has its watch before the walk begins: it going is always reported.    *)
Noticed(goes) ==
    \/ server = "down"
    \/ server = "up" /\ (~watcher.on \/ watcher.ready \/ watcher.again
                           \/ goes \/ watcher.id # folder.id)

\* The folder changes, is replaced, goes or comes back. A watcher that is ready
\* tells of it; one still walking the folder tells of it or not, as it has come
\* by or not; one whose folder was replaced tells of nothing (recursiveWatch,
\* createFolderTreeWatch(): consider(), scan()).
Changes ==
    /\ folder.ver < MaxChanges
    /\ \E there \in BOOLEAN, id \in {folder.id, folder.id + 1} :
         /\ there \/ (folder.there /\ id = folder.id)
         /\ ~folder.there => there
         /\ folder' = [ver |-> folder.ver + 1, id |-> id, there |-> there]
         /\ LET goes == ~there \/ id # folder.id IN
            /\ view' = IF Noticed(goes) THEN [view EXCEPT !.owed = folder.ver + 1] ELSE view
            /\ news' \in IF ~watcher.on \/ watcher.id # folder.id THEN {news}
                         ELSE IF watcher.ready \/ goes THEN {TRUE}
                         ELSE {news, TRUE}
    /\ UNCHANGED <<watcher, debouncer, job, server, faults>>

(* onEvent() of a name that is not noise.                                    *)
Event ==
    /\ news
    /\ news' = FALSE
    /\ debouncer' = IF watcher.on THEN Poked(debouncer) ELSE debouncer
    /\ UNCHANGED <<folder, view, watcher, job, server, faults>>

----------------------------------------------------------------------------
(* fire(): the stat() and what follows from it.                              *)

(* What the fire leaves watched. Mutant: a new folder is only watched.        *)
Found_Silent ==
    IF ~folder.there THEN Failed
    ELSE IF watcher.id # folder.id THEN Watching(FALSE)
    ELSE watcher
Found ==
    IF ~folder.there THEN Failed
    ELSE IF watcher.id # folder.id THEN Watching(TRUE)
    ELSE watcher

StatAnswers ==
    /\ debouncer.phase \in {"stat", "stale"}
    /\ IF debouncer.phase = "stale"
       THEN watcher' = watcher /\ debouncer' = Settled(debouncer, watcher) /\ news' = news
       ELSE /\ watcher' = Found
            /\ debouncer' = IF Found = watcher THEN [debouncer EXCEPT !.phase = "request"]
                            ELSE Settled(debouncer, Found)
            /\ news' = (news /\ Found = watcher)
    /\ UNCHANGED <<folder, view, job, server, faults>>

(* requestSync(): the job that waits is reused, one that runs is not.         *)
(* Mutant: a job of the source in any state stands for the run asked for.     *)
Sent_Joins(j) == IF j.running # NotRunning THEN j ELSE [j EXCEPT !.waiting = TRUE]
Sent(j) == [j EXCEPT !.waiting = TRUE]

Requested ==
    /\ debouncer.phase = "request"
    /\ job' = Sent(job)
    /\ debouncer' = [debouncer EXCEPT !.phase = "answer"]
    /\ UNCHANGED <<folder, view, watcher, news, server, faults>>

Answered ==
    /\ debouncer.phase = "answer"
    /\ debouncer' = Settled(debouncer, watcher)
    /\ UNCHANGED <<folder, view, watcher, news, job, server, faults>>

(* Only logged: what was to be synced waits for the schedule.                 *)
RequestFails ==
    /\ Fault
    /\ debouncer.phase = "request"
    /\ view' = [view EXCEPT !.left = Later(view.left, debouncer.from)]
    /\ debouncer' = Settled(debouncer, watcher)
    /\ UNCHANGED <<folder, watcher, news, job, server>>

----------------------------------------------------------------------------
(* The watcher: its first walk ends, it fails, it is tried again.             *)

(* Mutant: a watcher that is ready says so and asks for nothing.              *)
OnReady_Says(d) == d
OnReady(d) == IF watcher.again THEN Poked(d) ELSE d

Ready ==
    /\ watcher.on /\ ~watcher.ready
    /\ watcher' = [watcher EXCEPT !.ready = TRUE]
    /\ debouncer' = OnReady(debouncer)
    /\ UNCHANGED <<folder, view, news, job, server, faults>>

WatchFails ==
    /\ Fault
    /\ watcher.on
    /\ watcher' = Failed
    /\ news' = FALSE
    /\ debouncer' = Orphaned(debouncer)
    /\ UNCHANGED <<folder, view, job, server>>

(* arm(true), from the timer; a folder that is not there fails it again.      *)
Retried ==
    /\ watcher.retry
    /\ folder.there
    /\ watcher' = Watching(TRUE)
    /\ UNCHANGED <<folder, view, debouncer, news, job, server, faults>>

----------------------------------------------------------------------------
(* The jobs of the source.                                                   *)

Began(j) == [j EXCEPT !.waiting = FALSE, !.running = folder.ver]
Ended(j) == [j EXCEPT !.running = NotRunning]

RunBegins ==
    /\ server # "down"
    /\ job.waiting /\ job.running = NotRunning
    /\ job' = Began(job)
    /\ UNCHANGED <<folder, view, watcher, debouncer, news, server, faults>>

(* `done`: all the folder held when the run began.                           *)
RunIsDone ==
    /\ job.running # NotRunning /\ ~job.stopped /\ folder.there
    /\ view' = [view EXCEPT !.indexed = Later(view.indexed, job.running)]
    /\ job' = Ended(job)
    /\ UNCHANGED <<folder, watcher, debouncer, news, server, faults>>

(* `partial` and `retry` send the next run; a job that threw is the queue's    *)
(* to run again.                                                             *)
RunGoesOn ==
    /\ Fault
    /\ job.running # NotRunning /\ ~job.stopped
    /\ job' = Sent(Ended(job))
    /\ UNCHANGED <<folder, view, watcher, debouncer, news, server>>

(* A `failed` run stops the source, until an admin acts; a run of a stopped   *)
(* source, or of one whose owner is not known yet, does nothing.              *)
RunLeaves ==
    /\ job.running # NotRunning
    /\ view' = [view EXCEPT !.left = Later(view.left, job.running)]
    /\ \/ job.stopped /\ job' = Ended(job) /\ UNCHANGED faults
       \/ ~job.stopped /\ Fault /\ job' = Ended(job)
       \/ ~job.stopped /\ (IF folder.there THEN Fault ELSE UNCHANGED faults)
            /\ job' = [Ended(job) EXCEPT !.stopped = TRUE]
    /\ UNCHANGED <<folder, watcher, debouncer, news, server>>

Resume ==
    /\ job.stopped
    /\ job' = [job EXCEPT !.stopped = FALSE]
    /\ UNCHANGED <<folder, view, watcher, debouncer, news, server, faults>>

(* The schedule of the source, an admin's run-now.                            *)
Scheduled ==
    /\ server # "down"
    /\ ~job.waiting
    /\ job' = Sent(job)
    /\ UNCHANGED <<folder, view, watcher, debouncer, news, server, faults>>

----------------------------------------------------------------------------
(* The server. Its start sends each source a run, then watches its folder; a  *)
(* stop (or a crash) ends the watch and its timers, and the queue runs the    *)
(* job that was running again.                                               *)

Start ==
    /\ server = "down"
    /\ server' = "jobs"
    /\ job' = Sent(job)
    /\ UNCHANGED <<folder, view, watcher, debouncer, news, faults>>

Watch ==
    /\ server = "jobs"
    /\ server' = "up"
    /\ watcher' = IF folder.there THEN Watching(FALSE) ELSE Failed
    /\ UNCHANGED <<folder, view, debouncer, news, job, faults>>

Stop ==
    /\ Fault
    /\ server # "down"
    /\ server' = "down"
    /\ watcher' = NoWatch
    /\ debouncer' = Quiet
    /\ news' = FALSE
    /\ job' = IF job.running = NotRunning THEN job ELSE Sent(Ended(job))
    /\ UNCHANGED <<folder, view>>

Next ==
    \/ Changes \/ Event \/ TimerFires
    \/ StatAnswers \/ Requested \/ Answered \/ RequestFails
    \/ Ready \/ WatchFails \/ Retried
    \/ RunBegins \/ RunIsDone \/ RunGoesOn \/ RunLeaves \/ Resume \/ Scheduled
    \/ Start \/ Watch \/ Stop

Spec == Init /\ [][Next]_vars

----------------------------------------------------------------------------
TypeOK ==
    /\ folder \in [ver : 0..MaxChanges, id : 0..MaxChanges, there : BOOLEAN]
    /\ view \in [indexed : 0..MaxChanges, owed : 0..MaxChanges, left : 0..MaxChanges]
    /\ watcher \in [on : BOOLEAN, id : 0..MaxChanges, ready : BOOLEAN, again : BOOLEAN,
                    retry : BOOLEAN]
    /\ debouncer \in [timer : BOOLEAN, again : BOOLEAN, from : 0..MaxChanges,
                      phase : {"none", "stat", "stale", "request", "answer"}]
    /\ news \in BOOLEAN
    /\ job \in [waiting : BOOLEAN, running : NotRunning..MaxChanges, stopped : BOOLEAN]
    /\ server \in {"down", "jobs", "up"}
    /\ faults \in 0..MaxFaults

(* Something is still to come that syncs what the folder holds now.           *)
Pending ==
    \/ server = "down" \/ job.waiting
    \/ watcher.retry \/ news \/ debouncer.timer \/ debouncer.again
    \/ watcher.on /\ watcher.again /\ ~watcher.ready
    \/ debouncer.phase \in {"stat", "request"} /\ debouncer.from >= view.owed
    \/ debouncer.phase = "stat" /\ watcher.id # folder.id
    \/ job.running >= view.owed

(* A change the watcher was to notice is never forgotten: until a run has     *)
(* read it, or a failure told in the log or the audit trail left it to the    *)
(* schedule, an event, a timer, a fire, a watcher to come or a job still      *)
(* stands for it, however events, replaced folders, failing watches, running  *)
(* syncs and restarts interleave (apps/server watch.ts, jobs.ts sendSync()).  *)
NeverForgotten ==
    view.owed > view.indexed /\ view.owed > view.left => Pending
=============================================================================
