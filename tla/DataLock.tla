------------------------------ MODULE DataLock ------------------------------
(***************************************************************************)
(* The lock of the embedded database's directory (pglite.ts): the server,  *)
(* its service, init, connect, tunnel and the admin commands each open the *)
(* database, and two that have it open lose data.  The lock is one file    *)
(* that names a process by its pid and its start, linked into place, so it *)
(* never exists without its content; one whose process is gone is stale,   *)
(* renamed aside and compared before it goes.                              *)
(***************************************************************************)
EXTENDS Naturals

CONSTANTS
    Pids,         \* the process ids of programs that open the database
    MaxStarts,    \* BOUND: how many processes have had a pid
    MaxEvents     \* BOUND: processes that end with a lock, or half-way

VARIABLES
    path,      \* the lock file, or None
    proc,      \* [Pids -> the process that has the pid now]
    events     \* how many have ended without letting go

vars == <<path, proc, events>>

None == [pid |-> 0, start |-> 0]

\* A lock's content: the nonce is left out, as no process locks twice.
Locks == [pid : Pids, start : 1..MaxStarts] \cup {None}

\* Tries: a process gives up after the third.
Tries == 3

(***************************************************************************)
(* at: "gone" (no process has the pid), "off" (before it opens, or after   *)
(* it closed), "link", "judge", "aside", "compare", "restore" within       *)
(* lockDataDir(), "open", "closing", "refused"; judged is the lock it      *)
(* found, aside the one it renamed; alone whether it has been the only     *)
(* process since it began.                                                 *)
(***************************************************************************)
Processes ==
    [at : {"gone", "off", "link", "judge", "aside", "compare", "restore",
           "open", "closing", "refused"},
     start : 0..MaxStarts, try : 0..Tries,
     judged : Locks, aside : Locks, alone : BOOLEAN]

Gone(start) ==
    [at |-> "gone", start |-> start, try |-> 0,
     judged |-> None, aside |-> None, alone |-> FALSE]

\* The process' own content.
Mine(p) == [pid |-> p, start |-> proc[p].start]

\* A process with this pid exists (isAlive()): not whether it holds the lock.
IsAlive(p) == proc[p].at /= "gone"

\* Mutant: a start isn't compared.
Live_PidOnly(p, lock) == IsAlive(lock.pid)

\* Mutant: a lock is live while it is there.
Live_Always(p, lock) == TRUE

\* Whether the lock p found is a live holder's: another's pid, by whether it
\* runs; its own, by whether it is this process' start (readLock()).
Live(p, lock) ==
    IF lock.pid = p THEN lock.start = proc[p].start ELSE IsAlive(lock.pid)

Others(p) == \E q \in Pids \ {p} : IsAlive(q)

TypeOK ==
    /\ path \in Locks
    /\ proc \in [Pids -> Processes]
    /\ events \in 0..MaxEvents

(***************************************************************************)
(* lockDataDir() and what it calls.                                        *)
(***************************************************************************)
To(p, at) == [proc EXCEPT ![p].at = at]

\* A program starts; the pid may be one that ended.
Start(p) ==
    /\ proc[p].at = "gone" /\ proc[p].start < MaxStarts
    /\ proc' = [q \in Pids |->
         IF q = p
         THEN [Gone(proc[p].start + 1) EXCEPT !.at = "link",
                                              !.alone = ~Others(p)]
         ELSE [proc[q] EXCEPT !.alone = FALSE]]
    /\ UNCHANGED <<path, events>>

\* The draft, already written, is linked into place, or another lock is there.
Link(p) ==
    /\ proc[p].at = "link"
    /\ IF proc[p].try = Tries
       THEN proc' = To(p, "refused") /\ UNCHANGED path
       ELSE IF path = None
       THEN path' = Mine(p) /\ proc' = To(p, "open")
       ELSE proc' = [proc EXCEPT ![p].at = "judge", ![p].try = @ + 1]
            /\ UNCHANGED path
    /\ UNCHANGED events

\* The lock is read and its holder looked for: released meanwhile, live, or
\* stale.
Judge(p) ==
    /\ proc[p].at = "judge"
    /\ proc' = IF path = None THEN To(p, "link")
               ELSE IF Live(p, path) THEN To(p, "refused")
               ELSE [proc EXCEPT ![p].at = "aside", ![p].judged = path]
    /\ UNCHANGED <<path, events>>

\* Mutant: a stale lock is removed where it is.
Aside_InPlace(p) ==
    /\ proc[p].at = "aside"
    /\ path' = None
    /\ proc' = [proc EXCEPT ![p].at = "link", ![p].judged = None]
    /\ UNCHANGED events

\* removeStaleLock(): whatever lock is there by now is renamed aside.
Aside(p) ==
    /\ proc[p].at = "aside"
    /\ path' = None
    /\ proc' = IF path = None
               THEN [proc EXCEPT ![p].at = "link", ![p].judged = None]
               ELSE [proc EXCEPT ![p].at = "compare", ![p].aside = path]
    /\ UNCHANGED events

\* Mutant: the lock renamed aside is taken for the one judged.
Compare_Not(p) ==
    /\ proc[p].at = "compare"
    /\ proc' = [proc EXCEPT ![p].at = "link", ![p].judged = None,
                            ![p].aside = None]
    /\ UNCHANGED <<path, events>>

\* The one judged goes; another's goes back.
Compare(p) ==
    /\ proc[p].at = "compare"
    /\ proc' = IF proc[p].aside = proc[p].judged
               THEN [proc EXCEPT ![p].at = "link", ![p].judged = None,
                                 ![p].aside = None]
               ELSE To(p, "restore")
    /\ UNCHANGED <<path, events>>

\* restoreLock(): linked back, unless a newer lock took the place; refused.
Restore(p) ==
    /\ proc[p].at = "restore"
    /\ path' = IF path = None THEN proc[p].aside ELSE path
    /\ proc' = [proc EXCEPT ![p].at = "refused", ![p].judged = None,
                            ![p].aside = None]
    /\ UNCHANGED events

lockDataDir(p) ==
    Link(p) \/ Judge(p) \/ Aside(p) \/ Compare(p) \/ Restore(p)

(***************************************************************************)
(* Letting go, and ending.                                                 *)
(***************************************************************************)

\* The database is closed and the lock read: only the process' own goes.
Unlock(p) ==
    /\ proc[p].at = "open"
    /\ proc' = To(p, IF path = Mine(p) THEN "closing" ELSE "off")
    /\ UNCHANGED <<path, events>>

Remove(p) ==
    /\ proc[p].at = "closing"
    /\ path' = None
    /\ proc' = To(p, "off")
    /\ UNCHANGED events

\* A process ends: done or refused, or cut short wherever it is.
End(p) ==
    /\ IsAlive(p)
    /\ IF proc[p].at \in {"off", "refused"}
       THEN UNCHANGED events
       ELSE events < MaxEvents /\ events' = events + 1
    /\ proc' = [proc EXCEPT ![p] = Gone(proc[p].start)]
    /\ UNCHANGED path

Init ==
    /\ path = None
    /\ proc = [p \in Pids |-> Gone(0)]
    /\ events = 0

Next ==
    \E p \in Pids :
        Start(p) \/ lockDataDir(p) \/ Unlock(p) \/ Remove(p) \/ End(p)

Spec == Init /\ [][Next]_vars

(***************************************************************************)
(* What it is for.                                                         *)
(***************************************************************************)

\* At most one process has the database open: two that take over one stale
\* lock can't both win, and neither removes a lock the other wrote meanwhile.
OneHolder ==
    \A p, q \in Pids :
        proc[p].at = "open" /\ proc[q].at = "open" => p = q

\* A process is refused only beside another: whatever lock was left behind,
\* by whatever process had its pid, one that starts alone opens the database.
NeverShutOut == \A p \in Pids : ~(proc[p].at = "refused" /\ proc[p].alone)

OneOpener == OneHolder /\ NeverShutOut
=============================================================================
