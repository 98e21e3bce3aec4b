------------------------------ MODULE Extraction ------------------------------
(***************************************************************************)
(* The extract step of one version (ai/enrich extract.ts): its bytes go    *)
(* from a source to a child process (enrichers/extract sandbox.ts), what   *)
(* the child answers is stored (catalog extracts.ts).  The file may do     *)
(* anything to the child, the source may end early, run long, fail its own *)
(* check or go silent, and the job may be stopped.                         *)
(***************************************************************************)
EXTENDS Naturals

CONSTANTS
    IndexedZones, \* whether indexed zones' content is read
    Size,         \* how many chunks the version has
    MaxRuns,      \* BOUND: runs of the step
    MaxAborts,    \* BOUND: jobs stopped
    MaxUpgrades   \* BOUND: newer extractors

VARIABLES
    file,      \* its zone's kind, and whether its type has an extractor
    row,       \* version_extracts
    step,      \* the step's run, and its attempt
    content,   \* the source's stream, as this attempt opened it
    feed,      \* feeding(): the loop that hands it to the child
    child,     \* the process
    parent,    \* what extract() knows
    version,   \* EXTRACTOR_VERSION
    events     \* runs and aborts so far

vars == <<file, row, step, content, feed, child, parent, version, events>>

None == "none"

Files == [zone : {"managed", "indexed", "local-only"}, may : BOOLEAN]

\* checked: the content was whole, and read to its end.
Rows == [status : {None, "extracted", "failed", "unsupported", "unavailable"},
         failure : {None, "timeout", "memory-limit", "output-too-large",
                    "killed", "crashed", "protocol", "answered"},
         checked : BOOLEAN, extractor : 0..MaxUpgrades]
NoRow == [status |-> None, failure |-> None, checked |-> FALSE,
          extractor |-> 0]

Steps == [at : {"idle", "attempt", "again"}, attempt : 0..2]

\* How a stream turns out: whole, shorter or longer than its size, or failing
\* (its hash isn't the blob's, the source is gone).
Contents == [ends : {"whole", "short", "long", "fails"}, open : BOOLEAN]
Feeds == [at : {"off", "next", "asked", "blocked", "deciding"},
          sent : 0..Size + 1, silent : BOOLEAN]
Off == [at |-> "off", sent |-> 0, silent |-> FALSE]

\* How the child ended, when it isn't running.
Children == [at : {"none", "running", "gone"}, eof : BOOLEAN,
             exit : {None, "extraction", "failure", "garbage", "memory",
                     "fatal", "signal"}]
NoChild == [at |-> "none", eof |-> FALSE, exit |-> None]

Parents == [at : {"off", "await", "drain"},
            killedFor : {None, "timeout", "memory-limit", "output-too-large",
                         "aborted"},
            sourceFailed : BOOLEAN, sourceDone : BOOLEAN,
            sourceStalled : BOOLEAN, childReading : BOOLEAN]
NoParent == [at |-> "off", killedFor |-> None, sourceFailed |-> FALSE,
             sourceDone |-> FALSE, sourceStalled |-> FALSE,
             childReading |-> FALSE]

TypeOK ==
    /\ file \in Files /\ row \in Rows /\ step \in Steps
    /\ content \in Contents /\ feed \in Feeds
    /\ child \in Children /\ parent \in Parents
    /\ version \in 0..MaxUpgrades
    /\ events \in [runs : 0..MaxRuns, aborts : 0..MaxAborts]

(***************************************************************************)
(* The step begins.                                                        *)
(***************************************************************************)

\* Mutant: every zone's content is read.
extractsZone_Any == TRUE

extractsZone ==
    \/ file.zone = "managed"
    \/ file.zone = "indexed" /\ IndexedZones

\* Mutant: every run extracts again.
Stands_Never == FALSE

\* What this extractor stored stands: versions never change.
Stands ==
    /\ row.extractor = version
    /\ row.status \in {"extracted", "failed", "unsupported"}

Stored(status, failure) ==
    row' = [status |-> status, failure |-> failure, extractor |-> version,
            checked |-> /\ content.open /\ content.ends = "whole"
                        /\ feed.sent = Size /\ parent.sourceDone]

Run ==
    /\ step.at = "idle" /\ events.runs < MaxRuns
    /\ events' = [events EXCEPT !.runs = @ + 1]
    /\ IF ~extractsZone \/ Stands THEN UNCHANGED <<step, row>>
       ELSE IF ~file.may
       THEN Stored("unsupported", None) /\ UNCHANGED step
       ELSE /\ step' = [at |-> "again", attempt |-> 0]
            /\ UNCHANGED row
    /\ UNCHANGED <<file, content, feed, child, parent, version>>

Idle == step' = [at |-> "idle", attempt |-> 0]

\* No source reaches the bytes.
Unreachable ==
    /\ Stored("unavailable", None) /\ Idle
    /\ UNCHANGED <<content, feed, child, parent>>

\* The bytes can't be opened, or no process may be started or does start: the
\* job fails, and is tried again.
CannotRun == Idle /\ UNCHANGED <<row, content, feed, child, parent>>

Starts ==
    /\ \E e \in {"whole", "short", "long", "fails"} :
         content' = [ends |-> e, open |-> TRUE]
    /\ step' = [at |-> "attempt", attempt |-> step.attempt + 1]
    /\ feed' = [Off EXCEPT !.at = "next"]
    /\ child' = [NoChild EXCEPT !.at = "running"]
    /\ parent' = [NoParent EXCEPT !.at = "await", !.childReading = TRUE]
    /\ UNCHANGED row

Attempt ==
    /\ step.at = "again"
    /\ Unreachable \/ CannotRun \/ Starts
    /\ UNCHANGED <<file, version, events>>

(***************************************************************************)
(* Feeding: one chunk asked for after another.                             *)
(***************************************************************************)
Ended == [feed EXCEPT !.at = "off"]

Ask ==
    /\ feed.at = "next"
    /\ feed' = [feed EXCEPT !.at = "asked", !.silent = FALSE]
    /\ UNCHANGED <<file, row, step, content, child, parent, version, events>>

\* Nothing came for STALL_MS, or half the time limit.
GoesSilent ==
    /\ feed.at = "asked" /\ ~feed.silent
    /\ feed' = [feed EXCEPT !.silent = TRUE]
    /\ UNCHANGED <<file, row, step, content, child, parent, version, events>>

Total == CASE content.ends = "short" -> Size - 1
           [] content.ends = "long" -> Size + 1
           [] OTHER -> Size

\* The child is killed, and the parent will see it gone.
Killed ==
    child' = IF child.at = "running"
             THEN [child EXCEPT !.at = "gone", !.exit = "signal"] ELSE child
sourceFault ==
    /\ parent' = [parent EXCEPT !.sourceFailed = TRUE]
    /\ Killed /\ feed' = Ended

TooMuch == feed.sent + 1 > Size

Gives ==
    /\ feed.at = "asked" /\ feed.sent < Total
    /\ IF TooMuch THEN sourceFault
       ELSE /\ \E at \in IF parent.childReading THEN {"next", "blocked"}
                         ELSE {"deciding"} :
                 feed' = [feed EXCEPT !.at = at, !.sent = @ + 1,
                                      !.silent = FALSE]
            /\ UNCHANGED <<child, parent>>
    /\ UNCHANGED <<file, row, step, content, version, events>>

\* Mutant: a stream that ends is taken for whole.
Whole_Ends == content.ends /= "fails"

Whole == content.ends /= "fails" /\ feed.sent = Size

\* The end comes before the child sees it.
Ends ==
    /\ feed.at = "asked" /\ feed.sent = Total
    /\ IF ~Whole THEN sourceFault
       ELSE /\ parent' = [parent EXCEPT !.sourceDone = TRUE]
            /\ child' = [child EXCEPT !.eof = parent.childReading]
            /\ feed' = Ended
    /\ UNCHANGED <<file, row, step, content, version, events>>

\* A source may fail at any chunk.
Fails ==
    /\ feed.at = "asked" /\ content.ends = "fails"
    /\ sourceFault
    /\ UNCHANGED <<file, row, step, content, version, events>>

\* The child has read on, or its stdin is gone; or, no longer reading, the
\* child has answered.
Resumes ==
    /\ \/ feed.at = "blocked"
       \/ feed.at = "deciding" /\ parent.at = "drain"
    /\ feed' = [feed EXCEPT !.at = "next"]
    /\ UNCHANGED <<file, row, step, content, child, parent, version, events>>

(***************************************************************************)
(* The child, and what kills it.                                           *)
(***************************************************************************)

\* It needn't read the end, to answer or to fail.
StopsReading ==
    /\ child.at = "running" /\ parent.childReading
    /\ parent' = [parent EXCEPT !.childReading = FALSE]
    /\ UNCHANGED <<file, row, step, content, feed, child, version, events>>

\* What an extractor comes to, whatever its file holds.
Answers == {"extraction", "failure"}

\* It answers, or writes what the protocol doesn't allow; runs out of memory;
\* fails where nothing catches it; is killed from outside.
ChildEnds ==
    /\ child.at = "running"
    /\ \E exit \in Answers \cup {"garbage", "memory", "fatal", "signal"} :
         child' = [child EXCEPT !.at = "gone", !.exit = exit]
    /\ UNCHANGED <<file, row, step, content, feed, parent, version, events>>

Limits == {"timeout", "memory-limit", "output-too-large"}

Stalled == feed.at = "asked" /\ feed.silent

\* Until the exit is seen: the time is up, it holds too much memory, it says
\* too much; or the job is stopped.
KillsFor(why) ==
    /\ parent.at = "await"
    /\ parent' = [parent EXCEPT
           !.killedFor = why,
           !.sourceStalled = (why = "timeout" /\ Stalled)]
    /\ Killed

Kills ==
    /\ parent.killedFor = None
    /\ \E why \in Limits : KillsFor(why)
    /\ UNCHANGED <<file, row, step, content, feed, version, events>>

Aborts ==
    /\ events.aborts < MaxAborts
    /\ events' = [events EXCEPT !.aborts = @ + 1]
    /\ KillsFor("aborted")
    /\ UNCHANGED <<file, row, step, content, feed, version>>

(***************************************************************************)
(* What it comes to.                                                       *)
(***************************************************************************)

\* Mutant: an answer counts as soon as it is there.
MustDrain_Not == FALSE

\* It answered before the source ended: the rest is read through the checks.
MustDrain ==
    /\ parent.killedFor = None
    /\ child.exit \in Answers \cup {"garbage"}
    /\ ~parent.sourceDone /\ ~parent.sourceFailed

\* Nothing of an answer the protocol doesn't allow is used.
Checked(exit) == IF exit = "garbage" THEN "protocol" ELSE exit

\* Mutant: why the child was killed comes before what the source did.
Result_KilledFirst(unchecked) ==
    IF parent.killedFor /= None THEN parent.killedFor
    ELSE IF parent.sourceFailed \/ unchecked THEN "input-failed"
    ELSE Checked(child.exit)

\* The source failed, stalled, or couldn't be checked to its end: the moment's,
\* not the file's.
Result(unchecked) ==
    IF parent.killedFor = "aborted" THEN "aborted"
    ELSE IF parent.sourceFailed \/ parent.sourceStalled \/ unchecked
    THEN "input-failed"
    ELSE IF parent.killedFor /= None THEN parent.killedFor
    ELSE Checked(child.exit)

FailureOf(result) ==
    CASE result = "failure" -> "answered"
      [] result = "memory" -> "memory-limit"
      [] result = "fatal" -> "crashed"
      [] result = "signal" -> "killed"
      [] OTHER -> result

\* Mutant: a third child for what may be the file's doing.
TriesAgain_More(result) == result \in {"timeout", "signal"}

\* Once more for what may not be the file's own.
TriesAgain(result) == step.attempt < 2 /\ result \in {"timeout", "signal"}

\* The write, unless the version is replaced by then.
Settle(result) ==
    \/ /\ TriesAgain(result)
       /\ step' = [step EXCEPT !.at = "again"]
       /\ UNCHANGED row
    \/ \* The last one, or twice the time doesn't fit the budget.
       /\ ~TriesAgain(result) \/ result = "timeout"
       /\ Idle
       /\ IF result \in {"aborted", "input-failed"} THEN UNCHANGED row
          ELSE \/ UNCHANGED row
               \/ result = "extraction" /\ Stored("extracted", None)
               \/ result = "failure" /\ Stored("unsupported", None)
               \/ result /= "extraction" /\ Stored("failed", FailureOf(result))

\* Mutant: a stream that didn't end is left open.
Closes_Not(unchecked) == ~unchecked
Closes(unchecked) == TRUE

\* However it ends, the content is closed and nothing runs on.
Over(unchecked) ==
    /\ Settle(Result(unchecked))
    /\ feed' = Off /\ child' = NoChild /\ parent' = NoParent
    /\ content' = [ends |-> "whole",
                   open |-> content.open /\ ~Closes(unchecked)]

ExitSeen ==
    /\ parent.at = "await" /\ child.at = "gone"
    /\ IF MustDrain
       THEN /\ parent' = [parent EXCEPT !.at = "drain", !.childReading = FALSE]
            /\ UNCHANGED <<row, step, content, feed, child>>
       ELSE Over(FALSE)
    /\ UNCHANGED <<file, version, events>>

\* The rest was read; or the time is up, or the job stopped, before it was.
Drained ==
    /\ parent.at = "drain"
    /\ \/ feed.at = "off" /\ Over(FALSE)
       \/ feed.at /= "off" /\ Over(TRUE)
    /\ UNCHANGED <<file, version, events>>

Upgrade ==
    /\ version < MaxUpgrades /\ step.at = "idle"
    /\ version' = version + 1
    /\ UNCHANGED <<file, row, step, content, feed, child, parent, events>>

Init ==
    /\ file \in Files /\ row = NoRow
    /\ step = [at |-> "idle", attempt |-> 0]
    /\ content = [ends |-> "whole", open |-> FALSE]
    /\ feed = Off /\ child = NoChild /\ parent = NoParent
    /\ version = 0 /\ events = [runs |-> 0, aborts |-> 0]

Next ==
    \/ Run \/ Attempt
    \/ Ask \/ GoesSilent \/ Gives \/ Ends \/ Fails \/ Resumes
    \/ StopsReading \/ ChildEnds \/ Kills \/ Aborts
    \/ ExitSeen \/ Drained \/ Upgrade

Spec == Init /\ [][Next]_vars

(***************************************************************************)
(* What it is for.                                                         *)
(***************************************************************************)

\* What is stored of a child's answer was answered of the version's content,
\* read to its end, of its size, and well by the source's own check.
WholeOrNothing ==
    \/ row.status = "extracted"
    \/ row.status = "unsupported" /\ file.may
    \/ row.failure \in {"answered", "protocol"}
    => row.checked

\* A run that is over leaves no child, and the content closed.
NothingLeft ==
    step.at /= "attempt" => child.at /= "running" /\ ~content.open

\* Nothing is read of a zone whose content isn't the server's to read.
OnlyItsZones ==
    (step.at /= "idle" \/ row.status /= None) =>
        \/ file.zone = "managed"
        \/ file.zone = "indexed" /\ IndexedZones

\* No step records as the file's failure what its source did, replaces what an
\* extractor found of a version but by what a newer one finds, or starts a
\* third child of a run.
StepIsFair ==
    /\ (row' /= row /\ row'.status = "failed") =>
           ~parent.sourceFailed /\ ~parent.sourceStalled
    /\ row' /= row =>
           \/ row.status \in {None, "unavailable"}
           \/ row'.extractor > row.extractor
    /\ step.attempt = 2 => step'.at /= "again"

\* Every step, and the state it leaves.
ReadsWhole ==
    StepIsFair /\ (WholeOrNothing /\ NothingLeft /\ OnlyItsZones)'
=============================================================================
