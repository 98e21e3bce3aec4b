----------------------------- MODULE Enrichment -----------------------------
(***************************************************************************)
(* Enrichment of one file: what ingest, the enrichment queue, the workers  *)
(* that run the pipeline, the salvage runs of dead letters and the         *)
(* maintenance sweep do to it (core/jobs, core/catalog).                   *)
(*                                                                         *)
(* Files are independent: every lock is the object's, every queue key a    *)
(* version's.  A name stands for a title together with the place in the    *)
(* source (lockCurrentVersion compares both), a stamp for what a step of   *)
(* the pipeline last wrote and from which version and name it decided.     *)
(* The pipeline is injection-flag, rule-tags (the core's steps) and        *)
(* summarize (the model's).  Time is left out: a retry delay, the sweep's  *)
(* age limit and the dead letters' retention end at any moment.            *)
(***************************************************************************)
EXTENDS Naturals, FiniteSets

CONSTANTS
    Names,          \* titles with their places
    NoName,         \* the name of a file not ingested yet
    Sensitive,      \* the names whose rule tags keep content from the model
    NamesComeBack,  \* whether a file may get a name it had before
    Handlers,       \* job handlers, over all worker processes
    Ingesters,      \* what ingests and then enqueues: a sync run, an upload
    Sweeper,        \* the maintenance job that sweeps and retries budgets
    RetryLimit,     \* enrich.retryLimit: runs after the first
    MaxVersions,    \* bound: versions of the file
    MaxChanges,     \* bound: ingests that change something
    MaxFaults,      \* bound: failed steps, crashed handlers, expired leases
    MaxLosses,      \* bound: enqueues lost to a crash after the commit
    MaxSweeps,      \* bound: maintenance passes; 0 for no bound
    DeadIds         \* bound: dead letters

ASSUME NamesAssumption ==
    /\ NoName \notin Names
    /\ Sensitive \subseteq Names
    /\ NamesComeBack \in BOOLEAN

ASSUME ActorsAssumption ==
    /\ Handlers \cap Ingesters = {}
    /\ Sweeper \notin Handlers \cup Ingesters

ASSUME BoundsAssumption ==
    /\ RetryLimit \in Nat
    /\ MaxVersions \in Nat /\ MaxChanges \in Nat
    /\ MaxFaults \in Nat /\ MaxLosses \in Nat /\ MaxSweeps \in Nat
    /\ 0 \notin DeadIds

VARIABLES
    \* the catalog: objects, versions, object_tags, version_cards
    seq, name, hadNames, processed, superseded, applied, card,
    \* the queues enrich (stately: one job per key and state) and enrich-failed
    created, retry, active, dead,
    \* the actors
    run, call, sweep,
    \* what the bounds count
    changes, faults, losses, sweeps

catalog == <<seq, name, hadNames, processed, superseded, applied, card>>
queue   == <<created, retry, active, dead>>
actors  == <<run, call, sweep>>
bounds  == <<changes, faults, losses, sweeps>>
vars    == <<catalog, queue, actors, bounds>>

Versions  == 1..MaxVersions
CoreSteps == {"flag", "tags"}
Callers   == Handlers \cup Ingesters \cup {Sweeper}

Stamps    == [ver : 0..MaxVersions, name : Names \cup {NoName}]
Cards     == {"none", "summarized", "retriable", "settled"}
DeadSt    == {"free", "created", "active", "retry", "active2",
              "completed", "failed"}
Pcs       == {"idle", "read", "flag", "tags", "summarize", "giveUp",
              "withheld", "send", "answer", "mark", "standing",
              "supersede", "requeue", "calling", "done"}
Runs      == [pc : Pcs, ver : 0..MaxVersions, name : Names \cup {NoName},
              dead : DeadIds \cup {0}, aborted : BOOLEAN]

Idle      == [pc |-> "idle", ver |-> 0, name |-> NoName, dead |-> 0,
              aborted |-> FALSE]
NoCall    == [ver |-> 0, st |-> "none"]
Unstamped == [ver |-> 0, name |-> NoName]

TypeOK ==
    /\ seq \in 0..MaxVersions
    /\ name \in Names \cup {NoName}
    /\ hadNames \subseteq Names
    /\ processed \subseteq Versions
    /\ superseded \subseteq Versions
    /\ applied \in [CoreSteps -> Stamps]
    /\ card \in [Versions -> Cards]
    /\ created \in [Versions -> BOOLEAN]
    /\ retry \in [Versions -> 0..RetryLimit]
    /\ active \in [Versions -> 0..RetryLimit + 1]
    /\ dead \in [DeadIds -> [ver : 0..MaxVersions, st : DeadSt]]
    /\ run \in [Handlers -> Runs]
    /\ call \in [Callers -> [ver : 0..MaxVersions,
                             st : {"none", "find", "insert"}]]
    /\ sweep \in [st : {"idle", "scan"}, dead : SUBSET Versions]
    /\ changes \in 0..MaxChanges
    /\ faults \in 0..MaxFaults
    /\ losses \in 0..MaxLosses
    /\ sweeps \in 0..MaxSweeps

Init ==
    /\ seq = 0 /\ name = NoName /\ hadNames = {}
    /\ processed = {} /\ superseded = {}
    /\ applied = [s \in CoreSteps |-> Unstamped]
    /\ card = [v \in Versions |-> "none"]
    /\ created = [v \in Versions |-> FALSE]
    /\ retry = [v \in Versions |-> 0]
    /\ active = [v \in Versions |-> 0]
    /\ dead = [d \in DeadIds |-> [ver |-> 0, st |-> "free"]]
    /\ run = [h \in Handlers |-> Idle]
    /\ call = [c \in Callers |-> NoCall]
    /\ sweep = [st |-> "idle", dead |-> {}]
    /\ changes = 0 /\ faults = 0 /\ losses = 0 /\ sweeps = 0

-----------------------------------------------------------------------------
(* Ingest: one transaction under the object's lock, then the enqueue. *)

Enqueue(c, v) == call' = [call EXCEPT ![c] = [ver |-> v, st |-> "find"]]

\* New content, a rename or a move: whatever needsEnrichment() says needs it.
\* An item that is unchanged, restored or only refreshed changes nothing here.
Ingest(c, n, isNew) ==
    /\ call[c].st = "none"
    /\ changes < MaxChanges
    /\ changes' = changes + 1
    /\ isNew \/ n /= name
    /\ n = name \/ n \notin hadNames \/ NamesComeBack
    /\ name' = n
    /\ hadNames' = hadNames \cup {n}
    /\ IF isNew
         THEN /\ seq < MaxVersions
              /\ seq' = seq + 1
              /\ UNCHANGED processed
         ELSE /\ seq > 0
              /\ processed' = processed \ {seq}
              /\ UNCHANGED seq
    /\ Enqueue(c, seq')
    /\ UNCHANGED <<superseded, applied, card, queue, run, sweep,
                   faults, losses, sweeps>>

\* The ingesting process dies, or gives up, between its commit and its enqueue.
LoseEnqueue(c) ==
    /\ call[c].st /= "none"
    /\ losses < MaxLosses
    /\ losses' = losses + 1
    /\ call' = [call EXCEPT ![c] = NoCall]
    /\ UNCHANGED <<catalog, queue, run, sweep, changes, faults,
                   sweeps>>

-----------------------------------------------------------------------------
(* The enrich queue.  boss.upsert() is two statements: one finds a waiting  *)
(* job of the key (created, or in its retry delay), the other inserts one.  *)

\* Mutant: the upsert also reuses a job that is running already.
Waiting_AlsoActive(v) == created[v] \/ retry[v] > 0 \/ active[v] > 0

Waiting(v) == created[v] \/ retry[v] > 0

Return(c) == IF c \in Handlers
               THEN run' = [run EXCEPT ![c].pc = "done"]
               ELSE UNCHANGED run

UpsertFinds(c) ==
    /\ call[c].st = "find"
    /\ IF Waiting(call[c].ver)
         THEN call' = [call EXCEPT ![c] = NoCall] /\ Return(c)
         ELSE call' = [call EXCEPT ![c].st = "insert"] /\ UNCHANGED run
    /\ UNCHANGED <<catalog, queue, sweep, bounds>>

UpsertInserts(c) ==
    /\ call[c].st = "insert"
    /\ created' = [created EXCEPT ![call[c].ver] = TRUE]
    /\ call' = [call EXCEPT ![c] = NoCall]
    /\ Return(c)
    /\ UNCHANGED <<catalog, retry, active, dead, sweep, bounds>>

Started(v, d) == [pc |-> "read", ver |-> v, name |-> NoName, dead |-> d,
                  aborted |-> FALSE]

\* An ordinary run: pg-boss hands out a created job, or one whose delay ended,
\* while no job of its key is active.  active[v] counts the job's runs.
Fetch(h, v) ==
    /\ run[h].pc = "idle"
    /\ active[v] = 0
    /\ \/ /\ created[v]
          /\ created' = [created EXCEPT ![v] = FALSE]
          /\ active' = [active EXCEPT ![v] = 1]
          /\ UNCHANGED retry
       \/ /\ retry[v] > 0
          /\ active' = [active EXCEPT ![v] = retry[v] + 1]
          /\ retry' = [retry EXCEPT ![v] = 0]
          /\ UNCHANGED created
    /\ run' = [run EXCEPT ![h] = Started(v, 0)]
    /\ UNCHANGED <<catalog, dead, call, sweep, bounds>>

\* A salvage run of a dead letter: its first run, or its only retry.
FetchDead(h, d) ==
    /\ run[h].pc = "idle"
    /\ dead[d].st \in {"created", "retry"}
    /\ dead' = [dead EXCEPT ![d].st = IF @ = "created" THEN "active"
                                                       ELSE "active2"]
    /\ run' = [run EXCEPT ![h] = Started(dead[d].ver, d)]
    /\ UNCHANGED <<catalog, created, retry, active, call, sweep, bounds>>

Salvaging(h) == run[h].dead /= 0
Owns(h, v)   == /\ run[h].pc /= "idle" /\ ~run[h].aborted
                /\ ~Salvaging(h) /\ run[h].ver = v
OwnsDead(h, d) == /\ run[h].pc /= "idle" /\ ~run[h].aborted
                  /\ run[h].dead = d

\* Mutant: one run too many is allowed.
FailJob_OffByOne(v) ==
    /\ active' = [active EXCEPT ![v] = 0]
    /\ retry' = [retry EXCEPT ![v] = active[v]]
    /\ UNCHANGED <<created, dead>>

\* pg-boss fails the active job of v: a retry while it has runs left and no
\* other retry of its key waits, else a dead letter.
FailJob(v) ==
    /\ active' = [active EXCEPT ![v] = 0]
    /\ IF active[v] <= RetryLimit /\ retry[v] = 0
         THEN /\ retry' = [retry EXCEPT ![v] = active[v]]
              /\ UNCHANGED dead
         ELSE /\ \E d \in DeadIds :
                   /\ dead[d].st = "free"
                   /\ dead' = [dead EXCEPT ![d] =
                                 [ver |-> v, st |-> "created"]]
              /\ UNCHANGED retry
    /\ UNCHANGED created

\* The same of a salvage run: one retry, then it has failed for good.
FailDead(d) ==
    /\ dead' = [dead EXCEPT ![d].st = IF @ = "active" THEN "retry"
                                                      ELSE "failed"]
    /\ UNCHANGED <<created, retry, active>>

FailJobOf(h) == IF Salvaging(h) THEN FailDead(run[h].dead)
                                ELSE FailJob(run[h].ver)

\* The supervisor puts back a job whose handler died with its process.
Supervise(v) ==
    /\ active[v] > 0
    /\ \A h \in Handlers : ~Owns(h, v)
    /\ FailJob(v)
    /\ UNCHANGED <<catalog, actors, bounds>>

SuperviseDead(d) ==
    /\ dead[d].st \in {"active", "active2"}
    /\ \A h \in Handlers : ~OwnsDead(h, d)
    /\ FailDead(d)
    /\ UNCHANGED <<catalog, actors, bounds>>

\* pg-boss's retention drops a dead letter; an operator retries a failed one.
\* Dropping one that failed loses a job, as LoseEnqueue() does.
PruneDead(d) ==
    /\ \/ dead[d].st = "completed" /\ UNCHANGED losses
       \/ /\ dead[d].st = "failed"
          /\ losses < MaxLosses
          /\ losses' = losses + 1
    /\ dead' = [dead EXCEPT ![d] = [ver |-> 0, st |-> "free"]]
    /\ UNCHANGED <<catalog, created, retry, active, actors, changes, faults,
                   sweeps>>

OperatorRetries(d) ==
    /\ dead[d].st = "failed"
    /\ dead' = [dead EXCEPT ![d].st = "retry"]
    /\ UNCHANGED <<catalog, created, retry, active, actors, bounds>>

-----------------------------------------------------------------------------
(* One run of the pipeline: enrichVersion(), and lockCurrentVersion() and   *)
(* markProcessed() under it.  A run whose lease expired goes on until the   *)
(* next time it looks at its signal.                                        *)

Goto(h, pc) == run' = [run EXCEPT ![h].pc = pc]

\* From one step to the next: throwIfAborted() ends a run whose job pg-boss
\* failed already, when its lease ended.  Nothing is awaited between the end of
\* a step and this look at the signal.
GoOn(h, pc) == IF run[h].aborted THEN run' = [run EXCEPT ![h] = Idle]
                                 ELSE Goto(h, pc)

\* Mutant: the version is compared, the name is not.
Standing_IgnoresName(h) == IF run[h].ver /= seq THEN "superseded"
                                                ELSE "current"

Standing(h) == IF run[h].ver /= seq        THEN "superseded"
               ELSE IF run[h].name /= name THEN "renamed"
                                           ELSE "current"

AfterStale(h) == IF Standing(h) = "superseded" THEN "supersede" ELSE "requeue"

ReadTarget(h) ==
    /\ run[h].pc = "read"
    /\ IF run[h].ver /= seq   THEN Goto(h, "supersede")
       ELSE IF run[h].aborted THEN run' = [run EXCEPT ![h] = Idle]
       ELSE run' = [run EXCEPT ![h].pc = "flag", ![h].name = name]
    /\ UNCHANGED <<catalog, queue, call, sweep, bounds>>

\* context.write() of a core step: nothing is written for a stale target.
CoreStep(h) ==
    /\ run[h].pc \in CoreSteps
    /\ IF Standing(h) = "current"
         THEN /\ applied' = [applied EXCEPT ![run[h].pc] =
                               [ver |-> run[h].ver, name |-> run[h].name]]
              /\ GoOn(h, IF run[h].pc = "flag" THEN "tags" ELSE "summarize")
         ELSE /\ Goto(h, AfterStale(h))
              /\ UNCHANGED applied
    /\ UNCHANGED <<seq, name, hadNames, processed, superseded, card, queue,
                   call, sweep, bounds>>

\* Mutant: the tenant's default exposure decides, not the tags on the file.
MayProcess_TenantDefault == TRUE

\* enrichmentExposure() against the providers: what the rule tags on the file
\* say now, whatever run put them there.
MayProcess == applied["tags"].name \notin Sensitive

\* The model step's gate: a salvage run gives up, an exposure that keeps the
\* content in withholds it, a version summarized already needs nothing.
GateSummarize(h) ==
    /\ run[h].pc = "summarize"
    /\ IF Salvaging(h)       THEN Goto(h, "giveUp")
       ELSE IF ~MayProcess   THEN Goto(h, "withheld")
       ELSE IF card[run[h].ver] = "summarized" THEN GoOn(h, "mark")
                                               ELSE Goto(h, "send")
    /\ UNCHANGED <<catalog, queue, call, sweep, bounds>>

WriteCard(h, c) ==
    /\ IF Standing(h) = "current"
         THEN card' = [card EXCEPT ![run[h].ver] = c] /\ GoOn(h, "mark")
         ELSE Goto(h, AfterStale(h)) /\ UNCHANGED card
    /\ UNCHANGED <<seq, name, hadNames, processed, superseded, applied, queue,
                   call, sweep, bounds>>

CardNow(h) == card[run[h].ver]

\* Mutant: the card is not read again under the lock.
GiveUp_Overwrites(h) ==
    /\ run[h].pc = "giveUp"
    /\ WriteCard(h, "retriable")

\* The summarize step's giveUp(): no card written meanwhile is overwritten.
GiveUp(h) ==
    /\ run[h].pc = "giveUp"
    /\ WriteCard(h, IF CardNow(h) = "none" THEN "retriable" ELSE CardNow(h))

\* noProviderNow(): a card that waits for another try won't get one; any other
\* is left, without taking the lock.
Withheld(h) ==
    /\ run[h].pc = "withheld"
    /\ IF CardNow(h) = "retriable"
         THEN WriteCard(h, "settled")
         ELSE /\ GoOn(h, "mark")
              /\ UNCHANGED <<catalog, queue, call, sweep, bounds>>

\* The client asks the exposure once more right before it sends.
Send(h) ==
    /\ run[h].pc = "send"
    /\ Goto(h, IF MayProcess THEN "answer" ELSE "withheld")
    /\ UNCHANGED <<catalog, queue, call, sweep, bounds>>

\* A step that ends without a summary and without failing the job: the budget
\* is spent or the provider down on the last attempt ("retriable"), nothing
\* to summarize or nothing usable came back ("settled").
SkipSummary(h) ==
    /\ run[h].pc \in {"send", "answer"}
    /\ \E c \in {"retriable", "settled"} : WriteCard(h, c)

SaveSummary(h) ==
    /\ run[h].pc = "answer"
    /\ WriteCard(h, "summarized")

\* The call to the model carries the job's signal: it throws once the lease ends.
ModelCallAborts(h) ==
    /\ run[h].pc = "answer" /\ run[h].aborted
    /\ run' = [run EXCEPT ![h] = Idle]
    /\ UNCHANGED <<catalog, queue, call, sweep, bounds>>

\* Mutant: marks the version without asking where it stands.
MarkProcessed_Unchecked(h) ==
    /\ run[h].pc = "mark"
    /\ processed' = processed \cup {run[h].ver}
    /\ Goto(h, "done")
    /\ UNCHANGED <<seq, name, hadNames, superseded, applied, card, queue,
                   call, sweep, bounds>>

MarkProcessed(h) ==
    /\ run[h].pc = "mark"
    /\ IF Standing(h) = "current" /\ run[h].ver \notin processed
         THEN processed' = processed \cup {run[h].ver} /\ Goto(h, "done")
         ELSE Goto(h, "standing") /\ UNCHANGED processed
    /\ UNCHANGED <<seq, name, hadNames, superseded, applied, card, queue,
                   call, sweep, bounds>>

\* markProcessed() said no: why, read in a transaction of its own.
AskStanding(h) ==
    /\ run[h].pc = "standing"
    /\ Goto(h, IF Standing(h) = "current" THEN "done" ELSE AfterStale(h))
    /\ UNCHANGED <<catalog, queue, call, sweep, bounds>>

\* Mutant: gives up on a version that was processed before it was replaced.
MarkSuperseded_EvenProcessed(h) ==
    /\ run[h].pc = "supersede"
    /\ superseded' = superseded \cup {run[h].ver}
    /\ Goto(h, "done")
    /\ UNCHANGED <<seq, name, hadNames, processed, applied, card, queue,
                   call, sweep, bounds>>

MarkSuperseded(h) ==
    /\ run[h].pc = "supersede"
    /\ superseded' = IF run[h].ver /= seq /\ run[h].ver \notin processed
                       THEN superseded \cup {run[h].ver} ELSE superseded
    /\ Goto(h, "done")
    /\ UNCHANGED <<seq, name, hadNames, processed, applied, card, queue,
                   call, sweep, bounds>>

Requeue(h) ==
    /\ run[h].pc = "requeue"
    /\ Enqueue(h, run[h].ver)
    /\ Goto(h, "calling")
    /\ UNCHANGED <<catalog, queue, sweep, bounds>>

\* The handler returns: its job is complete, unless pg-boss gave it up before.
Complete(h) ==
    /\ run[h].pc = "done"
    /\ IF run[h].aborted
         THEN UNCHANGED queue
         ELSE IF Salvaging(h)
           THEN /\ dead' = [dead EXCEPT ![run[h].dead].st = "completed"]
                /\ UNCHANGED <<created, retry, active>>
           ELSE /\ active' = [active EXCEPT ![run[h].ver] = 0]
                /\ UNCHANGED <<created, retry, dead>>
    /\ run' = [run EXCEPT ![h] = Idle]
    /\ UNCHANGED <<catalog, call, sweep, bounds>>

Fault == faults < MaxFaults /\ faults' = faults + 1

\* A step throws: extraction, the rules, the model, the database.
StepFails(h) ==
    /\ Fault
    /\ run[h].pc \in Pcs \ {"idle", "done"}
    /\ ~run[h].aborted
    /\ FailJobOf(h)
    /\ run' = [run EXCEPT ![h] = Idle]
    /\ call' = [call EXCEPT ![h] = NoCall]
    /\ UNCHANGED <<catalog, sweep, changes, losses,
                   sweeps>>

\* The lease ends (or the worker stops) under a handler that still runs.
LeaseEnds(h) ==
    /\ Fault
    /\ run[h].pc /= "idle" /\ ~run[h].aborted
    /\ FailJobOf(h)
    /\ run' = [run EXCEPT ![h].aborted = TRUE]
    /\ UNCHANGED <<catalog, call, sweep, changes, losses,
                   sweeps>>

\* The worker process dies: the job stays active until Supervise().
HandlerCrashes(h) ==
    /\ Fault
    /\ run[h].pc /= "idle"
    /\ run' = [run EXCEPT ![h] = Idle]
    /\ call' = [call EXCEPT ![h] = NoCall]
    /\ UNCHANGED <<catalog, queue, sweep, changes, losses,
                   sweeps>>

-----------------------------------------------------------------------------
(* Maintenance: the sweep reads the dead letters, then the versions left    *)
(* unprocessed; the budget retry enqueues the summaries another try cures.  *)

DeadLettered == {dead[d].ver : d \in {e \in DeadIds : dead[e].st /= "free"}}

\* The next pass starts after the one before it ended.
NewPass ==
    /\ sweep.st = "idle" /\ call[Sweeper].st = "none"
    /\ IF MaxSweeps = 0 THEN UNCHANGED sweeps
                        ELSE sweeps < MaxSweeps /\ sweeps' = sweeps + 1

SweepReadsDead ==
    /\ NewPass
    /\ sweep' = [st |-> "scan", dead |-> DeadLettered]
    /\ UNCHANGED <<catalog, queue, run, call, changes, faults, losses>>

Unfinished == (1..seq) \ (processed \cup superseded)

\* Mutant: no version of the object at or after it, instead of after it.
Sweepable_NoneAtOrAfter == {v \in Unfinished : ~\E u \in 1..seq : u >= v}

\* Unprocessed, not given up on, and no later version of the object.
Sweepable == {v \in Unfinished : ~\E u \in 1..seq : u > v}

SweepScans ==
    /\ sweep.st = "scan"
    /\ sweep' = [st |-> "idle", dead |-> {}]
    /\ \/ \E v \in Sweepable \ sweep.dead : Enqueue(Sweeper, v)
       \/ Sweepable \subseteq sweep.dead /\ UNCHANGED call
    /\ UNCHANGED <<catalog, queue, run, bounds>>

Resummarize ==
    /\ NewPass
    /\ seq > 0
    /\ card[seq] = "retriable"
    /\ Enqueue(Sweeper, seq)
    /\ UNCHANGED <<catalog, queue, run, sweep, changes, faults, losses>>

-----------------------------------------------------------------------------

Pipeline(h) ==
    \/ ReadTarget(h) \/ CoreStep(h) \/ GateSummarize(h)
    \/ GiveUp(h) \/ Withheld(h) \/ Send(h)
    \/ SkipSummary(h) \/ SaveSummary(h) \/ ModelCallAborts(h)
    \/ MarkProcessed(h) \/ AskStanding(h) \/ MarkSuperseded(h)
    \/ Requeue(h) \/ Complete(h)

Next ==
    \/ \E c \in Ingesters, n \in Names, isNew \in BOOLEAN : Ingest(c, n, isNew)
    \/ \E c \in Ingesters : LoseEnqueue(c)
    \/ \E c \in Callers : UpsertFinds(c) \/ UpsertInserts(c)
    \/ \E h \in Handlers, v \in Versions : Fetch(h, v)
    \/ \E h \in Handlers, d \in DeadIds : FetchDead(h, d)
    \/ \E h \in Handlers : Pipeline(h)
    \/ \E h \in Handlers : StepFails(h) \/ LeaseEnds(h) \/ HandlerCrashes(h)
    \/ \E v \in Versions : Supervise(v)
    \/ \E d \in DeadIds : SuperviseDead(d) \/ PruneDead(d) \/ OperatorRetries(d)
    \/ SweepReadsDead \/ SweepScans \/ Resummarize

Spec == Init /\ [][Next]_vars

\* Workers, the supervisor, retention and the maintenance cron keep running.
Fairness ==
    /\ \A c \in Callers : WF_vars(UpsertFinds(c) \/ UpsertInserts(c))
    /\ \A h \in Handlers : /\ WF_vars(Pipeline(h))
    /\ \A v \in Versions : /\ SF_vars(\E h \in Handlers : Fetch(h, v))
                           /\ WF_vars(Supervise(v))
    /\ \A d \in DeadIds : /\ SF_vars(\E h \in Handlers : FetchDead(h, d))
                          /\ WF_vars(SuperviseDead(d))
                          /\ WF_vars(PruneDead(d))
    /\ WF_vars(SweepReadsDead) /\ WF_vars(SweepScans)

FairSpec == Spec /\ Fairness
-----------------------------------------------------------------------------
(* What enrichment promises. *)

\* A file whose current version is processed (non-readers see what its levels
\* allow) carries the injection flag and the rule tags of that version under
\* its present name: no late run of an older name or version wrote after them
\* (markProcessed(), lockCurrentVersion()).
ProcessedMeansEnriched ==
    seq \in processed =>
        \A s \in CoreSteps : applied[s] = [ver |-> seq, name |-> name]

\* A version's content is with a model, on behalf of a run that read the file
\* as it is, only if the rule tags of the file's name allow it: the exposure a
\* run asks is never the one an older name left on the file.
SendsOnlyWhatTheNameAllows ==
    \A h \in Handlers :
        /\ run[h].pc = "answer"
        /\ run[h].ver = seq /\ run[h].name = name
        => name \notin Sensitive

\* A version given up on is neither current (it would be hidden for good, the
\* sweep passes it over) nor one that was processed.
SupersededIsOver ==
    /\ superseded \cap processed = {}
    /\ \A v \in superseded : v < seq

HeldForOperator(v) == \E d \in DeadIds : dead[d] = [ver |-> v, st |-> "failed"]

\* Somebody still has to take version v up, or an operator was left to.
InHand(v) ==
    \/ \E c \in Callers : call[c].st /= "none" /\ call[c].ver = v
    \/ Waiting(v) \/ active[v] > 0
    \/ \E d \in DeadIds : dead[d].ver = v /\ dead[d].st /= "completed"

\* Unless an enqueue was lost, a hidden current version always has a job that
\* will take it up, however enqueues, renames, retries and dead letters meet:
\* the upsert reuses only a job that has not read the file yet.
NothingOrphaned ==
    losses = 0 /\ seq > 0 /\ seq \notin processed => InHand(seq)

\* A salvage run never replaces a summary an ordinary run saved meanwhile.
SalvageKeepsSummaries ==
    [][\A h \in Handlers : Salvaging(h) /\ run'[h] /= run[h] =>
          \A v \in Versions :
             card[v] = "summarized" => card'[v] = "summarized"]_vars

\* A file does not stay hidden for good: its current version is processed in
\* the end, or its dead letter waits for an operator, also when the enqueue
\* after its ingest was lost (the sweep brings it back).
EndsUpProcessed == seq > 0 ~> (seq \in processed \/ HeldForOperator(seq))

\* The promise to a reader, PublishedFile's, kept by the whole machinery.
DecidedFrom == IF applied["flag"] = applied["tags"] THEN applied["tags"]
                                                    ELSE Unstamped
Published == INSTANCE PublishedFile
               WITH Unknown <- Unstamped,
                    current <- [ver |-> seq, name |-> name],
                    decided <- DecidedFrom,
                    shown   <- seq \in processed
PublishesOnlyWhatItDecided == Published!Spec
=============================================================================
