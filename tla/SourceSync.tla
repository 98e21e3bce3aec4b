----------------------------- MODULE SourceSync -----------------------------
(***************************************************************************)
(* The sync of one source into the catalog: the sync queue's runs, the     *)
(* checkpoints they save in source_syncs, the reconcile after a crawl and  *)
(* its guard, and what an admin does about them (core/jobs).               *)
(*                                                                         *)
(* The connector is external and keeps the SDK's contract: a crawl lists   *)
(* the items in order, a cursor covers every change made since the crawl   *)
(* or delta began to look, a token it cannot use is answered with resync.  *)
(* A revision stands for an item's eTag and content, 0 for no item.  Only  *)
(* whether an item was synced since reconcile_from is kept of its time.    *)
(* Grants, counts, logs and the cap on kept skips are left out; enqueueing *)
(* is Enrichment's.                                                        *)
(***************************************************************************)
EXTENDS Naturals, Sequences, FiniteSets, FiniteSetsExt

CONSTANTS
    NumItems,       \* items, in the order a crawl lists them
    Runners,        \* job handlers that may run the source's sync
    Connectors,     \* what a connector may offer: changes since a cursor
                    \* (delta), what the source is (identity)
    AdminAnytime,   \* an admin may act while a run is going on
    EarlyStops,     \* a crawl may be cut short before its first checkpoint
    FreePass,       \* tooManyGone(): removals that always pass (2)
    MinItems,       \* reconcileGuard.minItems (50)
    BatchSize,      \* RECONCILE_BATCH
    MaxChanges,     \* bound: changes of the source
    MaxFaults,      \* bound: skips, failures, crashes, expired leases
    MaxActs,        \* bound: what admins do
    MaxMoves        \* bound: times the disk goes away or comes back

NoRunner == "none"

ASSUME SyncAssumption ==
    /\ NumItems \in Nat /\ FreePass \in Nat /\ MinItems \in Nat
    /\ BatchSize \in Nat \ {0}
    /\ MaxChanges \in Nat /\ MaxFaults \in Nat
    /\ MaxActs \in Nat /\ MaxMoves \in Nat
    /\ NoRunner \notin Runners
    /\ Connectors \subseteq [delta : BOOLEAN, identity : BOOLEAN]
    /\ AdminAnytime \in BOOLEAN /\ EarlyStops \in BOOLEAN

VARIABLES
    \* the source: its items, the changes made to them, whether its disk is
    \* there (an empty folder is, when it is not), its connector
    src, log, mounted, connector,
    \* the catalog: source_refs and objects, and which were synced since
    \* reconcile_from
    cat, fresh,
    \* source_skips, and which of them were noted since reconcile_from
    skips, skipsMet,
    \* source_syncs
    row,
    \* the sync queue: who holds the job; the runs
    lease, run,
    \* what the bounds count
    faults, acts, moves

source == <<src, log, mounted, connector>>
items  == <<cat, fresh>>
left   == <<skips, skipsMet>>
bounds == <<faults, acts, moves>>
vars   == <<source, items, left, row, lease, run, bounds>>

Items     == 1..NumItems
Revisions == 0..MaxChanges + 1
Tokens    == [at : 0..NumItems, pos : 0..MaxChanges, disk : BOOLEAN]
Pcs       == {"idle", "read", "identity", "loop", "stream", "apply",
              "count", "hold", "stale", "remove", "finish", "record"}
Runs      == [pc : Pcs, phase : {"crawl", "delta"}, token : Tokens,
              identity : {"none", "disk", "empty"},
              from : BOOLEAN, reconciling : BOOLEAN, resynced : BOOLEAN,
              item : 0..NumItems, rev : Revisions,
              left : SUBSET Items, cleared : SUBSET Items,
              counted : SUBSET Items, batch : SUBSET Items,
              last : BOOLEAN, status : {"ok", "failed"}, aborted : BOOLEAN]

NoToken == [at |-> 0, pos |-> 0, disk |-> TRUE]
Idle    == [pc |-> "idle", phase |-> "crawl", token |-> NoToken,
            identity |-> "none", from |-> FALSE, reconciling |-> FALSE,
            resynced |-> FALSE, item |-> 0, rev |-> 0, left |-> {},
            cleared |-> {}, counted |-> {}, batch |-> {}, last |-> FALSE,
            status |-> "ok", aborted |-> FALSE]

TypeOK ==
    /\ src \in [Items -> Revisions]
    /\ log \in Seq(Items) /\ Len(log) <= MaxChanges
    /\ mounted \in BOOLEAN /\ connector \in Connectors
    /\ cat \in [Items -> [rev : Revisions, live : BOOLEAN]]
    /\ fresh \subseteq Items
    /\ skips \subseteq Items /\ skipsMet \subseteq skips
    /\ row \in [phase : {"crawl", "delta"}, token : Tokens, from : BOOLEAN,
                held : 0..NumItems, confirmed : 0..NumItems,
                deferred : BOOLEAN, stopped : BOOLEAN,
                identity : {"none", "disk", "empty"}]
    /\ lease \in Runners \cup {NoRunner}
    /\ run \in [Runners -> Runs]
    /\ faults \in 0..MaxFaults /\ acts \in 0..MaxActs
    /\ moves \in 0..MaxMoves

\* ensureSourceSync(): a new row starts with a crawl that reconciles, over
\* items the catalog may have already (the source's state was lost).
Init ==
    /\ src \in [Items -> {0, 1}] /\ log = <<>> /\ mounted = TRUE
    /\ connector \in Connectors
    /\ cat \in [Items -> {[rev |-> 0, live |-> FALSE],
                          [rev |-> 1, live |-> TRUE]}]
    /\ fresh = {} /\ skips = {} /\ skipsMet = {}
    /\ row = [phase |-> "crawl", token |-> NoToken, from |-> TRUE,
              held |-> 0, confirmed |-> 0, deferred |-> FALSE,
              stopped |-> FALSE, identity |-> "none"]
    /\ lease = NoRunner
    /\ run = [r \in Runners |-> Idle]
    /\ faults = 0 /\ acts = 0 /\ moves = 0

Fault   == faults < MaxFaults /\ faults' = faults + 1
Running == \E r \in Runners : run[r].pc /= "idle"

-----------------------------------------------------------------------------
(* The source, by itself. *)

\* What a listing shows where disk d is: an empty folder shows nothing.
There(i, d) == IF d THEN src[i] ELSE 0

Identity(d) == IF d THEN "disk" ELSE "empty"

\* An item is made or changed (a new revision), or deleted.
ChangeItem(i) ==
    /\ mounted
    /\ Len(log) < MaxChanges
    /\ log' = Append(log, i)
    /\ \/ src' = [src EXCEPT ![i] = Len(log) + 2]
       \/ src[i] /= 0 /\ src' = [src EXCEPT ![i] = 0]
    /\ UNCHANGED <<mounted, connector, items, left, row, lease, run, bounds>>

\* The disk goes away, an empty folder in its place, or comes back.  During a
\* run, what the connector would answer is not the contract's to say.
MoveDisk ==
    /\ ~Running
    /\ moves < MaxMoves
    /\ moves' = moves + 1
    /\ mounted' = ~mounted
    /\ UNCHANGED <<src, log, connector, items, left, row, lease, run, faults,
                   acts>>

-----------------------------------------------------------------------------
(* The admin: each is one transaction on the source's row. *)

Acts ==
    /\ AdminAnytime \/ ~Running
    /\ acts < MaxActs
    /\ acts' = acts + 1

\* A crawl from the beginning, as a row begins it: nothing is synced since.
CrawlAnew(w) == [w EXCEPT !.phase = "crawl", !.token = NoToken, !.from = TRUE]

\* Mutant: what was held stays held.
Decided_KeepsHeld(w) == [w EXCEPT !.confirmed = 0, !.deferred = FALSE,
                                  !.stopped = FALSE]

Decided(w) == [w EXCEPT !.held = 0, !.confirmed = 0, !.deferred = FALSE,
                        !.stopped = FALSE]

resumeSource ==
    /\ Acts
    /\ row.stopped
    /\ row' = [row EXCEPT !.stopped = FALSE]
    /\ UNCHANGED <<source, items, left, lease, run, faults, moves>>

confirmReconcile ==
    /\ Acts
    /\ row.held /= 0
    /\ row' = [row EXCEPT !.confirmed = row.held, !.stopped = FALSE]
    /\ UNCHANGED <<source, items, left, lease, run, faults, moves>>

discardReconcile ==
    /\ Acts
    /\ row.held /= 0 \/ row.deferred
    /\ row' = Decided(CrawlAnew(row))
    /\ fresh' = {} /\ skipsMet' = {}
    /\ UNCHANGED <<source, cat, skips, lease, run, faults, moves>>

acceptSourceIdentity ==
    /\ Acts
    /\ row' = [Decided(CrawlAnew(row)) EXCEPT !.identity = "none"]
    /\ fresh' = {} /\ skipsMet' = {}
    /\ UNCHANGED <<source, cat, skips, lease, run, faults, moves>>

Admin == \/ resumeSource \/ confirmReconcile
         \/ discardReconcile \/ acceptSourceIdentity

-----------------------------------------------------------------------------
(* A run: the job, what it reads first, how it ends. *)

At(r, pc)     == run[r].pc = pc
Go(r, pc)     == run' = [run EXCEPT ![r].pc = pc]
Set(r, state) == run' = [run EXCEPT ![r] = state]
End(r, status) == Set(r, [run[r] EXCEPT !.pc = "record", !.status = status])

\* A job of the source is handed out, one at a time; a stopped source's run
\* ends at once (and is left out).
Begin(r) ==
    /\ lease = NoRunner /\ At(r, "idle")
    /\ ~row.stopped
    /\ lease' = r
    /\ Set(r, [Idle EXCEPT !.pc = "read"])
    /\ UNCHANGED <<source, items, left, row, bounds>>

\* Where the source's sync stands, read once.
ReadState(r) ==
    /\ At(r, "read")
    /\ Set(r, [run[r] EXCEPT
                 !.pc = "identity", !.phase = row.phase, !.token = row.token,
                 !.from = row.from, !.identity = row.identity,
                 !.reconciling = row.phase = "crawl" /\ row.from])
    /\ UNCHANGED <<source, items, left, row, lease, bounds>>

\* Mutant: a reconcile that was cut short is not finished by the next run.
Settled_Never(r) == "loop"

Settled(r) == IF run[r].phase = "delta" /\ run[r].from THEN "count" ELSE "loop"

CheckIdentity(r) ==
    /\ At(r, "identity")
    /\ IF connector.identity /\ run[r].identity \notin {"none", Identity(mounted)}
         THEN End(r, "failed")
         ELSE Go(r, Settled(r))
    /\ row' = IF connector.identity /\ run[r].identity = "none"
                THEN [row EXCEPT !.identity = Identity(mounted)]
                ELSE row
    /\ UNCHANGED <<source, items, left, lease, bounds>>

\* recordSyncRun(), then the job is over.
Record(r) ==
    /\ At(r, "record")
    /\ row' = [row EXCEPT !.stopped = row.stopped \/ run[r].status = "failed"]
    /\ lease' = IF lease = r THEN NoRunner ELSE lease
    /\ Set(r, Idle)
    /\ UNCHANGED <<source, items, left, bounds>>

\* A crawl from the beginning goes on that has no checkpoint yet.
Early(r)      == /\ run[r].phase = "crawl" /\ run[r].pc \in {"stream", "apply"}
                 /\ row.phase = "crawl" /\ row.token.at = 0
MayBreakOff(r) == EarlyStops \/ ~Early(r)

\* The process dies: pg-boss gives the job to another, or back to this one.
Crash(r) ==
    /\ ~At(r, "idle") /\ Fault /\ MayBreakOff(r)
    /\ lease' = IF lease = r THEN NoRunner ELSE lease
    /\ Set(r, Idle)
    /\ UNCHANGED <<source, items, left, row, acts, moves>>

\* The run outlives its lease: its signal aborts and the job may be handed out
\* again, while the step it is in goes on.
Expire(r) ==
    /\ lease = r /\ Fault /\ MayBreakOff(r)
    /\ lease' = NoRunner
    /\ run' = [run EXCEPT ![r].aborted = TRUE]
    /\ UNCHANGED <<source, items, left, row, acts, moves>>

\* The connector or the database fails, the owner is not known, an enqueue
\* keeps failing: retry or failed, by the code.
Fail(r) ==
    /\ run[r].pc \in {"read", "identity", "loop", "stream", "apply"}
    /\ Fault /\ MayBreakOff(r)
    /\ \E status \in {"ok", "failed"} : End(r, status)
    /\ UNCHANGED <<source, items, left, row, lease, acts, moves>>

\* The signal is looked at before each event and each batch.
Cancel(r) ==
    /\ run[r].aborted
    /\ run[r].pc \in {"stream", "stale"}
    /\ End(r, "ok")
    /\ UNCHANGED <<source, items, left, row, lease, bounds>>

-----------------------------------------------------------------------------
(* A run: the crawl or the delta it follows, event by event. *)

Listening(r) == At(r, "stream") /\ ~run[r].aborted

\* restart(): a crawl from the beginning, whose items are all recorded.
Restart(r, again) ==
    /\ row' = CrawlAnew(row)
    /\ fresh' = {} /\ skipsMet' = {}
    /\ Set(r, [run[r] EXCEPT
                 !.pc = "loop", !.phase = "crawl", !.token = NoToken,
                 !.reconciling = TRUE, !.resynced = again,
                 !.left = {}, !.cleared = {}])
    /\ UNCHANGED <<cat, skips>>

Resumes(r)  == run[r].phase = "delta" \/ run[r].token.at /= 0
Unusable(r) == Resumes(r) /\ run[r].token.disk /= mounted

\* Without delta, every sync crawls it all again.
CrawlAgain(r) ==
    /\ At(r, "loop")
    /\ run[r].phase = "delta" /\ ~connector.delta
    /\ Restart(r, run[r].resynced)
    /\ UNCHANGED <<source, lease, bounds>>

StartStream(r) ==
    /\ At(r, "loop")
    /\ run[r].phase = "crawl" \/ connector.delta
    /\ ~Unusable(r)
    /\ Set(r, [run[r] EXCEPT
                 !.pc = "stream",
                 !.token = IF Resumes(r) THEN run[r].token
                           ELSE [at |-> 0, pos |-> Len(log), disk |-> mounted]])
    /\ UNCHANGED <<source, items, left, row, lease, bounds>>

\* The connector asks to crawl again: once in a run.
Resync(r) ==
    /\ \/ At(r, "loop") /\ (run[r].phase = "crawl" \/ connector.delta)
          /\ Unusable(r) /\ UNCHANGED faults
       \/ At(r, "stream") /\ Resumes(r) /\ Fault
    /\ IF run[r].resynced
         THEN MayBreakOff(r) /\ End(r, "ok") /\ UNCHANGED <<items, left, row>>
         ELSE Restart(r, TRUE)
    /\ UNCHANGED <<source, lease, acts, moves>>

ToList(r) == {i \in Items : i > run[r].token.at /\ There(i, mounted) /= 0}

\* A crawl's next item, as the source has it now.
ListItem(r) ==
    /\ Listening(r) /\ run[r].phase = "crawl"
    /\ ToList(r) /= {}
    /\ LET i == Min(ToList(r))
       IN  Set(r, [run[r] EXCEPT !.pc = "apply", !.token.at = i,
                                 !.item = i, !.rev = There(i, mounted)])
    /\ UNCHANGED <<source, items, left, row, lease, bounds>>

\* Mutant: the token is past one event more than was yielded.
DeltaEvent_PastIt(r) ==
    /\ Listening(r) /\ run[r].phase = "delta"
    /\ run[r].token.pos < Len(log)
    /\ LET k == run[r].token.pos + 1
       IN  Set(r, [run[r] EXCEPT
                     !.pc = "apply", !.token.pos = k + 1,
                     !.item = log[k], !.rev = There(log[k], mounted)])
    /\ UNCHANGED <<source, items, left, row, lease, bounds>>

\* A delta's next event: what became of an item that changed.
DeltaEvent(r) ==
    /\ Listening(r) /\ run[r].phase = "delta"
    /\ run[r].token.pos < Len(log)
    /\ LET k == run[r].token.pos + 1
       IN  Set(r, [run[r] EXCEPT
                     !.pc = "apply", !.token.pos = k,
                     !.item = log[k], !.rev = There(log[k], mounted)])
    /\ UNCHANGED <<source, items, left, row, lease, bounds>>

\* A place the crawl cannot read: the items up to i, which it does not name.
Unreadable(r) ==
    /\ Listening(r) /\ run[r].phase = "crawl" /\ Fault
    /\ \E i \in Items :
         /\ i > run[r].token.at
         /\ Set(r, [run[r] EXCEPT !.token.at = i, !.reconciling = FALSE])
    /\ row' = IF run[r].reconciling
                THEN [row EXCEPT !.from = FALSE, !.deferred = TRUE]
                ELSE row
    /\ UNCHANGED <<source, items, left, lease, acts, moves>>

\* The event's item is recorded or gone (cleared()), or cannot be recorded.
Cleared(r, i) == Set(r, [run[r] EXCEPT !.pc = "stream", !.left = @ \ {i},
                                       !.cleared = @ \cup {i}])
LeftOut(r, i) == Set(r, [run[r] EXCEPT !.pc = "stream", !.left = @ \cup {i},
                                       !.cleared = @ \ {i}])

Unchanged(r) == LET i == run[r].item
                IN  cat[i].live /\ cat[i].rev = run[r].rev
                    /\ ~run[r].reconciling

SkipUnchanged(r) ==
    /\ At(r, "apply") /\ run[r].rev /= 0
    /\ Unchanged(r)
    /\ Cleared(r, run[r].item)
    /\ UNCHANGED <<source, items, left, row, lease, bounds>>

\* ingest(): its content had been read when the source changed it again, or not.
\* Its bytes, its permissions and its facts go with it, in one transaction, and
\* enrichment is asked for once that is committed.
RecordItem(r) ==
    /\ At(r, "apply") /\ run[r].rev /= 0
    /\ ~Unchanged(r)
    /\ LET i == run[r].item
       IN  /\ cat' = [cat EXCEPT ![i] = [rev |-> run[r].rev, live |-> TRUE]]
           /\ fresh' = fresh \cup {i}
           /\ Cleared(r, i)
    /\ UNCHANGED <<source, left, row, lease, bounds>>

\* It changed while it was read, or cannot be recorded: seen all the same.
SkipItem(r) ==
    /\ At(r, "apply") /\ run[r].rev /= 0
    /\ LET i == run[r].item
       IN  /\ \/ There(i, mounted) /= run[r].rev /\ ~Unchanged(r)
                 /\ UNCHANGED faults
              \/ Fault
           /\ fresh' = IF run[r].reconciling /\ cat[i].rev /= 0
                         THEN fresh \cup {i} ELSE fresh
           /\ LeftOut(r, i)
    /\ UNCHANGED <<source, cat, left, row, lease, acts, moves>>

removeFromSource(i) == cat' = [cat EXCEPT ![i].live = FALSE]

DeleteItem(r) ==
    /\ At(r, "apply") /\ run[r].rev = 0
    /\ removeFromSource(run[r].item)
    /\ Cleared(r, run[r].item)
    /\ UNCHANGED <<source, fresh, left, row, lease, bounds>>

\* Mutant: what was left out is forgotten with the run.
Save_NoSkips(r, phase, token) ==
    /\ row' = [row EXCEPT !.phase = phase, !.token = token]
    /\ skips' = skips \ run[r].cleared
    /\ skipsMet' = skipsMet \ run[r].cleared

\* save(): the token, and what was left out since the last one.
Save(r, phase, token) ==
    /\ row' = [row EXCEPT !.phase = phase, !.token = token]
    /\ skips' = (skips \ run[r].cleared) \cup run[r].left
    /\ skipsMet' = (skipsMet \ run[r].cleared) \cup run[r].left

Saved(r) == [run[r] EXCEPT !.left = {}, !.cleared = {}]

\* After it, the run goes on, or has used up its budget (partial).
Checkpoint(r) ==
    /\ Listening(r)
    /\ run[r].phase = "crawl" => run[r].token.at > 0
    /\ <<run[r].phase, run[r].token>> /= <<row.phase, row.token>>
    /\ Save(r, run[r].phase, run[r].token)
    /\ \/ Set(r, Saved(r))
       \/ Set(r, [Saved(r) EXCEPT !.pc = "record"])
    /\ UNCHANGED <<source, items, lease, bounds>>

Done(r) ==
    /\ Listening(r)
    /\ IF run[r].phase = "crawl" THEN ToList(r) = {}
                                 ELSE run[r].token.pos = Len(log)
    /\ Save(r, "delta", [run[r].token EXCEPT !.at = 0])
    /\ Set(r, [Saved(r) EXCEPT
                 !.pc = IF run[r].reconciling THEN "count" ELSE "record",
                 !.last = TRUE])
    /\ UNCHANGED <<source, items, lease, bounds>>

-----------------------------------------------------------------------------
(* A run: the reconcile, before the stream or after it. *)

Live  == {i \in Items : cat[i].live}
Stale == IF row.from THEN Live \ fresh ELSE {}
Seen  == IF row.from THEN fresh ELSE {}

tooManyGone(gone, size) ==
    /\ gone > FreePass
    /\ 4 * gone > size
    /\ gone > MinItems \/ 2 * gone >= size

\* Mutant: as many as were confirmed are held again.
Held_FewerOnly(stale) ==
    /\ stale > 0
    /\ Seen = {} \/ tooManyGone(stale, Cardinality(Live))
    /\ ~(row.confirmed /= 0 /\ stale < row.confirmed)

Held(stale) ==
    /\ stale > 0
    /\ Seen = {} \/ tooManyGone(stale, Cardinality(Live))
    /\ ~(row.confirmed /= 0 /\ stale <= row.confirmed)

\* What one batch takes, in the order of the items.
First(n, S) == {i \in S : Cardinality({j \in S : j < i}) < n}

\* Mutant: what is counted is what one batch removes.
Count_OneBatch(r) ==
    /\ At(r, "count")
    /\ LET counted == First(BatchSize, Stale)
       IN  Set(r, [run[r] EXCEPT
                     !.counted = counted,
                     !.pc = IF Held(Cardinality(counted)) THEN "hold"
                                                          ELSE "stale"])
    /\ UNCHANGED <<source, items, left, row, lease, bounds>>

Count(r) ==
    /\ At(r, "count")
    /\ Set(r, [run[r] EXCEPT
                 !.counted = Stale,
                 !.pc = IF Held(Cardinality(Stale)) THEN "hold" ELSE "stale"])
    /\ UNCHANGED <<source, items, left, row, lease, bounds>>

Hold(r) ==
    /\ At(r, "hold")
    /\ row' = [row EXCEPT !.held = Cardinality(run[r].counted)]
    /\ End(r, "failed")
    /\ UNCHANGED <<source, items, left, lease, bounds>>

\* The stale items, read again for each batch.
ReadStale(r) ==
    /\ At(r, "stale") /\ ~run[r].aborted
    /\ Set(r, [run[r] EXCEPT
                 !.batch = First(BatchSize, Stale),
                 !.pc = IF Stale = {} THEN "finish" ELSE "remove"])
    /\ UNCHANGED <<source, items, left, row, lease, bounds>>

RemoveStale(r) ==
    /\ At(r, "remove")
    /\ LET i == Min(run[r].batch)
       IN  /\ removeFromSource(i)
           /\ Set(r, [run[r] EXCEPT
                        !.batch = @ \ {i},
                        !.pc = IF run[r].batch = {i} THEN "stale" ELSE @])
    /\ UNCHANGED <<source, fresh, left, row, lease, bounds>>

\* What the crawl did not meet is no longer left out, and it is over.
Finish(r) ==
    /\ At(r, "finish")
    /\ skips' = IF row.from THEN skipsMet ELSE skips
    /\ row' = [row EXCEPT !.from = FALSE, !.held = 0, !.confirmed = 0,
                          !.deferred = FALSE]
    /\ Set(r, [run[r] EXCEPT !.reconciling = FALSE,
                             !.pc = IF run[r].last THEN "record" ELSE "loop"])
    /\ UNCHANGED <<source, items, skipsMet, lease, bounds>>

-----------------------------------------------------------------------------
Apply(r)     == \/ SkipUnchanged(r) \/ RecordItem(r)
                \/ SkipItem(r) \/ DeleteItem(r)
Follow(r)    == \/ CrawlAgain(r) \/ StartStream(r) \/ Resync(r)
                \/ ListItem(r) \/ DeltaEvent(r) \/ Unreadable(r)
                \/ Apply(r) \/ Checkpoint(r) \/ Done(r)
Reconcile(r) == \/ Count(r) \/ Hold(r) \/ ReadStale(r)
                \/ RemoveStale(r) \/ Finish(r)
runSync(r)   == \/ Begin(r) \/ ReadState(r) \/ CheckIdentity(r)
                \/ Follow(r) \/ Reconcile(r) \/ Cancel(r) \/ Record(r)

Next ==
    \/ \E i \in Items : ChangeItem(i)
    \/ MoveDisk
    \/ Admin
    \/ \E r \in Runners : runSync(r) \/ Fail(r) \/ Crash(r) \/ Expire(r)

Spec == Init /\ [][Next]_vars

\* The schedule keeps sending the source's job and a run goes on with its work.
Fairness == \A r \in Runners : WF_vars(runSync(r))

LiveSpec == Spec /\ Fairness

-----------------------------------------------------------------------------
(* Properties. *)

Mirrors(i, d) == IF There(i, d) = 0
                   THEN ~cat[i].live
                   ELSE cat[i].live /\ cat[i].rev = There(i, d)

Ahead(i) == \E k \in row.token.pos + 1 .. Len(log) : log[k] = i

\* What a saved token is past is not lost, however runs ended: each item is in
\* the catalog as the source has it, or the delta will report it, or it is
\* told as left out, or its removal waits for the reconcile, or an unreadable
\* place is told (sync.ts: a token is saved only after everything before it
\* committed; skips.ts; a deferred reconcile).
NothingMissed ==
    \A i \in Items :
        \/ row.phase = "crawl" /\ i > row.token.at
        \/ Mirrors(i, row.token.disk) \/ Ahead(i)
        \/ i \in skips
        \/ row.from /\ There(i, row.token.disk) = 0
        \/ row.deferred

\* A reconcile removes only items its guard counted (sync.ts reconcile()).
OnlyCountedRemoved ==
    [][\A r \in Runners :
         \A i \in run[r].batch \ run'[r].batch :
             run[r].pc = "remove" /\ cat[i].live /\ ~cat'[i].live
                 => i \in run[r].counted]_vars

\* What the guard holds still has its reconcile to do, so that confirming it
\* does what the admin was told (sync-admin.ts storedStanding(), "held").
HeldIsPending == row.held /= 0 => row.phase = "delta" /\ row.from

\* What an admin confirmed goes through: the guard does not hold it again
\* (sync-admin.ts storedStanding(), "confirmed": the next sync makes them).
ConfirmedGoesThrough == row.confirmed /= 0 => ~Held(Cardinality(Stale))

\* Runs that go on being sent bring the catalog to where the source stays, or
\* wait for an admin, or say what they left out.
CaughtUp ==
    \/ row.stopped
    \/ row.deferred
    \/ \A i \in Items : Mirrors(i, mounted) \/ i \in skips
CatchesUp == <>[]CaughtUp
=============================================================================
