# A formal model of OpenHoard

OpenHoard keeps a catalog of an organisation's files. Connectors crawl sources, ingest records
objects and versions, a queue enriches every version (injection flag, tags, summary), and the
levels decided from a file's tags say who sees what: people in the web app, and AI clients that
were given access by OAuth. The bytes lie on the server's disk or in a place the tenant chose.

This directory models the parts whose correctness depends on what happens at the same time, in
which order, and after which failure. TLC checks the models on small instances; TLAPS proves
theorems about them for every instance. `PROJECT.json` maps every definition to the lines it
translates and lists the hazards, the runs and the theorems.

    tlc -workers 2 -config MCEnrichmentRuns.cfg MCEnrichment      # any run: its cfg, its module
    tlapm EnrichmentProofs.tla                                    # any …Proofs module

Contents: 1 the system · 2 the modules · 3 the runs · 4 what the environment may do, and fairness ·
5 what is proved · 6 what the models showed · 7 what is not modelled · 8 what is left to do.

## 1. The system

### Components, their state and what makes them correct

| component | state | operations | correct when |
|---|---|---|---|
| **Enrichment queue and pipeline** `core/jobs` enrich, jobs, maintenance, resummarize; `core/catalog` visibility, rules, cards | `versions.processed_at`, `superseded_at`; `object_tags`, `version_cards`; the pg-boss queues `enrich`, `enrich-failed` | ingest and enqueue, fetch, each pipeline step, mark, requeue, salvage, sweep, budget retry | a file shown to non-readers carries the tags of its present name and version; contents go to a model only if these tags allow it; nothing stays hidden for good |
| **Source synchronisation** `core/jobs` sync, sync-admin, skips | `source_syncs` (phase, token, reconcile_from, held, confirmed, identity, stopped), `source_refs`, `source_skips`, the queue `sync` | crawl, delta, checkpoint, resync, reconcile with its guard, an admin's decisions | a token is never past an item that is neither recorded nor told; only counted items are removed; the catalog catches up |
| **OAuth** `core/identity` oauth, `apps/server` oauth, mcp | clients, codes, grants, tokens | issue, redeem, replay, refresh, revoke, decide | what ended stays ended; one consent, one grant; no answer after the end |
| **Stops of a person** `core/identity` directory, passkeys | `users` (locked, disabled, retired) | lock, disable, retire, resume, unlink, remove a passkey | as above; no deadlock among those that keep the lock order |
| **Tenant storage** `core/storage` tenant-storage, store | `tenant_storage`, `blobs`, the copies, each server's cached choice, the queue `storage` | put, open, change, restart, clean, the two jobs | every recorded blob has a good copy where it is read |
| **Ingest** `core/catalog` ingest, managed | objects, versions, sources | record, rename, remove, restore | recorded once, its row locks in order |
| **Principal cache** `core/identity` principal-cache | entries by epoch and expiry; `principal_epochs`, bumped by triggers | resolve, put, invalidate | no principal older than a committed change is used in a later snapshot |
| **Sessions, links, passkeys** `core/identity` sessions, sign-in-links, passkeys | sessions, links, invites, credentials, spent challenges | sign in, renew, end, register, remove | a link opens one session; a stop ends all of them |
| **Directory, grants, imports** `core/identity` directory, `core/jobs` acl | users, groups, memberships, grants, admins | match, provision, retire, grant, import, revoke | nothing is live for who is retired; an account signs in as the record with its id |
| **SCIM** `apps/server/scim`, scim-tokens | tokens, failures per address, summaries; users and groups of source scim | check, count, refuse, write | a request does what it says or nothing, once; guessing is slowed and recorded |
| **Policy, levels, search** `core/policy`, `core/catalog` search, visibility, packs | `object_levels`, search documents, packs | tag, review, plan, apply, search, open, explain | search, read and explain are one decision; levels are those of a file's values |
| **Tags and reviews** `core/catalog` tagging, review-inbox, primary | vocabulary, `tag_reviews`, `object_tags` | propose, accept, reject, decide, merge | one value of a facet, one item a value, whoever decides in what order |
| **Audit chain** `core/audit` | `audit_events` (seq, hash, previous) | append, verify, export | one unbroken chain per tenant |
| **Model calls** `ai/models` | `model_usage` per day, slots in memory | reserve, settle, retry | a day's limit holds, but for calls above their reservation |
| **Extraction** `ai/enrich`, `enrichers/extract` | a child process, its answer, `extracts` | feed, limit, answer, keep | only what the whole version gave is kept; whatever the child does, the step ends |
| **Uploads, mail** `apps/server` | uploads in flight; a mailbox's tries | receive, record; poll, record, mark read | nothing is recorded for an ended grant; a message is recorded once |
| **Watch and requests** `apps/server` watch, sources | timers, a request in flight | change, request | a change after a request began is followed by another |
| **Connectors** `connectors/fs`, `connectors/sharepoint` | a journal, snapshots; kept folders, delta links; budget, token, subscriptions | crawl, delta, fetch, pace, subscribe | the SDK's contract, which `SourceSync` relies on |
| **Clients of OAuth** `apps/server/oauth`, `clients/extension` | pending and approved clients, fetched metadata; the extension's stored connection | approve, refuse, look up; connect, renew, save, disconnect | a client is let in as an admin or the config says; a connection ends where it was ended |
| **Installation and service** `apps/server` solo, team, connect, service, tunnel; `core/db` pglite | config files, the data directory's lock, a supervisor's files | init, connect, start, stop, take over | one process has the database open; a command cut off leaves what a repeat repairs |
| Blob hashing, models' clients, web app, CLI, test kit | — | cryptography, I/O, presentation | not a matter of order or failure |

### How they interact

- **One database** holds nearly all state. Components meet in rows: a file's (`objects` FOR
  UPDATE under `lockCurrentVersion()`), a source's (`source_syncs`), a person's and a client's, a
  tenant's storage. What one reads in a transaction and uses in the next is where they go wrong.
- **pg-boss queues** (in the same database) carry jobs. A job's lease ends (`expireInSeconds`)
  while its handler may go on: two handlers of one job are a normal state. Enqueueing is a second
  transaction after the one that made it necessary.
- **Several servers** run all of this, each with its own caches.
- **External**: the sources behind connectors, model providers, object storages.
- An ingest (sync, upload, mail) → `versions` → enrichment → levels → policy → read and search.
  An admin's request, a provider's SCIM call or a person's own act → stops and decisions → codes,
  grants, sessions → the request under way.

### Behaviours that are hard here

Late handlers beside their successors; renames between reading a name and writing by it; a lost
enqueue; dead letters and their only retry; checkpoints beside what was committed since; admins
who decide while a job runs; row locks taken in an order that READ COMMITTED does not give; moves
of storage under uploads that began before them. Each is listed in `PROJECT.json` under `hazards`
with its line, and with the property that covers it or the reason none does.

## 2. The modules

The core, each with runs of its own:

| module | models | state as code |
|---|---|---|
| `Enrichment` | one file: ingest, the two queues, handlers, salvage, maintenance | `seq`, `name`, `processed`, `superseded`, `card` are columns; `applied` says which version and name each core step last wrote for; `created`, `retry`, `active`, `dead` the jobs by state; `run`, `call`, `sweep` what a handler, an enqueue in progress and the maintenance job have read |
| `PublishedFile` | the abstract promise: a file is shown only once its tags are decided from it as it is | `current`, `decided`, `shown`; `Enrichment` implements it (`Published`) |
| `SourceSync` | one source: its changes, the disk, the connector's contract, runs, checkpoints, the reconcile and its guard, an admin's four acts | `row` is `source_syncs`; `cat`, `skips` the rows of its items; `fresh`, `skipsMet` what was synced or noted since `reconcile_from`; `run` what `runSync()` keeps in memory |
| `Access` | OAuth codes, grants, tokens, clients, the stops of a person, requests under way, as transactions with row locks | the tables; `tx` each connection's transaction and statement, `locks` the rows held |
| `TenantStorage` | one tenant: where its blobs go, uploads across a move, the move's and the removal's jobs, damage | `row` is `tenant_storage`; `copy` what each storage holds; `cache` each server's kept choice; `put`, `job` what an upload or a handler has in memory |
| `…Proofs` | the theorems about the module they are named after (section 5) | – |

The parts, which share two runs. The first state of a behaviour says which part it is of, and
*slots* stand for the variables of whichever that is. `OnePart` extends `SignIn` and has five more
by `INSTANCE`, and `OneService` extends `PrincipalCache` and has five (`ScimDoor`, `SetUp`,
`ClientApproval`, `ClientLookup`, `BrowserClient`): those are the ones with theorems. `MCParts` extends `OnePart` and has six others; `MCServices` extends
`OneService` and has the rest, with `SourceSync` under fairness:

| module | models |
|---|---|
| `SignIn` | sessions, sign-in links, invites, passkeys, ceremonies; a request's cookie, transaction and lost answer |
| `Holdings` | the directory, grants people give and grants a source imports, admins, sign-in by the provider's id |
| `PrincipalCache` | principals resolved in snapshots, kept by epoch and expiry |
| `TagReview` | proposals by rules, models and people, decisions on one or all, merges, a file's home |
| `Levels` | `object_levels` and the triggers that keep them, packs planned, applied (SERIALIZABLE) and refreshed |
| `PackPlan` | what the plan of a pack tells an admin, and what applying or removing it does |
| `Search` | candidates by SQL and views by the gate: two translations of one rule; search documents |
| `Arrivals` | uploads and a mailbox's messages, from a check to the record |
| `AuditChain` | appends under the advisory lock, verification, paging, export, damage |
| `ModelCalls` | reservations and settlements of a day's tokens, slots, retries |
| `Extraction` | a version's bytes through a child process to its stored extract |
| `FolderWatch` | a watched folder, debouncer, requests, the sync queue |
| `FolderSource` | the folder connector and the sync that follows it: walk, journal, snapshots, deltas |
| `GraphSource` | the SharePoint connector and the sync that follows it: crawl, delta rounds, kept folders |
| `GraphCalls` | the budget, throttles and token that requests to Graph share |
| `Subscriptions` | Graph's change notifications: made, renewed, removed, remembered in a file |
| `ScimDoor` | who gets into the SCIM endpoint, what guessing costs, what is recorded |
| `Provisioning` | what SCIM requests make of users and groups |
| `ClientApproval` | how an AI client comes to be let in, by admins and by the config |
| `ClientLookup` | the fetches of clients' metadata, their cache and limits |
| `BrowserClient` | the browser extension's connection, shared by its page and its worker |
| `DataLock` | the lock of the embedded database's directory |
| `SetUp` | `init --solo`, `init --team`, `connect`, beside a server |
| `Supervised` | the service and the tunnel: start, stop, stop files |

Conventions. An action is one transaction, or one call to another system, with everything the
code does until its next `await` that others can see. Between actions, what the code keeps in
memory (`run`, `tx`, `put`, `job`, `reader`) may be stale, as in the program. A handler whose lease
ended has `aborted` (or `live = FALSE`) and goes on up to where the code looks at its signal.
Constants named `Max…` (and in `Extraction` and `FolderSource` the sizes) are bounds; everything
else that is finite is finite in the code too.

**Enrichment.** A *name* is a title with the path in the source, which is what
`lockCurrentVersion()` compares. A run reads version and name (`ReadTarget`), writes in each core
step if the file is still as read (`CoreStep`), asks whether the contents may go to a model
(`GateSummarize`, again in `Send` just before it does), saves the card, and marks the version
(`MarkProcessed`). `Standing` is the code's answer current/renamed/superseded; a renamed run
requeues, a superseded one gives its version up. `boss.upsert()` is two statements
(`UpsertFinds`, `UpsertInserts`), because pg-boss makes it so. A job that fails goes to retry up
to `RetryLimit`, then becomes a dead letter with a salvage run of its own, which has one retry and
then waits for an operator or for retention. The sweep reads the dead letters first and the
versions afterwards, in two steps.

**SourceSync.** The connector is external and keeps the SDK's contract: `ListItem` in the order
of the items, `DeltaEvent` in the order of changes, `Resync` for a token it cannot use, its
identity where it has one. The run follows `runSync()`: state, identity, a reconcile that an
earlier run left, crawl or delta, `Checkpoint`, `Done`, the reconcile (`Count`, `Hold` or batches
of `ReadStale` and `RemoveStale`, `Finish`). `reconcile_from` is a flag and `fresh` the items
synced since: which of them are stale is all the code does with the times. That the two real
connectors keep that contract is what `FolderSource` and `GraphSource` are for: each has the
connector in detail and only as much of the sync as it talks to.

**Access.** READ COMMITTED is modelled: a statement that updates many rows sees those that match
when it begins (`EndRows`), waits for each in any order and looks at it again (`EndRow`); a
transaction's writes appear when it ends. Every operation takes its locks in the code's order.
`broken` on a request records that its grant or token was ended while it was under way, also when
access was given back since.

**TenantStorage.** A copy is good, of the wrong size, of the right size but wrong, or not there;
`RightSize` is all that `copyBlob()` and `BlobStore.put()` look at, the hash is what `verify()`
looks at. A place is what an admin types and `At` the storage it names, so one bucket may have two
names. The jobs read pages and go through them blob by blob; `Progress` is where a job notices
that the tenant's storage has changed.

**The parts.** Some carry a *ghost* that only a property reads: `loose` in the two connectors'
modules marks what a known limit of the code (section 6) may leave wrong until the next crawl,
`stale` in `Search` the files tagged past a pack's snapshot, `owed` in `Levels` the refresh that is
still to come, `file.gone` in `Subscriptions` a library whose removal was cut off. What they excuse
is listed in section 6. Elsewhere a ghost is history: `told`, `fetched`, `cut`, `added` and
`lost` say what was told, done or interrupted.

## 3. The runs

| run | instance | what it shows |
|---|---|---|
| `enrich_runs` | 2 names (one sensitive), 2 versions, 2 handlers, 1 ingester, 1 dead letter, 2 changes, 1 retry, 2 faults, 1 sweep | safety of one file: `ProcessedMeansEnriched`, `SendsOnlyWhatTheNameAllows`, `SupersededIsOver`, `NothingOrphaned`, `SalvageKeepsSummaries`, and that it implements `PublishedFile` (`PublishesOnlyWhatItDecided`) |
| `enrich_live` | 1 handler, 1 version, a rename, 1 lost enqueue, 3 faults, sweeps without bound | `EndsUpProcessed`: out of hiding in the end, or left to an operator |
| `names_return` | as `enrich_runs`, names may come back | finding 1 |
| `sync_runs` | 2 items, a guard that lets 1 go, 2 changes, 1 fault, 1 act, 1 move of the disk; a connector with deltas and identity, or one with neither | `NothingMissed`, `ConfirmedGoesThrough`, `HeldIsPending`, `OnlyCountedRemoved` |
| `sync_admin_removes` | admins act during a run | finding 2 |
| `sync_early_stop` | a crawl may be cut short before its first checkpoint | finding 3 |
| `access_runs` | 1 person, 1 client, 2 connections, 2 codes, 1 grant, 1 rotation, 1 request | `EndedMeansOver`, `AnswersAreOfLiveAccess`, `OrderedNeverCross`, and no deadlock of TLC's own |
| `storage_runs` | 1 blob, 1 upload, 2 handlers, 3 places on 2 storages, 4 versions, 1 fault | `NothingLost` over a move, its removal, a move back and its removal |
| `storage_damaged` | a copy damaged without a change of its size | finding 4 |
| `parts_runs` | `MCParts`: `SignIn`, the five parts of `OnePart` and six others, each on the instance that the cfg or its `INSTANCE` line gives | `SignInsAreSound`, `HoldsTheirOwn`, `FileInOrder`, `ArrivesOnce`, `AuditIsExact`, `CallsAreCounted`, `NeverForgotten`, `LevelsAreExact`, `SearchIsExact`, `DirectoryIsExact`, `FollowsTheSource`, `StepsAreAllowed` |
| `services_runs` | `MCServices`: `PrincipalCache` (2 people, 1 reader, 1 entry), `SourceSync` under fairness (2 items, any connector, one of each event), the other five parts of `OneService`, and six others | `CacheIsExact`, `SourcesCatchUp`; `DoorIsFair`, `SetUpIsWhole`, `OneServerRuns`, `ClientsAsDecided`, `DoneAsChecked` |
| `lock_taken_over` | three processes and a lock left behind | finding 5 |

A property of `OnePart`, `OneService`, `MCParts` or `MCServices` is the part's own, under `part = …`; its comment
says what it promises, and the part's module defines it (`SignInsAreSound` and `CacheIsExact` need
no such prefix: their modules are the ones extended, and keep to their first state while a
behaviour is another part's). Where one of its steps is the matter, it is under
`StepsAreAllowed`, `ClientsAsDecided` or `DoneAsChecked`.

**Why these bounds.** Files are independent (every lock and queue key is a file's or a version's),
so one file is enough. Two handlers are a late run and its successor, or an ordinary run and a
salvage run; a third adds no kind of interference, since each only ever compares the file with
what it read. Two versions give replaced and current; two names give a rename (and a rename away
and back where that is allowed). In `SourceSync` two items are one that a crawl has passed and one
ahead of it, or one the guard lets go and one more than it does. Two connections in `Access` let
any two operations meet at every lock; three transactions that wait in a ring need three locks in
different orders, and the order is the same for all but the removals (`NeverCross`, section 5,
has any number). In `TenantStorage` blobs do not meet (each is copied, checked and deleted by its
own id); one blob with `PageSize = 1` reads a full page and then an empty one, so that uploads may
be recorded between pages and before the second pass. Four versions are move, removal, move back,
removal: the first sequence in which an old place becomes the new one. `Damages` in `storage_runs`
are the losses that the size tells.

In the parts, two of whatever competes (requests, writers, reviewers, pollers, callers, programs)
and one or two of what they compete for; one event of each rare kind (a fault, an upgrade, an
abort), since two of them were checked where that ends in reasonable time and showed nothing else:
`sync_runs` with two faults (4.1 million states), `FolderSource` with three changes and two faults
(1.8 million) and without birth times, `GraphSource` with three changes (9.6 million), `ScimDoor`
and `Subscriptions` with two events, `PrincipalCache` with two readers (3.1 million), `GraphCalls`
with costs of 3 and waits of 3. `storage_runs` has 2.4 million states, `parts_runs` 1.4 million,
`access_runs` 1.6 million, `sync_runs` 1.1 million. `PrincipalCache` has one reader here, its
theorems (section 5) are for any number.

`DataLock` has two processes and one event in `services_runs`. With two events `OneHolder` fails
with two processes as it does with three in `lock_taken_over`: one renames the other's lock aside,
ends, and starts again. So it is a property of that instance and no theorem (finding 5); what holds
in general is `NeverShutOut`.

Where deadlock is not checked, the bounds on changes and faults end the behaviours.

## 4. What the environment may do, and fairness

Constants say what is assumed of the world; each is there because the property fails without it,
and that failure is either a finding with a run of its own or described in section 6.

| constant | in the passing runs | why |
|---|---|---|
| `NamesComeBack` | FALSE | TRUE is `names_return` |
| `AdminAnytime` | FALSE: admins act between runs | TRUE is `sync_admin_removes` |
| `EarlyStops` | FALSE: a crawl from the beginning reaches its first checkpoint | TRUE is `sync_early_stop` |
| `MoveDisk` | between runs only | during a run a connector's answers are not the contract's to say |
| `Damages` | `short`, `none` | `bad` is `storage_damaged` |
| `SlowRecords` | FALSE: an upload that chose its place before a move commits its record before the removal's second pass | the code allows five minutes (`LATE_MARGIN_MS`) |
| `LateDeletes` | FALSE: a handler whose removal was overtaken is over before the next removal begins | only `progress()`, once a page, looks at the version (section 6) |
| `MaxFaults` ≤ 3 in `TenantStorage` | | a job has three retries |
| `TwoConnects` in `SetUp` | FALSE | two `connect` at once lose one another's entry (section 6) |
| `Rolling` in `ClientApproval` | FALSE: one config at a time | two servers with different configs undo a refusal (section 6) |
| `Reorders` in `PackPlan` | FALSE | a plan does not tell of reordered rules (section 6) |
| `Gaps` in `BrowserClient` | FALSE: the worker's load and store of the connection are one step | a disconnect between them is undone (section 6) |
| `Stops` in `access_runs` | `locked` | the code treats the three alike; which of them stands is only compared with itself |

A server's cached choice of storage lives ten seconds in the code and any time in the model,
which allows more than the code does. In `TenantStorage` a damage never falls within a removal of
the version at hand, or between any removal's check of the new copy and its deletion of the old:
no program can tell. In `Supervised` a clean stop forces itself after ten seconds and a poll counts
ten; in `BrowserClient` a token lives longer than a save that began before it was issued; in
`Subscriptions` a `keep()` takes no tick (some hours); in `GraphCalls` no tick passes while
something is due.

**Fairness.** `Enrichment` (`Fairness`): handlers go on with the pipeline (weak), the supervisor
puts back jobs whose handler is gone (pg-boss's maintenance runs by a timer), retention drops dead
letters, the sweep runs by its cron schedule and ends. A fetch is strongly fair: pg-boss hands out
the oldest job first, so that a job that is fetchable again and again between others is fetched.
Faults, an operator and the budget retry are never fair. `SourceSync` (`Fairness`, and `Going` in
`MCServices`): `runSync()` is weakly fair, because the schedule keeps sending the source's job.
All other modules promise safety only.

## 5. What is proved

For any numbers of everything, and every value of the bounds. The modules' named assumptions are
part of each (`NamesAssumption`, `ActorsAssumption`, `BoundsAssumption`, `SyncAssumption`,
`AccessAssumption`, `StorageAssumption`, `CacheAssumption`, `SignInAssumption`,
`OnePartAssumption`, `OneServiceAssumption`: disjoint sorts, natural bounds, a batch, page or cache
of at least one, an account, a file, a value and an address that exist, a failure that is allowed
before a block, a token a grant may have, and finitely many requests at the SCIM door and calls
that look a client up, so that they can be counted); TLC evaluates them on every run.

| module | theorem | states | assumes beyond that |
|---|---|---|---|
| `EnrichmentProofs` | `TypeCorrect` | `[]TypeOK` | – |
| | `SupersededIsAlwaysOver` | `[]SupersededIsOver` | – |
| | `SalvageTakesNothingAway` | `SalvageKeepsSummaries`, an action property | – |
| | `EnrichedAsItIs` | `[]ProcessedMeansEnriched` | `~NamesComeBack` |
| | `AsksWithThePresentTags` | `[]SendsOnlyWhatTheNameAllows` | `~NamesComeBack` |
| | `ImplementsPublishedFile` | `PublishesOnlyWhatItDecided`, the refinement | `~NamesComeBack` |
| | `NoneOrphaned` | `[]NothingOrphaned` | – |
| `AccessProofs` | `AccessTyped` | `[]TypeOK` | – |
| | `EndedStaysOver` | `[]EndedMeansOver` | – |
| | `NoAnswerOnceEnded` | `[]AnswersAreOfLiveAccess` | – |
| | `NeverCross` | `[]OrderedNeverCross` | – |
| `TenantStorageProofs` | `StorageTyped` | `[]TypeOK` | – |
| | `BlobsKept` | `[]NothingLost` | `Timely` |
| `SourceSyncProofs` | `SyncTyped` | `[]TypeOK` | – |
| | `NothingIsMissed` | `[]NothingMissed` | `~AdminAnytime`, `~EarlyStops`, `[]OneAtATime` |
| | `HeldStaysPending` | `[]HeldIsPending` | the same |
| | `ConfirmedIsMade` | `[]ConfirmedGoesThrough` | the same |
| | `RemovesWhatItCounted` | `OnlyCountedRemoved`, an action property | the same |
| `OneServiceProofs` | `CacheTyped` | `[]TypeOK` of `PrincipalCache` | – |
| | `CacheStaysExact` | `[]CacheIsExact` | – |
| | `DoorStaysInOrder` | `[]DoorInv`, the inductive invariant of `ScimDoor` | – |
| | `DoorStaysFair` | `[]DoorIsFair` (`ScimDoor`) | – |
| | `SetUpStaysInOrder` | `[]SetUpInv`, the inductive invariant of `SetUp` | `~TwoConnects` |
| | `SetUpStaysWhole` | `[]SetUpIsWhole` (`SetUp`) | the same |
| | `ClientsStayInOrder` | `[]ApprovalInv`, `[]LookupInv`, `[]BrowserInv`, the inductive invariants of `ClientApproval`, `ClientLookup` and `BrowserClient` | `~Rolling`, `~Gaps` |
| | `ClientsStayAsDecided` | `ClientsAsDecided`, an action property (the three) | the same |
| | `ServicesAreTyped` | `[]TypeOK` of `ScimDoor` and `SetUp` | `~TwoConnects` |
| `AuditChainProofs` | `ChainNeverForks` | `[]NeverForks`, the part of `AuditIsExact` about appending | – |
| `SignInProofs` | `SignInTyped` | `[]TypeOK` of `SignIn` | – |
| | `SignInInOrder` | `[]InOrder`, what requests, challenges, links and invites say of one another | – |
| | `SignInsStaySound` | `[]SignInsAreSound` | – |
| `OnePartProofs` | `EachInOrder` | `[]OneInv`, each part's inductive invariant along its behaviours | – |
| | `EachIsTyped` | the five parts' `[]TypeOK` | – |
| | `ChangesNeverForgotten` | `[]NeverForgotten` (`FolderWatch`) | – |
| | `EveryoneHoldsTheirOwn` | `[]HoldsTheirOwn` (`Holdings`) | – |
| | `KeptLevelsExact` | `[]LevelsAreExact` (`Levels`) | – |
| | `ArrivesOnlyOnce` | `[]ArrivesOnce` (`Arrivals`) | – |
| | `FilesStayInOrder` | `[]FileInOrder` (`TagReview`) | – |
| | `StepsStayAllowed` | `WhileAllowed` of `Arrivals`, `AsPlanned` of `Levels` and `StayInFile` of `TagReview`, action properties | – |
| | `NoneIsShutOut` | `[]NeverShutOut` of `DataLock`, for any set of processes | `LockBounds`: positive pids, natural bounds |

The assumptions are the ones a run shows to be necessary (`names_return`, `sync_admin_removes`,
`sync_early_stop`, `storage_damaged`) or section 6 describes. Every inductive invariant below was
checked by TLC on small instances first.

**Enrichment.** `TypeOK` is not inductive: a run must be one of a version for its writes to be
typed, a dead letter as well, only a run that enqueues may have a call open, and a dead letter has
at most one live run, which finds it active. `Typing` adds these. `NoneAhead` says that no run,
job, call, dead letter or mark is of a version the catalog does not have yet: with it, a new
version is neither processed nor superseded, which gives `SupersededIsOver`. `EnrichedInv` adds
what a run knows. `StepsTaken`: a run past a core step that still has the file's version and name
finds its own stamp there, since whoever wrote later wrote the same, if it was current when it
wrote. This needs `NamesKnown`: a name a file gets is new, so no run holds it yet; a run that was
outdated stays so. That is the step that fails when names come back, which is finding 1. From
`StepsTaken`, marking a version (`Standing` = current) establishes `ProcessedMeansEnriched`, and a
rename hides the file again; `MayProcess` reads the tags, which are those of the name the run has
read, so what `Send` lets through is what the name allows. The refinement maps `decided` to the
stamp both core steps agree on. An ingest is a `Change`, a core step a `Decide`, a mark a
`Publish`, and everything else a stutter; only the invariant shows that a `Decide` beside a shown
file decides the same again. `SalvageInv` says that a salvage run never gets to the model, so that
its one write is `GiveUp`'s, which looks at the card under the lock.

**Its queues.** `NothingOrphaned` counts as *in hand* a version whose job
has a run that is about to end, or an enqueue in progress by a run whose lease has ended; neither
survives the next step, so it is not inductive. `Held` leaves both out: a version is held by a job
whose run, if it has one, still has to look at the file again, by a letter, or by a call of someone
who will be repeated if they die. `HiddenIsHeld` says this of every version that still has to be
processed; `JobsAgree` (`OneOwner`, `LettersAgree`, `CallsAgree`) that a job or letter in work has
one live run. It needs no hypothesis, not even on names.

**Access.** `TypeOK` gives each transaction's statement a meaning only with `Steps`, `About`,
`Holds` (which rows it has locked by the statement it is at) and `Tells` (which statement a lock
is a sign of), and with `Alone`: two transactions hold one row only if both share it. `Covers` is
the argument for `EndedMeansOver`: whatever ends a person's or a client's access has, from the
moment its statement began, every open code and live grant of theirs among the rows it has to end
or has ended, because it holds the person's or the client's row, which everyone who makes a code or
a grant must share. `Issued` and `Asked` carry the same to redeemed codes and to requests under
way. `NeverCross` gives every row a rank in the order the code documents (epoch, person, client,
code, ending codes, replay or grant, ending grants) and shows that the one who is waited for, if it
waits as well, waits for a later row (`WaitsForLater`); two endings cannot both be past the epoch,
so the unordered rows of their last statements are never contended crosswise. It is about all
operations but the removals of a passkey and an identity, which take no epoch (section 6).

**TenantStorage.** `Timely` is `~SlowRecords /\ ~LateDeletes /\ "bad" \notin Damages`. The
inductive `Kept` says of the choices that no copy is wrong under a right size (`NeverBad`); of the
jobs what their version, phase and page let them conclude about the row (`JobsKnowTheRow`,
`Checked`: behind the second pass's place every recorded blob is good in the new place); of the
uploads where what they hold in memory was put (`PutsKnow`); and of the places that those recorded
blobs are read from are filled (`OnePlaceFilled`, `FilledIsRead`), that a handler deletes only from
a place that is no longer read (`NoneIsEmptied`) and that removals remove from all old places
(`RemovalsRemoveAll`). `NothingLost` is one of its conjuncts.

**SourceSync.** `Typing` holds with any number of runs at once, decisions at any moment and early
stops. The other four theorems are about runs that do not overlap (`OneAtATime`: the queue gives a
source's job to one handler, and a handler that outlives its lease is the exception); with
overlapping runs, an older revision may be recorded over a newer one (sync.ts:741), and no
invariant of this kind holds. `SyncInv` relates three things. `RowInv` is about what is saved: what
the saved token covers (`RowCovers`), what a saved crawl has met (`RowMeets`), that held and
confirmed counts belong to a reconcile that is due (`RowSane`), and that they are at least the
number of stale items (`Guarded`: between runs that number only falls, since decisions wait for
the end of a run). `NoneEarly`: before a crawl's first checkpoint only the run that lists has
synced anything. `RunInv` is about the run: what it has read agrees with the row (`Reads`), and
while it streams every item is recorded, or ahead, or told of, or gone, by what it has passed
(`Follows`, `After`, `CoversAll`, `MeetsAll`). A checkpoint copies the run's cover to the row; the
reconcile removes only what the crawl did not meet, so what is gone or was told of (`MetThere`,
`MetAll`).

**PrincipalCache.** That an answer is exact is a matter of three parties who never meet: whoever
changed the rows, whoever resolved and kept an entry, and whoever uses it later. `OneEpoch` joins
the first two: all snapshots and the rows themselves that carry one epoch agree in whatever a
principal is resolved from, since every change bumps the epoch in its own transaction and a
transaction that will roll back keeps nothing. `EntriesSound` says of each entry that any state
with its epoch gave just this at some moment not after now, and that it ends before anything then
counted lapses (`ValidUntilIsLeast`); with `Lapses`, an entry that still holds is what would be
resolved now. `ReadersExact` carries it from a miss to its answer. Nothing depends on the order in
which misses are kept, which is why the comment of section 6 does no harm. The map's operators
(`Without`, `At`, `Recent`) have lemmas on sequences: no two entries are of one person, and what is
taken out leaves the others as they were.

**AuditChain.** `Chained` gives every row its place and what it says of all before it, and says
that a row is missing only where somebody took it out, the newest never. So the head that is read
is the newest event (`TopIsNewest`), damaged or not. `Held` says that one transaction is past the
lock, and that what it read there at read committed is still the newest; a serializable one has
read before the lock, and for it `Extends` decides. The model's hashes are the histories
themselves, so that no two agree is part of the model and not proved. What verification, exports
and listings promise (`ReadersAreExact`) is computed by sorting pages and is model-checked.

**SignIn.** A row made by one request is ended by others that know nothing of that request, so each
row has to say enough of where it comes from. `RequestsInOrder`: what a request under way names is
of its kind, and the challenge it answers is still the one it was issued for. `Given` is a
challenge that nobody answers any more, and no step takes that back; sessions and passkeys that
came from challenges came from given ones (`SessionsInOrder`, `PasskeysInOrder`), which is why
there are no two of one. `LinksInOrder` says that a link and its session name each other, so that a
replay finds the session it ends. What a stop ended stays ended because ended rows never change
(`SessionsEnd`, `PasskeysEnd`, `UsedStays`).

**One part's behaviour** (`OnePartProofs`). `OneInv` has each part's invariant under `part = …`, and
`OnlyItsOwn` says that a step of a behaviour is the part's own or a stutter of it, so what each part
keeps, all keep. The proofs call the slots by the parts' own names.

*FolderWatch.* `NeverForgotten` counts on timers, events and bursts that count only while somebody
is there to act on them, so it is not inductive. `OfThePast` orders what was seen, asked and read
by when it changed; `SomeoneWatches` says who is there; `ReplacedIsSeen` that a folder replaced
under its watch is still to be found out: by an event, a timer or the look that follows.

*Holdings.* `Sound` is about rows alone: a live grant is to someone current or a group that is
there, memberships as well, and an identity is of a current record with its account. A sign-in has
read its match unlocked, an import remembers one for a whole run (`known`), and neither is promised
to be true by then (`SignerTyped`, `Known` give only types): what keeps the rows sound is what each
looks at again under the lock. `SoundHolds` reads `HoldsTheirOwn` off it.

*Levels.* Every transaction has worked out levels from what it could see, which may be other than
what is there by its commit. `AllApart` says that no two hold what one of them needs for itself, a value
it changes or an object it holds; `GotInOrder` that what one has worked out for an
object is right for what it will leave (`Right`), or the refresh of an applied pack is still owed
(`Stale`, `Owed`). A commit then gives `AllExact`.

*Arrivals.* `FilesInOrder` allows one first file of a key. `RunInOrder` says what a run
through a message has recorded by the part it is at, so that its last word about the message,
audited and marked, covers all parts. Files and what was said of a message only grow (`FilesGrow`,
`SaidStays`), whoever else records them meanwhile.

*TagReview.* `Tagged` says of a tag that its value is approved and, where it is the file's home,
that a person or a rule vouches for it (`TagRight`), and of the open items that only one for a new
value waits for its approval (`OthersKnown`): without that a decision on one item could leave a tag
whose value nobody approved. `StayInFile` compares the level before a decision and after, each the
tightest of the values that set one (`LevelBelow`, `LevelOfOne`). `opensFile()` puts the new value
in place with what waits left waiting; that the decision also ends what waits for other values is
what `loosens()` covers, and a rejection that stays in the file is of a value that sets none.

*ScimDoor* (`OneServiceProofs`, as the next). `GuessesAreBounded` compares what the log was told of
a key with how many may fail, and says nothing of the requests under way, which are what the
bound is about. `Bounded` counts them. Until a key is blocked, each refusal that was told is
counted, or its request is still to count it (`Counting`). From then on nothing is promised of the
count, only of those who may still tell: the ones who looked before it was blocked (`Looking`) and,
once the token is over, those it had let in as well (`Within`); each of them tells once and is then
none of them. Both bounds hold already while the key is not blocked, since a request is in one
of the sets at most (`Unblocked`); what it tells, it tells as it goes from one to the next
(`Tallies`). `Carries` says what a request holds of
the token it came with, which the token may have outlived: the good secret is turned away only once
the token is over. `SummaryInOrder` is about sums, and what is owed goes from one to another.

*SetUp.* Who has the database open (`Shaped`) is alone in having come anywhere, so that what the
others rely on is of the files alone. `NewOnes` keeps a command's id apart from all tenants and
from the others' ids; a tenant once whole (`SoloWhole`), or with its token, stays so (`Steady`),
whichever config names it. A `connect` read both files before it had the lock: `Connects` says
that what it read is still what is there, apart from what it wrote itself, since only an `init`
that takes its own config away again writes beside it, and that is no config a `connect` has
approved anything in (`ConfigKeeps`). `Approved` and `LogInOrder` then say of an approval that it
has its record, or a `connect` under way that will record it or take it back, or was cut short.
With two connects at once, what one has read is not what is there once the other has written:
`WroteClaude` fails, and with it the property (`~TwoConnects`).

*ClientApproval* (`ApprovalInv`). A row doesn't say what a decision in progress was made of.
`RowInOrder` says whose the row is: the app's once the app decided, and then as it did last; the
config's only if it approved what waited. `AskInOrder` says what may still become of it through a
request that has read it: with one config in force every request goes by that one, what waited as a
listed client's row was read isn't the app's yet, and an admin who is about to settle holds the
principals' lock and, of what the config lists, can only lift a refusal. With two configs the first
of these is lost (`Rolling`).

*ClientLookup* (`LookupInv`). `FlightsInOrder`: exactly one call fetches each client in flight, and of
such a client nothing fresh is remembered, neither document nor failure. So a fetch that ends leaves
no other of its client, and what it remembers contradicts nothing (`FetchEnds`, `StoredIs`,
`RememberedIs`). `SharesInOrder` counts a requester's fetches.

*BrowserClient* (`BrowserInv`). That no grant ends as replayed is about the one token that the
server will take once more, the kept one. `KeptInOrder` says that it is of the newest grant but for one
that the page connects with, behind the server by one at most, and by none while nothing was lost,
unless its renewal has the next in hand. `RenewalInOrder` says what a renewal under way may still
store and over what; `SaveInOrder` that a save waits with a connection which has lapsed or is over,
and that no grant newer than its own has a lapsed token (`WaitsForCause`). From this follows what
`DropsTheEnded` says: the refusal that drops a live connection is of an earlier grant
(`EndedIsDropped`). A page that stores within the worker's store breaks `RenewalInOrder` (`Gaps`).

*DataLock.* Of a lock, only that it was made by a start there was (`OfAStart`) is kept, which is
enough for the one who is alone since its start (`AloneInOrder`): whatever it finds at the path is
of a process that is no more, or of an earlier one that had its pid.

**Only model-checked.** The liveness properties (`EndsUpProcessed`, `SourcesCatchUp`; liveness and
ENABLED are out of the prover's reach). `OneServerRuns` has `OneHolder`, which is false in general
(section 3). `PartsTypeOK` and `ServicesTypeOK` are proved of `SignIn`, of the five parts of
`OnePart` and of those of `OneService` (of `ClientLookup` as `LookupTyped`), and checked of the
others. `AuditIsExact` beyond `NeverForks`, `SearchIsExact`, `CallsAreCounted` and pack plans
compute over sorted sequences and sums by folds, whose values for every input would take an
induction that the installed provers do not do. `FollowsTheSource` goes with a recursive operator
of `GraphSource`, which keeps tlapm out of `MCParts` altogether. What remains could be proved as
above, and is checked so far: `DirectoryIsExact`, `DoneAsChecked` and the rest of
`StepsAreAllowed`.

## 6. What the models showed

Five disagreements between the code and what it says of itself have a run whose counterexample
shows them (`findings` in `PROJECT.json` quotes the lines):

1. **`names_return`** (visibility.ts:957). A file is renamed away and back while a late run holds
   the first name: the version is marked processed with the other name's tags, until the run that
   the rename enqueued puts them right.
2. **`sync_admin_removes`** (sync.ts:999). Accepting an identity or discarding a reconcile while a
   run removes stale items in batches moves `reconcile_from` under it: it removes the rest of the
   source, which its guard never counted.
3. **`sync_early_stop`** (sync.ts:520). A crawl cut short before its first checkpoint begins again
   under the old `reconcile_from`: an item it had recorded, deleted since, is neither listed nor
   stale.
4. **`storage_damaged`** (tenant-storage.ts:706). The removal of old copies finds a damaged new
   copy of the right size, "puts it again", which `BlobStore.put()` skips because the size is
   right, and deletes the last good one.
5. **`lock_taken_over`** (pglite.ts:271). Of three processes that find a dead process's lock, two
   may have the database open: `removeStaleLock()` renames aside whatever is at the path by then.

Without a run of their own:

*Enrichment.* The sweep passes over every version with a dead letter in any state
(`deadLetteredVersions()`), also one salvaged successfully that a rename has hidden again and whose
enqueue was lost: it is found only once retention has removed the letter.

*Source sync.* A crawl from the beginning that an admin asks for is undone by the next checkpoint
of a run in progress (`save()`, sync.ts:415-419, writes its own phase and token). Two runs of one
source at once may leave an older revision in the catalog (sync.ts:741).

*Access.* Removing a passkey or an identity ends codes and grants without the epoch that the
documented order of locks begins with (oauth.ts:40-43), and can deadlock with a client's refusal;
PostgreSQL ends one of the two, and only the refusal is repeated. `NoneWaitsCrosswise`, which is
about all operations, fails with two codes and two grants; `OrderedNeverCross` is about the others.

*Tenant storage.* A handler of a removal that was overtaken (its lease ended, its successor
finished, the admin moved back) may still delete from a place that has become the new one, until
its next `progress()`; with the removal of the other copies a blob is lost (`LateDeletes`). An
upload that chose the old place and commits its record only after the removal's second pass is in
the old place alone (`SlowRecords`); the code's margin is five minutes.

*Sign-in.* `signIn()` reads the identity unlocked and `startSession()` does not look again
(nothing in the server calls `unlinkIdentity()`). A stop revokes invites and leaves sign-in links,
which live up to an hour and are refused while the stop stands. A double submit whose first answer
has not set its cookie counts as a replay.

*Holdings.* The resolver of a source's grants remembers whom it matched for a whole run, and
`addObjectGrants()` checks only that the person is current: after an external id was changed, the
run can grant a file to its old holder until the item is visited again.

*Principal cache.* An older snapshot can put its answer over a newer entry, which a comment says
never happens; harmless, since an entry serves only the epoch it was resolved in.

*Tags, levels, packs, search.* The right to tag is looked at when something is asked; on a decision
only activity and admins are looked at again. Files that get a facet's tag past a pack apply's
snapshot keep old search documents (search.ts:73-76, 0001_rls.sql:429) until something else
refreshes them (`stale`). A client's search matches names it is not told. A plan of a pack that
only reorders its rules shows no change (`rulesChange()`, packs.ts:1050-1071), though the first
rule wins (packs/README.md:35) and packs.ts:685 promises every loosening: `Reorders = TRUE` breaks
`ToldOfLoosening` in five steps. With two broken stored packs, and a valid one whose tests rely on
one of them, neither can be removed (tests-failed), against packs.ts:931.

*Arrivals.* A message whose sender's account ends between its files is audited as denied though
some of its files were recorded. One retried after its mailbox changed owner makes twins
(documented). Tries are in memory and lost by a restart.

*Model calls.* A summary reserves twice a call's worth, and each of its two calls is settled at up
to that: together up to twice the reservation (budget.ts:7). HTTP retries are not reserved.
Embeddings count a call per ask, also when it was withheld. A reservation whose settlement fails
stays.

*Extraction.* A crash, a limit or a kill is recorded without the check of the source's end, for
which only an answer waits. A child that answers early, close to the deadline, may leave too little
time to read the rest: the step fails and the job retries, against extract.ts' "never the job's
retries".

*Connectors.* What a killed run applied after its last checkpoint may stand until a crawl that
reconciles (`loose`; fs-connector.ts:42, sync.ts:80). SharePoint: a folder already listed in a round
that comes up elsewhere in a later listing is kept at its new place and not listed again
(connector.ts:1025, against the comment at 985), until the next crawl; a resumed crawl over a log
whose folders loop warns of an unplaced item. A folder watch that is not ready when the first run
begins asks for nothing once it is; the schedule finds what changed. Graph's pause is not kept by
a request whose turn came before it (pace.ts:10: "sends nothing"), and behind others a caller's
own limit is not looked at before its turn, so that it may wait up to twice as long. A crash before
the subscriptions' file is written leaves some that nobody remembers, for three days.

*SCIM.* A summary whose timer has fired is not awaited by `close()` and can be lost when the
database closes. A token revoked while a write waits for its lock still acts. An email that once
was equal to the userName follows it from then on, also when it was given explicitly.

*Clients.* Two servers with different configs at once (a rolling restart) may put the config's
approval over a refusal made meanwhile (`Rolling`). In the extension, a renewal that is refused
stores nothing over whatever is there (lib.ts:311): a connection the person made afresh while the
server answered is dropped, though the comment on the success path says it stands; and between the
worker's load and its store a disconnect is undone (`Gaps`). A disconnect that crosses a renewal
presents a refresh token that has been replaced, which ends nothing.

*Installation.* Two `connect` at once lose one another's entry (`TwoConnects`). `init --team` cut
short between config.json and its transaction leaves a config without a tenant that every later
init refuses. A stop asked before the supervisor has removed an old stop file, or while the server
still starts, is not heard, and the server is killed (`early`). `uninstall` goes on after a failed
stop.

## 7. What is not modelled

- In `Enrichment`: the pipeline's other steps (they write nothing the properties tell apart;
  `Extraction` has that step), the admin's restarts of the queue, cards' and prompts' versions, more
  than one file.
- In `SourceSync`: grants recorded with an item (`Holdings`), the resolver, the cap of 5,000 kept
  skips (skips.ts:40), folders and moves (an item has an id; its path is content), several sources.
- In `Access`: a code's and a grant's ages, pruning (oauth.ts:1088), PKCE, the audit append each
  transaction makes last, sessions, keys.
- In `TenantStorage`: sealing of keys, probes, streaming, mistaken credentials other than as a
  failed copy, reads by a server whose cached choice is stale.
- `SignIn`: the WebAuthn checks. `Holdings`: names, emails, roles on a grant. `TagReview`: levels
  are fixed; the server calls neither `proposePrimary()` nor `setPrimary()`. `Levels`: two
  serializable applies at once. `PackPlan`: labels, warnings' wording, versions. `Search`: the
  activity channel, snippets, facets' counts, the cap on candidates, the index's plan.
- `FolderSource`: folders below, links, other devices, another root. `GraphSource`: permissions,
  unservable names, sharing marks, a page of more than one item. `GraphCalls`: bodies of answers.
  `Subscriptions`: a damaged file, the notifications. `FolderWatch`: the tree of watches.
- `PrincipalCache`: several tenants, people who are not there (whose entry is
  dropped), names and roles in an answer.
- `AuditChain`: a tail cut off or rewritten whole, which its documentation says it cannot tell; a
  crash between an export and its record.
- `ClientLookup`: registered clients, redirect matching, address checks. `ClientApproval`: step-up
  as more than an early return. `BrowserClient`: capture, the checks of metadata. `ScimDoor`: the
  limits of several servers (each counts its own). `Provisioning`: nested filters, paging, other
  names. `SetUp`: PostgreSQL's unheard commits. `Supervised`: a failed `schtasks /End`.
  `DataLock`: the nonce.
- What changes no state over time: blob hashing, parsers, presentation, clients of other services.

## 8. What is left to do

- More parts for `OneService` and `OnePart`, in the order of what their properties say:
  `Provisioning`, `Subscriptions` and `Supervised`.
- In `SourceSync`, what still holds when runs overlap: which of the theorems survive an older
  revision recorded late.
- In `Access`, the ages of codes and grants with pruning, and removals of passkeys and identities
  if they come to take the epoch.
- Two applies of packs at once in `Levels`, and catalog health, which no module has yet.
