------------------------------- MODULE SetUp -------------------------------
(***************************************************************************)
(* From nothing to a configured server: init --solo (solo.ts), init --team *)
(* (team.ts) and connect claude-desktop (connect.ts), beside the server    *)
(* and an admin's command, over one data directory: the database, its      *)
(* lock, config.json, and Claude Desktop's own config.  Each command looks *)
(* at the files, opens the database (one program at a time: DataLock) and  *)
(* writes files and transactions in turn, any of which may fail or be the  *)
(* last thing it does.                                                     *)
(***************************************************************************)
EXTENDS Naturals, FiniteSets

CONSTANTS
    Programs,     \* command lines that may run at once
    People,       \* a name and an email each, as init --solo is given them
    Entries,      \* other programs' entries in Claude Desktop's config
    TwoConnects,  \* BOUND: whether two connects may run at once
    MaxRuns,      \* BOUND: commands run
    MaxFaults     \* BOUND: steps that fail, and programs cut short

VARIABLES
    db,        \* the tenants, as committed
    log,       \* what is audited: tenants whose client connect approved
    lock,      \* the program that has the database open, or Free
    config,    \* config.json, or None
    claude,    \* Claude Desktop's config
    run,       \* [Programs -> the command it runs]
    runs, faults,
    cut,       \* tenants whose init --team or connect was cut short half-way
    added      \* what was added to Claude Desktop's config by others

vars == <<db, log, lock, config, claude, run, runs, faults, cut, added>>

Free == "free"
TenantIds == 1..MaxRuns

\* No config.json; else whose server it is, sign-in links on or not, and the
\* trust its clients list has for Claude Desktop's bridge.
None == [by |-> "none", tenant |-> 0, trust |-> "none"]
Configs ==
    [by : {"none", "solo", "team"}, tenant : 0..MaxRuns,
     trust : {"none", "commercial"}]

\* A tenant: the name it was made with, who is in it and admin, whether the
\* starter pack is applied and whether it has a token to provision with.
Tenants ==
    [id : TenantIds, name : People \cup {"team"}, people : SUBSET People,
     admins : SUBSET People, pack : BOOLEAN, token : BOOLEAN]

\* Claude Desktop's config: whether it has the openhoard server, and the rest.
ClaudeConfigs == [ours : BOOLEAN, others : SUBSET Entries]

Steps ==
    {"idle", "open", "look", "setUp", "write", "load", "make", "claude",
     "approve", "link", "record", "up"}

Runs ==
    [cmd : {"none", "solo", "team", "admin", "connect", "serve"}, at : Steps,
     who : People \cup {"team"}, tenant : 0..MaxRuns,
     raw : Configs, text : ClaudeConfigs,     \* the files as connect read them
     previous : Configs,                      \* config.json before it wrote
     wrote : SUBSET {"claude", "config"}]     \* what it would put back

NoText == [ours |-> FALSE, others |-> {}]
Idle ==
    [cmd |-> "none", at |-> "idle", who |-> "team", tenant |-> 0, raw |-> None,
     text |-> NoText, previous |-> None, wrote |-> {}]

TypeOK ==
    /\ db \in SUBSET Tenants
    /\ log \subseteq TenantIds
    /\ lock \in Programs \cup {Free}
    /\ config \in Configs
    /\ claude \in ClaudeConfigs
    /\ run \in [Programs -> Runs]
    /\ runs \in 0..MaxRuns /\ faults \in 0..MaxFaults
    /\ cut \subseteq TenantIds /\ added \subseteq Entries

Tenant(i) == CHOOSE t \in db : t.id = i
Exists(i) == \E t \in db : t.id = i

(***************************************************************************)
(* What each command needs.                                                *)
(***************************************************************************)
At(p, cmd, at) == run[p].cmd = cmd /\ run[p].at = at
To(p, at) == run' = [run EXCEPT ![p].at = at]

\* The command is over: the database is closed, and with it the lock.
Over(p) ==
    /\ run' = [run EXCEPT ![p] = Idle]
    /\ lock' = IF lock = p THEN Free ELSE lock

Connecting == \E p \in Programs : run[p].cmd = "connect"

\* A tenant with nobody in it.
Empty(i, name, token) ==
    [id |-> i, name |-> name, people |-> {}, admins |-> {}, pack |-> FALSE,
     token |-> token]

Fails == faults < MaxFaults /\ faults' = faults + 1

\* Mutant: a tenant of another name is picked up.
Theirs_Anyones(t, who) == t.people \subseteq {who}

\* An unfinished init --solo of this name and email may have left the tenant
\* (soloTenant()): no other name, nobody else in it.
Theirs(t, who) == t.name = who /\ t.people \subseteq {who}

\* A fresh tenant id.
FreshId == runs

(***************************************************************************)
(* A command begins: what it looks at before it opens the database.        *)
(***************************************************************************)

\* What refuses an init before it opens the database changes nothing: its
\* arguments, its folders, the pack. One in a data directory that is set up is
\* refused too, and that is all a state here tells (runInit()).
MayInit == config = None

\* connect reads both files now, and writes what it read of them later; it
\* is for a server with sign-in links (runConnect()).
MayConnect == config.by = "solo" /\ (TwoConnects \/ ~Connecting)

Begin(p, cmd, who) ==
    /\ run[p] = Idle /\ runs < MaxRuns
    /\ cmd \in {"solo", "team"} => MayInit
    /\ cmd = "connect" => MayConnect
    /\ (who = "team") = (cmd /= "solo" /\ cmd /= "admin")
    /\ run' = [run EXCEPT ![p] =
         [Idle EXCEPT !.cmd = cmd, !.at = "open", !.who = who,
                      !.tenant = IF cmd = "connect" THEN config.tenant
                                 ELSE runs + 1,
                      !.raw = IF cmd = "connect" THEN config ELSE None,
                      !.text = IF cmd = "connect" THEN claude ELSE NoText]]
    /\ runs' = runs + 1
    /\ UNCHANGED <<db, log, lock, config, claude, faults, cut, added>>

\* Mutant: the database is opened beside another program.
Open_Beside(p) ==
    /\ run[p].at = "open"
    /\ IF run[p].cmd = "serve" THEN To(p, "up") ELSE To(p, "look")
    /\ lock' = p
    /\ UNCHANGED <<db, log, config, claude, runs, faults, cut, added>>

\* openAdminDatabase(), or the server's own: refused while another has it.
Open(p) ==
    /\ run[p].at = "open"
    /\ IF lock = Free
       THEN /\ lock' = p
            /\ IF run[p].cmd = "serve" THEN To(p, "up") ELSE To(p, "look")
       ELSE Over(p)
    /\ UNCHANGED <<db, log, config, claude, runs, faults, cut, added>>

\* The server stops, or never gets further: a source's tenant isn't there.
Serve(p) ==
    /\ At(p, "serve", "up")
    /\ Over(p)
    /\ UNCHANGED <<db, log, config, claude, runs, faults, cut, added>>

\* admin tenant create, by hand: a tenant with nobody in it.
tenantCreate(p) ==
    /\ At(p, "admin", "look")
    /\ db' = db \cup {Empty(run[p].tenant, run[p].who, FALSE)}
    /\ Over(p)
    /\ UNCHANGED <<log, config, claude, runs, faults, cut, added>>

(***************************************************************************)
(* init --solo.                                                            *)
(***************************************************************************)

\* soloTenant(): an empty database, or the one tenant an earlier run left;
\* anything else is refused.
Look(p) ==
    /\ At(p, "solo", "look")
    /\ \/ /\ db = {}
          /\ To(p, "setUp")
          /\ UNCHANGED lock
       \/ \E t \in db :
            /\ db = {t} /\ Theirs(t, run[p].who)
            /\ run' = [run EXCEPT ![p].at = "setUp", ![p].tenant = t.id]
            /\ UNCHANGED lock
       \/ /\ db /= {} /\ ~\E t \in db : db = {t} /\ Theirs(t, run[p].who)
          /\ Over(p)
    /\ UNCHANGED <<db, log, config, claude, runs, faults, cut, added>>

\* The tenant as the transaction leaves it: made or found, the person in it
\* and its admin, the pack applied.
Whole(i, who) ==
    IF Exists(i)
    THEN [Tenant(i) EXCEPT !.people = @ \cup {who}, !.admins = @ \cup {who},
                           !.pack = TRUE]
    ELSE [id |-> i, name |-> who, people |-> {who}, admins |-> {who},
          pack |-> TRUE, token |-> FALSE]

\* Mutant: the tenant is committed before the person and the pack.
setUp_Halves(p) ==
    /\ At(p, "solo", "setUp")
    /\ LET i == run[p].tenant
           who == run[p].who
       IN \/ /\ db' = {Whole(i, who)}
             /\ To(p, "write") /\ UNCHANGED <<lock, faults>>
          \/ /\ db' = {[Whole(i, who) EXCEPT !.pack = FALSE]}
             /\ To(p, "write") /\ Fails /\ UNCHANGED lock
    /\ UNCHANGED <<log, config, claude, runs, cut, added>>

\* setUp(), in one transaction, which may fail whole.
setUp(p) ==
    /\ At(p, "solo", "setUp")
    /\ \/ /\ db' = {Whole(run[p].tenant, run[p].who)}
          /\ To(p, "write")
          /\ UNCHANGED <<lock, faults>>
       \/ Over(p) /\ Fails /\ UNCHANGED db
    /\ UNCHANGED <<log, config, claude, runs, cut, added>>

Ours(p) == [by |-> run[p].cmd, tenant |-> run[p].tenant, trust |-> "none"]

\* Mutant: a config.json made meanwhile is written over.
Created_Over(p) == config' = Ours(p)

\* createFileExclusive(): whole, and never over one made meanwhile.
Created(p) == config = None /\ config' = Ours(p)

\* config.json last; one made meanwhile is left as it is.
Write(p) ==
    /\ At(p, "solo", "write")
    /\ \/ Created(p) /\ To(p, "load") /\ UNCHANGED <<lock, faults>>
       \/ config /= None /\ Over(p) /\ UNCHANGED <<config, faults>>
       \/ Over(p) /\ Fails /\ UNCHANGED config
    /\ UNCHANGED <<db, log, claude, runs, cut, added>>

\* It is loaded as the server will load it, or removed again.
Load(p) ==
    /\ At(p, "solo", "load")
    /\ Over(p)
    /\ \/ UNCHANGED <<config, faults>>
       \/ Fails /\ config' = None
    /\ UNCHANGED <<db, log, claude, runs, cut, added>>

initSolo(p) == Look(p) \/ setUp(p) \/ Write(p) \/ Load(p)

(***************************************************************************)
(* init --team: config.json first, then the tenant and its token, in one   *)
(* transaction; if that fails, config.json goes again.                     *)
(***************************************************************************)
LookEmpty(p) ==
    /\ At(p, "team", "look")
    /\ IF db = {} THEN To(p, "write") /\ UNCHANGED lock ELSE Over(p)
    /\ UNCHANGED <<db, log, config, claude, runs, faults, cut, added>>

WriteFirst(p) ==
    /\ At(p, "team", "write")
    /\ \/ Created(p) /\ To(p, "make") /\ UNCHANGED <<lock, faults>>
       \/ config /= None /\ Over(p) /\ UNCHANGED <<config, faults>>
       \/ Over(p) /\ Fails /\ UNCHANGED config
    /\ UNCHANGED <<db, log, claude, runs, cut, added>>

\* Mutant: config.json stays when the tenant can't be made.
Make_Kept(p) ==
    /\ At(p, "team", "make")
    /\ Over(p)
    /\ \/ /\ db' = db \cup {Empty(run[p].tenant, "team", TRUE)}
          /\ UNCHANGED faults
       \/ Fails /\ UNCHANGED db
    /\ UNCHANGED <<log, config, claude, runs, cut, added>>

Make(p) ==
    /\ At(p, "team", "make")
    /\ Over(p)
    /\ \/ /\ db' = db \cup {Empty(run[p].tenant, "team", TRUE)}
          /\ UNCHANGED <<config, faults>>
       \/ Fails /\ config' = None /\ UNCHANGED db
    /\ UNCHANGED <<log, claude, runs, cut, added>>

initTeam(p) == LookEmpty(p) \/ WriteFirst(p) \/ Make(p)

(***************************************************************************)
(* connect claude-desktop.                                                 *)
(***************************************************************************)

\* Nothing is written for a tenant that isn't there.
LookTenant(p) ==
    /\ At(p, "connect", "look")
    /\ IF Exists(run[p].tenant) THEN To(p, "claude") /\ UNCHANGED lock
       ELSE Over(p)
    /\ UNCHANGED <<db, log, config, claude, runs, faults, cut, added>>

\* Mutant: config.json isn't put back.
RollBack_ClaudeOnly(p) ==
    /\ claude' = IF "claude" \in run[p].wrote THEN run[p].text ELSE claude
    /\ UNCHANGED config
    /\ Over(p)

\* The files written are put back as they were, in the other order, and the
\* command is over (rollBack()).
RollBack(p) ==
    /\ claude' = IF "claude" \in run[p].wrote THEN run[p].text ELSE claude
    /\ config' = IF "config" \in run[p].wrote THEN run[p].previous ELSE config
    /\ Over(p)

FailsBack(p) == RollBack(p) /\ Fails

\* Mutant: what else Claude Desktop's config holds isn't kept.
Merged_Alone(p) == [ours |-> TRUE, others |-> {}]

\* The openhoard server, beside what else the config held when it was read.
Merged(p) == [run[p].text EXCEPT !.ours = TRUE]

\* 1. OpenHoard in Claude Desktop's config, unless it is there.
PutServer(p) ==
    /\ At(p, "connect", "claude")
    /\ \/ /\ run[p].text.ours
          /\ To(p, "approve")
          /\ UNCHANGED claude
       \/ /\ ~run[p].text.ours
          /\ claude' = Merged(p)
          /\ run' = [run EXCEPT ![p].at = "approve",
                                ![p].wrote = @ \cup {"claude"}]
    /\ UNCHANGED <<db, log, lock, config, runs, faults, cut, added>>

\* 2. The client in OpenHoard's, unless it is listed; it is loaded again.
Approve(p) ==
    /\ At(p, "connect", "approve")
    /\ \/ /\ run[p].raw.trust = "commercial"
          /\ To(p, "link")
          /\ UNCHANGED config
       \/ /\ run[p].raw.trust = "none"
          /\ config' = [run[p].raw EXCEPT !.trust = "commercial"]
          /\ run' = [run EXCEPT ![p].at = "link", ![p].previous = config,
                                ![p].wrote = @ \cup {"config"}]
    /\ UNCHANGED <<db, log, lock, claude, runs, faults, cut, added>>

\* 3. A sign-in link, refused for someone who may not sign in.
Link(p) ==
    /\ At(p, "connect", "link")
    /\ \/ To(p, "record") /\ UNCHANGED <<lock, config, claude, faults>>
       \/ FailsBack(p)
    /\ UNCHANGED <<db, log, runs, cut, added>>

\* The approval is recorded, if it is this run's.
Record(p) ==
    /\ At(p, "connect", "record")
    /\ \/ /\ log' = IF "config" \in run[p].wrote THEN log \cup {run[p].tenant}
                    ELSE log
          /\ Over(p)
          /\ UNCHANGED <<config, claude, faults>>
       \/ FailsBack(p) /\ UNCHANGED log
    /\ UNCHANGED <<db, runs, cut, added>>

connect(p) ==
    LookTenant(p) \/ PutServer(p) \/ Approve(p) \/ Link(p) \/ Record(p)

(***************************************************************************)
(* What happens to them.                                                   *)
(***************************************************************************)

\* A program is cut short: its lock is stale, and the next takes it over.
Crash(p) ==
    /\ run[p].at /= "idle"
    /\ Fails
    /\ Over(p)
    /\ cut' = IF At(p, "team", "make") \/ run[p].wrote /= {}
              THEN cut \cup {run[p].tenant} ELSE cut
    /\ UNCHANGED <<db, log, config, claude, runs, added>>

\* Another program is added to Claude Desktop's config: while no connect has
\* read it and not written it yet.
Edit ==
    /\ ~Connecting
    /\ \E e \in Entries \ claude.others :
         /\ claude' = [claude EXCEPT !.others = @ \cup {e}]
         /\ added' = added \cup {e}
    /\ UNCHANGED <<db, log, lock, config, run, runs, faults, cut>>

Init ==
    /\ db = {} /\ log = {} /\ lock = Free
    /\ config = None /\ claude = NoText
    /\ run = [p \in Programs |-> Idle]
    /\ runs = 0 /\ faults = 0 /\ cut = {} /\ added = {}

Next ==
    \/ \E p \in Programs :
         \/ \E cmd \in {"solo", "team", "admin", "connect", "serve"},
               who \in People \cup {"team"} : Begin(p, cmd, who)
         \/ Open(p) \/ Serve(p) \/ tenantCreate(p)
         \/ initSolo(p) \/ initTeam(p) \/ connect(p) \/ Crash(p)
    \/ Edit

Spec == Init /\ [][Next]_vars

(***************************************************************************)
(* What it is for.                                                         *)
(***************************************************************************)
Making == \E p \in Programs : At(p, "team", "make")

\* A config.json names a tenant that is wholly set up, whatever failed or was
\* cut short (but an init --team between its two writes).
ConfigIsWhole ==
    config /= None /\ ~Making /\ config.tenant \notin cut
        => /\ Exists(config.tenant)
           /\ LET t == Tenant(config.tenant)
              IN IF config.by = "team" THEN t.token
                 ELSE t.pack /\ t.admins = t.people /\ t.people = {t.name}

\* Inits never leave two tenants, nor one inside another's: whoever is in a
\* tenant is its only person, by the name it was made with.
OneEach ==
    \A t \in db :
        /\ t.people \subseteq {t.name}
        /\ t.people /= {} \/ t.token
               => \A u \in db \ {t} : u.people = {} /\ ~u.token

\* A tenant without its config.json is picked up by the same command again.
CanBeFinished ==
    config = None /\ lock = Free
        => \A t \in db : t.people /= {} /\ db = {t} => Theirs(t, t.name)

\* What connect did it recorded, and what it didn't finish it undid: above
\* all the approval.  What else was in Claude Desktop's config stays.
ConnectIsWhole ==
    /\ claude.others = added
    /\ ~Connecting /\ config.tenant \notin cut
           => /\ (config.trust = "commercial") = (config.tenant \in log)
              /\ config.trust = "commercial" => claude.ours

SetUpIsWhole ==
    ConfigIsWhole /\ OneEach /\ CanBeFinished /\ ConnectIsWhole
=============================================================================
