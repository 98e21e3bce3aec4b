----------------------------- MODULE Supervised -----------------------------
(***************************************************************************)
(* The server as another program's child: Windows' service (service.ts:    *)
(* `service run` starts it again when it fails, `service stop` asks it to  *)
(* stop with a file, and ends the task when that isn't heard) and `tunnel` *)
(* (tunnel.ts: cloudflared beside it, told the address people reach it at, *)
(* and a way in at that address).  Both hold a channel to the server,      *)
(* which stops cleanly when it closes (main.ts).                           *)
(***************************************************************************)
EXTENDS Naturals

CONSTANTS
    MaxRuns,      \* BOUND: times the task or the tunnel is started
    MaxFaults,    \* BOUND: servers that fail, tunnels that go, late answers
    MaxPolls      \* BOUND: how often stop asks whether it ended (10 s each)

VARIABLES
    parent,    \* "task" or "tunnel": who starts the server
    server,    \* the child
    sup,       \* `service run`, or the tunnel command
    file,      \* service.stop is there
    stopper,   \* `service stop`
    tunnel,    \* cloudflared
    access,    \* the signer's passkeys and unused invites, by address
    runs, faults

vars == <<parent, server, sup, file, stopper, tunnel, access, runs, faults>>

\* The server: its channel to the parent, whether its failure was its own.
Servers ==
    [st : {"none", "starting", "up", "stopping", "gone"}, channel : BOOLEAN,
     clean : BOOLEAN, late : BOOLEAN]
NoServer == [st |-> "none", channel |-> FALSE, clean |-> TRUE, late |-> FALSE]

Supervisors ==
    [at : {"off", "begin", "spawn", "watch", "wait",
           "connecting", "prepare", "invite", "settle", "start", "serving",
           "ending"},
     stopping : BOOLEAN,      \* asked to stop
     asked : BOOLEAN,         \* a request is somebody's of this run
     link : BOOLEAN]          \* an invite of this run's was issued
Off == [at |-> "off", stopping |-> FALSE, asked |-> FALSE, link |-> FALSE]

\* early: it asked before its supervisor watched a server that was up, which
\* may take longer to start than stop waits, or before it had removed what it
\* takes for an old request.
Stoppers ==
    [at : {"idle", "query", "write", "poll", "end", "done"},
     polls : 0..MaxPolls, early : BOOLEAN]
NoStopper == [at |-> "idle", polls |-> 0, early |-> FALSE]

\* An address: the named tunnel's, or the quick one of a run.
Named == 0
Addresses == 0..MaxRuns

TypeOK ==
    /\ parent \in {"task", "tunnel"}
    /\ server \in Servers
    /\ sup \in Supervisors
    /\ file \in BOOLEAN
    /\ stopper \in Stoppers
    /\ tunnel \in [st : {"none", "up", "gone"}, at : Addresses, told : BOOLEAN]
    /\ access \in [passkeys : SUBSET Addresses, invites : SUBSET Addresses,
                   may : BOOLEAN, killed : BOOLEAN]
    /\ runs \in 0..MaxRuns /\ faults \in 0..MaxFaults

Alive == server.st \in {"starting", "up", "stopping"}
Faulty == faults < MaxFaults /\ faults' = faults + 1
Goes(at) == sup' = [sup EXCEPT !.at = at]

(***************************************************************************)
(* The server (main.ts).                                                   *)
(***************************************************************************)

\* Started with a channel; none but its parent closes it.
Started == [NoServer EXCEPT !.st = "starting", !.channel = TRUE]

\* It listens; a channel closed meanwhile stops it now.
Listening ==
    /\ server.st = "starting"
    /\ server' = [server EXCEPT !.st =
                      IF server.channel THEN "up" ELSE "stopping"]
    /\ UNCHANGED <<parent, sup, file, stopper, tunnel, access, runs, faults>>

\* shutdown(), as the channel closes.
Disconnected ==
    /\ server.st = "up" /\ ~server.channel
    /\ server' = [server EXCEPT !.st = "stopping"]
    /\ UNCHANGED <<parent, sup, file, stopper, tunnel, access, runs, faults>>

\* shutdown(), for a signal of someone else's.
Shutdown ==
    /\ server.st = "up"
    /\ Faulty
    /\ server' = [server EXCEPT !.st = "stopping"]
    /\ UNCHANGED <<parent, sup, file, stopper, tunnel, access, runs>>

\* It stops by itself, at the latest when it forces its exit.
Stopped ==
    /\ server.st = "stopping"
    /\ server' = [server EXCEPT !.st = "gone"]
    /\ UNCHANGED <<parent, sup, file, stopper, tunnel, access, runs, faults>>

\* It fails: at its start (the database is held, the port taken) or later.
ServerFails ==
    /\ server.st \in {"starting", "up"}
    /\ Faulty
    /\ server' = [server EXCEPT !.st = "gone", !.clean = FALSE]
    /\ UNCHANGED <<parent, sup, file, stopper, tunnel, access, runs>>

(***************************************************************************)
(* service run (supervise()), as Task Scheduler starts it.                 *)
(***************************************************************************)
Running == sup.at /= "off"

\* At boot, or by service start; one that runs goes on (IgnoreNew).
TaskStart ==
    /\ parent = "task" /\ ~Running /\ runs < MaxRuns
    /\ stopper.at \in {"idle", "done"}
    /\ sup' = [Off EXCEPT !.at = "begin"]
    /\ runs' = runs + 1
    /\ stopper' = NoStopper
    /\ UNCHANGED <<parent, server, file, tunnel, access, faults>>

\* Mutant: an old request isn't removed.
Begin_Kept ==
    /\ sup.at = "begin"
    /\ Goes("spawn")
    /\ UNCHANGED <<parent, server, file, stopper, tunnel, access,
                   runs, faults>>

\* A request of before isn't for this run.
Begin ==
    /\ sup.at = "begin"
    /\ Goes("spawn")
    /\ file' = FALSE
    /\ UNCHANGED <<parent, server, stopper, tunnel, access, runs, faults>>

Spawn ==
    /\ sup.at = "spawn"
    /\ server' = Started
    /\ Goes("watch")
    /\ UNCHANGED <<parent, file, stopper, tunnel, access, runs, faults>>

\* Each second it looks for the file, and closes the channel.
AskedToStop ==
    /\ sup.at = "watch" /\ file /\ ~sup.stopping /\ Alive
    /\ sup' = [sup EXCEPT !.stopping = TRUE]
    /\ server' = [server EXCEPT !.channel = FALSE]
    /\ UNCHANGED <<parent, file, stopper, tunnel, access, runs, faults>>

\* Mutant: a server that failed as it was asked to stop is started again.
Again_Whenever == ~server.clean

\* Whether the server, gone, is started again: it failed, unasked.
Again == ~server.clean /\ ~sup.stopping /\ ~file

Exited ==
    /\ sup.at = "watch" /\ server.st = "gone"
    /\ IF Again THEN Goes("wait") ELSE sup' = Off
    /\ file' = IF Again \/ ~(sup.stopping \/ file) THEN file ELSE FALSE
    /\ UNCHANGED <<parent, server, stopper, tunnel, access, runs, faults>>

\* Five seconds, doubling to a minute.
Waited ==
    /\ sup.at = "wait"
    /\ Goes("spawn")
    /\ UNCHANGED <<parent, server, file, stopper, tunnel, access,
                   runs, faults>>

superviseTask == Begin \/ Spawn \/ AskedToStop \/ Exited \/ Waited

(***************************************************************************)
(* service stop (stopTask()).                                              *)
(***************************************************************************)
Stop ==
    /\ parent = "task" /\ stopper.at = "idle"
    /\ stopper' = [stopper EXCEPT !.at = IF Running THEN "write" ELSE "done"]
    /\ UNCHANGED <<parent, server, sup, file, tunnel, access, runs, faults>>

Write ==
    /\ stopper.at = "write"
    /\ file' = TRUE
    /\ stopper' = [stopper EXCEPT !.at = "poll",
         !.early = sup.at /= "watch" \/ server.st = "starting"]
    /\ sup' = [sup EXCEPT !.asked = Running]
    /\ UNCHANGED <<parent, server, tunnel, access, runs, faults>>

\* What takes less than ten seconds: the supervisor's look at the file, and
\* a clean stop, which forces itself by then.
Prompt ==
    \/ sup.at = "watch" /\ (server.st = "gone" \/ (file /\ ~sup.stopping))
    \/ sup.at \in {"begin", "spawn"}
    \/ server.st = "stopping" /\ server.late
    \/ server.st = "up" /\ ~server.channel

\* Ended; or ten seconds more; or ended by force, once the file is gone.
Poll ==
    /\ stopper.at = "poll"
    /\ stopper' = [stopper EXCEPT
         !.at = IF ~Running THEN "done"
                ELSE IF stopper.polls = MaxPolls THEN "end" ELSE "poll",
         !.polls = IF Running /\ @ < MaxPolls THEN @ + 1 ELSE @]
    /\ Running => ~Prompt
    /\ server' = [server EXCEPT
         !.late = @ \/ (Running /\ server.st = "stopping")]
    /\ file' = (file /\ (Running => stopper.polls < MaxPolls))
    /\ UNCHANGED <<parent, sup, tunnel, access, runs, faults>>

\* Task Scheduler ends the whole tree at once: the server mid-write.
EndTask ==
    /\ stopper.at = "end"
    /\ server' = [server EXCEPT !.st = IF Alive THEN "gone" ELSE @]
    /\ access' = [access EXCEPT
         !.killed = @ \/ (server.st \in {"up", "stopping"} /\ ~stopper.early)]
    /\ sup' = Off
    /\ stopper' = [stopper EXCEPT !.at = "done"]
    /\ UNCHANGED <<parent, file, tunnel, runs, faults>>

stopTask == Stop \/ Write \/ Poll \/ EndTask

(***************************************************************************)
(* tunnel (runTunnel()).                                                   *)
(***************************************************************************)

\* The database is opened (refused while a server has it) and cloudflared
\* started, quick or named; the signer may have been locked meanwhile.
RunTunnel ==
    /\ parent = "tunnel" /\ ~Running /\ ~Alive /\ runs < MaxRuns
    /\ sup' = [Off EXCEPT !.at = "connecting"]
    /\ \E a \in {Named, runs + 1} :
         tunnel' = [st |-> "up", at |-> a, told |-> FALSE]
    /\ server' = NoServer
    /\ runs' = runs + 1
    /\ \E b \in BOOLEAN : access' = [access EXCEPT !.may = b]
    /\ UNCHANGED <<parent, file, stopper, faults>>

Quick(a) == a /= Named

\* Mutant: only the invites of other addresses go.
Prepared_Here(a) ==
    [access EXCEPT !.passkeys = {k \in @ : ~Quick(k) \/ k = a},
                   !.invites = @ \cap {a}]

\* Mutant: passkeys of a quick tunnel's address stay.
Prepared_Stranded(a) == [access EXCEPT !.invites = {}]

\* What is left of the signer's ways in: no passkey at an address that won't
\* come back, no invite not yet used.
Prepared(a) ==
    [access EXCEPT !.passkeys = {k \in @ : ~Quick(k) \/ k = a}, !.invites = {}]

\* It is connected (tunnelUp()).
Connected ==
    /\ sup.at = "connecting" /\ tunnel.st = "up" /\ ~sup.stopping
    /\ Goes("prepare")
    /\ UNCHANGED <<parent, server, file, stopper, tunnel, access,
                   runs, faults>>

Prepare ==
    /\ sup.at = "prepare"
    /\ access' = Prepared(tunnel.at)
    /\ Goes("invite")
    /\ UNCHANGED <<parent, server, file, stopper, tunnel, runs, faults>>

\* An invite for this address, for a signer with no passkey here who may have
\* one; and the database is closed.
Invite ==
    /\ sup.at = "invite"
    /\ IF tunnel.at \notin access.passkeys /\ access.may
       THEN /\ access' = [access EXCEPT !.invites = {tunnel.at}]
            /\ sup' = [sup EXCEPT !.at = "settle", !.link = TRUE]
       ELSE Goes("settle") /\ UNCHANGED access
    /\ UNCHANGED <<parent, server, file, stopper, tunnel, runs, faults>>

\* A turn of the event loop and a moment more: what happened meanwhile is
\* heard, and then nothing is announced and no server started.
Settle ==
    /\ sup.at = "settle"
    /\ tunnel.st = "gone" => tunnel.told
    /\ Goes(IF sup.stopping \/ tunnel.st = "gone" THEN "ending" ELSE "start")
    /\ UNCHANGED <<parent, server, file, stopper, tunnel, access,
                   runs, faults>>

StartServer ==
    /\ sup.at = "start"
    /\ server' = Started
    /\ Goes("serving")
    /\ UNCHANGED <<parent, file, stopper, tunnel, access, runs, faults>>

\* cloudflared goes by itself, and the command is told a moment later.
TunnelGoes ==
    /\ parent = "tunnel" /\ tunnel.st = "up" /\ Running
    /\ Faulty
    /\ tunnel' = [tunnel EXCEPT !.st = "gone"]
    /\ UNCHANGED <<parent, server, sup, file, stopper, access, runs>>

Told ==
    /\ tunnel.st = "gone" /\ ~tunnel.told
    /\ tunnel' = [tunnel EXCEPT !.told = TRUE]
    /\ UNCHANGED <<parent, server, sup, file, stopper, access, runs, faults>>

\* end(): the server's channel closes, cloudflared is asked, and ended.
Ends ==
    /\ server' = [server EXCEPT !.channel = FALSE]
    /\ tunnel' = [tunnel EXCEPT !.st = IF @ = "up" THEN "gone" ELSE @]

\* A signal, heard at any wait.
Signal ==
    /\ parent = "tunnel" /\ ~sup.stopping
    /\ sup.at \in {"connecting", "prepare", "invite", "settle", "serving"}
    /\ Ends
    /\ sup' = [sup EXCEPT !.stopping = TRUE,
                          !.at = IF @ = "connecting" THEN "ending" ELSE @]
    /\ UNCHANGED <<parent, file, stopper, access, runs, faults>>

\* One of the two is gone, or cloudflared didn't connect in time: the other
\* is stopped too.
OneGone ==
    /\ \/ sup.at = "serving" /\ (server.st = "gone" \/ tunnel.told)
       \/ sup.at = "connecting"
    /\ Ends
    /\ Goes("ending")
    /\ UNCHANGED <<parent, file, stopper, access, runs, faults>>

\* Mutant: the command doesn't wait for them.
BothGone_Now == TRUE

\* Both are gone before the command is over (serverGone, tunnelGone).
BothGone == ~Alive /\ tunnel.st /= "up"

\* What is still running when it ends is ended; the database was closed.
TunnelOver ==
    /\ sup.at = "ending" /\ BothGone
    /\ sup' = Off
    /\ UNCHANGED <<parent, server, file, stopper, tunnel, access,
                   runs, faults>>

runTunnel ==
    \/ RunTunnel \/ Connected \/ Prepare \/ Invite \/ Settle \/ StartServer
    \/ TunnelGoes \/ Told \/ Signal \/ OneGone \/ TunnelOver

\* Someone opens an invite's link at the address: one passkey, there.
Enrol ==
    /\ parent = "tunnel" /\ server.st = "up" /\ tunnel.st = "up"
    /\ access.invites /= {}
    /\ access' = [access EXCEPT !.passkeys = @ \cup {tunnel.at},
                             !.invites = {}]
    /\ UNCHANGED <<parent, server, sup, file, stopper, tunnel, runs, faults>>

Init ==
    /\ parent \in {"task", "tunnel"}
    /\ server = NoServer /\ sup = Off /\ file = FALSE /\ stopper = NoStopper
    /\ tunnel = [st |-> "none", at |-> Named, told |-> FALSE]
    /\ access \in [passkeys : SUBSET {Named}, invites : {{}}, may : {TRUE},
                   killed : {FALSE}]
    /\ runs = 0 /\ faults = 0

Next ==
    \/ Listening \/ Disconnected \/ Shutdown \/ Stopped \/ ServerFails
    \/ TaskStart \/ superviseTask \/ stopTask
    \/ runTunnel \/ Enrol

Spec == Init /\ [][Next]_vars

(***************************************************************************)
(* What it is for.                                                         *)
(***************************************************************************)

\* A stop that says so leaves nothing running; nor does a tunnel command.
NoneLeft ==
    /\ stopper.at = "done" => ~Running /\ ~Alive
    /\ ~Running => ~Alive /\ tunnel.st /= "up"

\* A server is ended mid-write only for a request made before it was up; any
\* other is answered in time.
StopsCleanly == ~access.killed

\* A run is stopped only when it was asked to, not by what was left of an
\* earlier stop.
StopsWhenAsked ==
    parent = "task" /\ sup.stopping => sup.asked

\* A server reached through a tunnel is entered only by this run's link, or a
\* passkey at an address that is the signer's to keep.
WayIn ==
    parent = "tunnel" /\ server.st = "up"
        => /\ access.invites \subseteq (IF sup.link THEN {tunnel.at} ELSE {})
           /\ \A k \in access.passkeys : Quick(k) => k = tunnel.at

RunsAsToldTo == NoneLeft /\ StopsCleanly /\ StopsWhenAsked /\ WayIn
=============================================================================
