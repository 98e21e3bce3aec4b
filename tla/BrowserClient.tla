----------------------------- MODULE BrowserClient -----------------------------
(***************************************************************************)
(* The browser extension's connection to a person's server: connecting and *)
(* disconnecting on its options page, saving and renewing in its worker    *)
(* (clients/extension lib.ts), and what the server makes of the tokens it  *)
(* presents (core/identity oauth.ts).  The page and the worker share the   *)
(* browser's storage, and nothing else.                                    *)
(*                                                                         *)
(* A connection is <<grant, n>>, the n-th access and refresh token of that *)
(* grant.  What is saved, the server's answers other than 401, the checks  *)
(* of its metadata and of the answer to a sign-in, and a grant's age are   *)
(* left out: a sign-in gives a grant or ends.                              *)
(***************************************************************************)
EXTENDS Integers, FiniteSets

CONSTANTS
    Saves,
    Gaps,         \* whether the page stores between the worker's look at the
                  \* storage and its own store, some microseconds later
    MaxGrants,    \* BOUND: times the person connects
    MaxTokens,    \* BOUND: tokens of a grant
    MaxFaults     \* BOUND: workers ended and answers lost

VARIABLES
    grant,     \* oauth_grants, and how many of its access tokens have lapsed
    kept,      \* the connection in the extension's storage
    save,      \* what the worker is asked to save
    renewing,  \* the worker's one renewal
    page,      \* what the options page is doing
    faults

vars == <<grant, kept, save, renewing, page, faults>>

GrantIds == 1..MaxGrants
Tokens == 1..MaxTokens
None == <<0, 0>>
Connections == {None} \cup (GrantIds \X Tokens)

NotMade == [end |-> "unmade", gen |-> 0, lapsed |-> 0]
Idle == [phase |-> "idle", c |-> None, tried |-> FALSE]
NoRenewal == [phase |-> "none", c |-> None]
Resting == [phase |-> "rests", c |-> None]

TypeOK ==
    /\ grant \in [GrantIds -> [
           end : {"unmade", "live", "revoked", "replayed"},
           gen : 0..MaxTokens, lapsed : 0..MaxTokens]]
    /\ kept \in Connections
    /\ save \in [Saves -> [phase : {"idle", "renews", "sends", "refused"},
                           c : Connections, tried : BOOLEAN]]
    /\ renewing \in [phase : {"none", "starts", "asks", "given", "refused",
                              "failed", "stores"}, c : Connections]
    /\ page \in [phase : {"rests", "connects", "drops", "tells"},
                 c : Connections]
    /\ faults \in 0..MaxFaults

Live(g) == grant[g].end = "live"

(***************************************************************************)
(* The server.                                                             *)
(***************************************************************************)

\* A token of that grant, not lapsed; one about to is still taken, or is not.
Honoured(c) == Live(c[1]) /\ c[2] <= grant[c[1]].gen
Lapsed(c) == c[2] <= grant[c[1]].lapsed

\* The current refresh token gives the next; the one before it ends the grant.
Refreshed(c) ==
    LET g == c[1]
    IN CASE Live(g) /\ c[2] = grant[g].gen ->
              [grant EXCEPT ![g].gen = @ + 1]
         [] Live(g) /\ c[2] = grant[g].gen - 1 ->
              [grant EXCEPT ![g].end = "replayed"]
         [] OTHER -> grant

Gives(c) == Live(c[1]) /\ c[2] = grant[c[1]].gen

Within(c) == Gives(c) => grant[c[1]].gen < MaxTokens

\* Only the current refresh token ends its grant.
RevokedByToken(c) ==
    IF Gives(c) THEN [grant EXCEPT ![c[1]].end = "revoked"] ELSE grant

(***************************************************************************)
(* A save.                                                                 *)
(***************************************************************************)

\* Mutant: each save renews by itself, the last of them watched.
Joined_Own(c) == [phase |-> "starts", c |-> c]

\* One renewal at a time: a save that comes while it runs shares it.
Joined(c) ==
    IF renewing = NoRenewal THEN [phase |-> "starts", c |-> c] ELSE renewing

Start(s) ==
    /\ save[s] = Idle /\ kept /= None
    /\ save' = [save EXCEPT ![s] =
           [phase |-> IF Lapsed(kept) THEN "renews" ELSE "sends",
            c |-> kept, tried |-> FALSE]]
    /\ renewing' = IF Lapsed(kept) THEN Joined(kept) ELSE renewing
    /\ UNCHANGED <<grant, kept, page, faults>>

\* Taken, or failed in another way than 401.
SendEnds(s) ==
    /\ save[s].phase = "sends"
    /\ save' = [save EXCEPT ![s] = Idle]
    /\ UNCHANGED <<grant, kept, renewing, page, faults>>

Unauthorized(s) ==
    /\ save[s].phase = "sends"
    /\ ~Honoured(save[s].c) \/ Lapsed(save[s].c)
    /\ IF save[s].tried
       THEN /\ save' = [save EXCEPT ![s].phase = "refused"]
            /\ UNCHANGED renewing
       ELSE /\ save' = [save EXCEPT ![s].phase = "renews", ![s].tried = TRUE]
            /\ renewing' = Joined(save[s].c)
    /\ UNCHANGED <<grant, kept, page, faults>>

\* Mutant: the person is told to connect, and the connection stays.
Forgotten_Not == kept
Forgotten == None

\* Refused a second time, with what was renewed.
Forget(s) ==
    /\ save[s].phase = "refused"
    /\ kept' = Forgotten
    /\ save' = [save EXCEPT ![s] = Idle]
    /\ UNCHANGED <<grant, renewing, page, faults>>

(***************************************************************************)
(* The renewal.                                                            *)
(***************************************************************************)

\* What it came to goes to every save that waits for it.
Settled(result) ==
    /\ renewing' = NoRenewal
    /\ save' = [s \in Saves |->
           IF save[s].phase /= "renews" THEN save[s]
           ELSE IF result = None THEN Idle
           ELSE [save[s] EXCEPT !.phase = "sends", !.c = result]]

\* Mutant: the connection the save holds is renewed, whatever is kept by now.
AlreadyRenewed_Not(stale) == FALSE

\* By another save, or another connection stands.
AlreadyRenewed(stale) == kept /= stale

Renew ==
    /\ renewing.phase = "starts"
    /\ IF AlreadyRenewed(renewing.c) THEN Settled(kept)
       ELSE renewing' = [renewing EXCEPT !.phase = "asks"] /\ UNCHANGED save
    /\ UNCHANGED <<grant, kept, page, faults>>

Answer ==
    /\ renewing.phase = "asks"
    /\ Within(renewing.c)
    /\ grant' = Refreshed(renewing.c)
    /\ renewing' = [renewing EXCEPT
           !.phase = IF Gives(renewing.c) THEN "given" ELSE "refused"]
    /\ UNCHANGED <<kept, save, page, faults>>

\* Not reached, a 5xx, or its answer lost.
NoAnswer ==
    /\ renewing.phase = "asks" /\ faults < MaxFaults
    /\ \/ UNCHANGED grant
       \/ Within(renewing.c) /\ grant' = Refreshed(renewing.c)
    /\ renewing' = [renewing EXCEPT !.phase = "failed"]
    /\ faults' = faults + 1
    /\ UNCHANGED <<kept, save, page>>

\* Mutant: what couldn't be asked was refused.
Refusals_All == {"refused", "failed"}
Refusals == {"refused"}

Refuse ==
    /\ renewing.phase \in Refusals
    /\ kept' = None
    /\ Settled(None)
    /\ UNCHANGED <<grant, page, faults>>

\* The connection stands, and the saves say that the server wasn't reached.
Fail ==
    /\ renewing.phase = "failed"
    /\ Settled(None)
    /\ UNCHANGED <<grant, kept, page, faults>>

\* Mutant: what the person did meanwhile isn't looked at.
Stands_Always(c) == TRUE

\* Neither disconnected nor connected afresh meanwhile.
Stands(c) == kept = c

Look ==
    /\ renewing.phase = "given"
    /\ IF Stands(renewing.c)
       THEN renewing' = [renewing EXCEPT !.phase = "stores"] /\ UNCHANGED save
       ELSE Settled(kept)
    /\ UNCHANGED <<grant, kept, page, faults>>

\* Mutant: the refresh token that was used is kept.
NextTokens_Same(c) == c
NextTokens(c) == <<c[1], c[2] + 1>>

Store ==
    /\ renewing.phase = "stores"
    /\ kept' = NextTokens(renewing.c)
    /\ Settled(NextTokens(renewing.c))
    /\ UNCHANGED <<grant, page, faults>>

\* The browser ends an idle worker, or is closed: its request may yet arrive.
WorkerEnds ==
    /\ faults < MaxFaults /\ \E s \in Saves : save[s] /= Idle
    /\ \/ UNCHANGED grant
       \/ renewing.phase = "asks" /\ Within(renewing.c)
          /\ grant' = Refreshed(renewing.c)
    /\ save' = [s \in Saves |-> Idle] /\ renewing' = NoRenewal
    /\ faults' = faults + 1
    /\ UNCHANGED <<kept, page>>

(***************************************************************************)
(* The options page.                                                       *)
(***************************************************************************)
PageStores == Gaps \/ renewing.phase /= "stores"

\* The person allowed it, and the code is redeemed.
connect(g) ==
    /\ page = Resting /\ grant[g] = NotMade
    /\ \A h \in GrantIds : h < g => grant[h] /= NotMade
    /\ grant' = [grant EXCEPT ![g] = [end |-> "live", gen |-> 1, lapsed |-> 0]]
    /\ page' = [phase |-> "connects", c |-> <<g, 1>>]
    /\ UNCHANGED <<kept, save, renewing, faults>>

Connected ==
    /\ page.phase = "connects" /\ PageStores
    /\ kept' = page.c /\ page' = Resting
    /\ UNCHANGED <<grant, save, renewing, faults>>

disconnect ==
    /\ page = Resting /\ kept /= None
    /\ page' = [phase |-> "drops", c |-> kept]
    /\ UNCHANGED <<grant, kept, save, renewing, faults>>

Drop ==
    /\ page.phase = "drops" /\ PageStores
    /\ kept' = None /\ page' = [page EXCEPT !.phase = "tells"]
    /\ UNCHANGED <<grant, save, renewing, faults>>

\* Best effort.
Tell ==
    /\ page.phase = "tells"
    /\ grant' \in {RevokedByToken(page.c), grant}
    /\ page' = Resting
    /\ UNCHANGED <<kept, save, renewing, faults>>

(***************************************************************************)
(* Meanwhile.                                                              *)
(***************************************************************************)

\* By an admin, a stop of the person, or the person themselves.
Revoked(g) ==
    /\ Live(g)
    /\ grant' = [grant EXCEPT ![g].end = "revoked"]
    /\ UNCHANGED <<kept, save, renewing, page, faults>>

\* A token lives for an hour: one newer than what a save began with, or was
\* given, outlives the save, and the page stores one before it lapses.
Lapse(g) ==
    /\ grant[g].lapsed < grant[g].gen
    /\ page /= [phase |-> "connects", c |-> <<g, 1>>]
    /\ \A s \in Saves : save[s] /= Idle =>
         LET n == grant[g].lapsed + IF save[s].tried THEN 2 ELSE 1
             c == save[s].c
         IN g < c[1] \/ (g = c[1] /\ n <= c[2])
    /\ grant' = [grant EXCEPT ![g].lapsed = @ + 1]
    /\ UNCHANGED <<kept, save, renewing, page, faults>>

Init ==
    /\ grant = [g \in GrantIds |-> NotMade]
    /\ kept = None /\ renewing = NoRenewal /\ page = Resting /\ faults = 0
    /\ save = [s \in Saves |-> Idle]

Worker ==
    \/ \E s \in Saves :
         Start(s) \/ SendEnds(s) \/ Unauthorized(s) \/ Forget(s)
    \/ Renew \/ Answer \/ NoAnswer \/ Refuse \/ Fail \/ Look \/ Store
    \/ WorkerEnds

Next ==
    \/ Worker \/ Connected \/ disconnect \/ Drop \/ Tell
    \/ \E g \in GrantIds : connect(g) \/ Revoked(g) \/ Lapse(g)

Spec == Init /\ [][Next]_vars

(***************************************************************************)
(* What it is for.                                                         *)
(***************************************************************************)

\* No grant ends as replayed unless a worker ended or an answer was lost.
NotReplayed == faults = 0 => \A g \in GrantIds : grant[g].end /= "replayed"

\* A save that waits has a renewal to wait for.
NoneLeftWaiting ==
    (\E s \in Saves : save[s].phase = "renews") => renewing /= NoRenewal

\* Only the person connects: the worker replaces a connection by its own next
\* tokens, or drops it.
WorkerAddsNone ==
    (page' = page /\ kept' /= kept) =>
        \/ kept' = None
        \/ kept /= None /\ kept' = <<kept[1], kept[2] + 1>>

\* What the worker was refused.
WasRefused ==
    {renewing.c} \cup {save[s].c : s \in {t \in Saves : save[t] /= save'[t]}}

\* The worker drops no connection that the server would still honour, unless
\* it was refused an earlier one.
DropsTheEnded ==
    (page' = page /\ kept' = None /\ kept /= None) =>
        \/ ~Live(kept[1])
        \/ \A c \in WasRefused : c[1] /= kept[1]

\* Who was refused twice and told to connect finds no connection.
ToldToConnect ==
    \A s \in Saves :
        (save[s].phase = "refused" /\ save'[s] = Idle /\ faults' = faults) =>
            kept' = None

ConnectionStands ==
    /\ WorkerAddsNone /\ DropsTheEnded /\ ToldToConnect
    /\ (NotReplayed /\ NoneLeftWaiting)'
=============================================================================
