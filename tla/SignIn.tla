------------------------------- MODULE SignIn -------------------------------
(***************************************************************************)
(* How the person of a built-in account comes in and is put out: sessions, *)
(* sign-in links, invites and passkeys (core/identity), and the requests   *)
(* that use them (apps/server: auth, passkeys; a tunnel's start).          *)
(*                                                                         *)
(* A transaction takes the person's row before what it changes, or changes *)
(* one row, so each is one step.  A request is several: its cookie is      *)
(* looked up, its transaction runs, the session the browser had is ended,  *)
(* and an answer that may be lost sets the new cookie.  A copied request   *)
(* may be answered at any time and in any browser.  Secrets hold; the      *)
(* WebAuthn checks (webauthn.ts) are one answer; time only makes sessions, *)
(* links, invites and ceremonies lapse.  OAuth codes and grants are        *)
(* Access's.                                                               *)
(***************************************************************************)
EXTENDS Naturals, FiniteSets

CONSTANTS
    Browsers,
    Requests,        \* requests that may be under way at once
    NumSessions,     \* bounds: of each kind, how many are ever made
    NumInvites,
    NumLinks,
    NumPasskeys,
    NumCeremonies,
    MaxEvents        \* bound: stops, starts of a tunnel, and what time ends

ASSUME SignInAssumption ==
    /\ Browsers # {}
    /\ NumSessions \in Nat /\ NumInvites \in Nat /\ NumLinks \in Nat
    /\ NumPasskeys \in Nat /\ NumCeremonies \in Nat /\ MaxEvents \in Nat

VARIABLES
    person,          \* users: locked_at, retired_at
    sessions, invites, links, passkeys,
    spent,           \* passkey_challenges
    ceremonies,      \* what the sealed cookies hold, by challenge
    cookie,          \* the session cookie each browser holds; 0 is none
    request,
    host,            \* where the server is reached
    events           \* what the bound counts

rows  == <<person, sessions, invites, links, passkeys, spent>>
kept  == <<ceremonies, cookie, host, events>>
vars  == <<rows, kept, request>>

States  == {"none", "open", "used", "over"}
NoRow   == [state |-> "none", via |-> "none", of |-> 0, asked |-> 0]
NoKey   == [state |-> "none", host |-> 0, invite |-> 0, asked |-> 0]
NoLink  == [state |-> "none", session |-> 0, replayed |-> FALSE]
NoneAsked == [kind |-> "none", invite |-> 0, session |-> 0]
Idle(b) == [pc |-> "idle", browser |-> b, kind |-> "none", what |-> 0,
            previous |-> 0, session |-> 0]
Kinds   == {"link", "invite", "add", "sign-in", "logout", "remove"}

Init ==
    /\ person = [locked |-> FALSE, retired |-> FALSE]
    /\ sessions = [s \in 1..NumSessions |-> NoRow]
    /\ invites = [i \in 1..NumInvites |-> "none"]
    /\ links = [l \in 1..NumLinks |-> NoLink]
    /\ passkeys = [k \in 1..NumPasskeys |-> NoKey]
    /\ spent = {}
    /\ ceremonies = [c \in 1..NumCeremonies |-> NoneAsked]
    /\ cookie = [b \in Browsers |-> 0]
    /\ request = [r \in Requests |-> Idle(CHOOSE b \in Browsers : TRUE)]
    /\ host = 1 /\ events = 0

Event == events < MaxEvents /\ events' = events + 1

Active == ~person.locked /\ ~person.retired

\* The next of its kind, if the bound leaves one.
Fresh(f, n) == f[n].state = "none" /\ \A m \in 1..n - 1 : f[m].state # "none"

-----------------------------------------------------------------------------
(* Ends.                                                                   *)

\* The sessions in ss are revoked; one that is over stays over.
Ended(ss) == [s \in DOMAIN sessions |->
    IF s \in ss /\ sessions[s].state = "open"
    THEN [sessions[s] EXCEPT !.state = "over"] ELSE sessions[s]]

SessionsOf(ks) == {s \in DOMAIN sessions :
                     sessions[s].via = "passkey" /\ sessions[s].of \in ks}

\* The invites not yet used are revoked.
Withdrawn == [i \in DOMAIN invites |->
                IF invites[i] = "open" THEN "over" ELSE invites[i]]

endSessions == sessions' = Ended(DOMAIN sessions) /\ invites' = Withdrawn

lockUser ==
    /\ Event
    /\ Active
    /\ person' = [person EXCEPT !.locked = TRUE]
    /\ endSessions
    /\ UNCHANGED <<links, passkeys, spent, ceremonies, cookie, host,
                   request>>

unlockUser ==
    /\ person.locked /\ ~person.retired
    /\ person' = [person EXCEPT !.locked = FALSE]
    /\ UNCHANGED <<sessions, invites, links, passkeys, spent, kept, request>>

retireUser ==
    /\ Event
    /\ ~person.retired
    /\ person' = [person EXCEPT !.retired = TRUE]
    /\ passkeys' = [k \in DOMAIN passkeys |->
                      IF passkeys[k].state = "open"
                      THEN [passkeys[k] EXCEPT !.state = "over"]
                      ELSE passkeys[k]]
    /\ endSessions
    /\ UNCHANGED <<links, spent, ceremonies, cookie, host, request>>

\* The passkeys in ks go, with the sessions they signed in.
Removed(ks) ==
    /\ passkeys' = [k \in DOMAIN passkeys |->
                      IF k \in ks THEN [passkeys[k] EXCEPT !.state = "over"]
                      ELSE passkeys[k]]
    /\ sessions' = Ended(SessionsOf(ks))

-----------------------------------------------------------------------------
(* The operator.                                                           *)

issueInvite ==
    /\ Active
    /\ \E i \in DOMAIN invites :
          /\ invites[i] = "none" /\ \A j \in 1..i - 1 : invites[j] # "none"
          /\ invites' = [Withdrawn EXCEPT ![i] = "open"]
    /\ UNCHANGED <<person, sessions, links, passkeys, spent, kept, request>>

issueSignInLink ==
    /\ Active
    /\ \E l \in DOMAIN links :
          /\ Fresh(links, l)
          /\ links' = [links EXCEPT ![l].state = "open"]
    /\ UNCHANGED <<person, sessions, invites, passkeys, spent, kept, request>>

\* A tunnel starts at a new address, before the server does: passkeys made at
\* the addresses that are gone go, and what was still invited.
\* removeStrandedPasskeys(), revokeInvites().
TunnelStarts ==
    /\ Event
    /\ host' = host + 1
    /\ Removed({k \in DOMAIN passkeys : passkeys[k].state = "open"})
    /\ invites' = Withdrawn
    /\ request' = [r \in Requests |-> Idle(request[r].browser)]
    /\ ceremonies' = [c \in DOMAIN ceremonies |->
          IF ceremonies[c].kind = "none" THEN NoneAsked
          ELSE [NoneAsked EXCEPT !.kind = "over"]]
    /\ UNCHANGED <<person, links, spent, cookie>>

-----------------------------------------------------------------------------
(* Time.                                                                   *)

SessionLapses ==
    /\ Event
    /\ \E s \in DOMAIN sessions : sessions[s].state = "open"
                                  /\ sessions' = Ended({s})
    /\ UNCHANGED <<person, invites, links, passkeys, spent, ceremonies, cookie,
                   host, request>>

LinkLapses ==
    /\ Event
    /\ \E l \in DOMAIN links :
          /\ links[l].state = "open"
          /\ links' = [links EXCEPT ![l].state = "over"]
    /\ UNCHANGED <<person, sessions, invites, passkeys, spent, ceremonies,
                   cookie, host, request>>

InviteLapses ==
    /\ Event
    /\ \E i \in DOMAIN invites :
          /\ invites[i] = "open"
          /\ invites' = [invites EXCEPT ![i] = "over"]
    /\ UNCHANGED <<person, sessions, links, passkeys, spent, ceremonies,
                   cookie, host, request>>

\* Its cookie is good for five minutes; only then is its challenge forgotten,
\* a quarter of an hour after it was answered.
CeremonyLapses ==
    /\ Event
    /\ \E c \in DOMAIN ceremonies :
          /\ ceremonies[c].kind \notin {"none", "over"}
          /\ \A r \in Requests : request[r].kind \in {"invite", "add", "sign-in"}
                                   => request[r].what # c
          /\ ceremonies' = [ceremonies EXCEPT ![c].kind = "over"]
          /\ spent' = spent \ {c}
    /\ UNCHANGED <<person, sessions, invites, links, passkeys, cookie, host,
                   request>>

-----------------------------------------------------------------------------
(* A request: who is signed in, its answer.                                *)

\* checkSession(): the session is open and its person active.
Signed(s) == s # 0 /\ sessions[s].state = "open" /\ Active

\* What the browser asks for options for: a passkey made with an invite it
\* holds or by its own recent session, or a sign-in.
Options ==
    /\ \E c \in DOMAIN ceremonies, b \in Browsers :
          /\ ceremonies[c].kind = "none"
          /\ \A d \in 1..c - 1 : ceremonies[d].kind # "none"
          /\ \/ \E i \in DOMAIN invites :
                  /\ invites[i] = "open" /\ Active
                  /\ ceremonies' = [ceremonies EXCEPT ![c] =
                       [kind |-> "invite", invite |-> i, session |-> 0]]
             \/ /\ Signed(cookie[b])
                /\ ceremonies' = [ceremonies EXCEPT ![c] =
                       [kind |-> "add", invite |-> 0, session |-> cookie[b]]]
             \/ ceremonies' = [ceremonies EXCEPT ![c] =
                       [kind |-> "sign-in", invite |-> 0, session |-> 0]]
    /\ UNCHANGED <<rows, cookie, host, events, request>>

\* A request arrives with its browser's cookie; one that is over is cleared.
Arrive(r) ==
    /\ request[r].pc = "idle"
    /\ \E b \in Browsers, kind \in Kinds, what \in
             DOMAIN links \cup DOMAIN ceremonies \cup DOMAIN passkeys \cup {0} :
          LET previous == IF Signed(cookie[b]) THEN cookie[b] ELSE 0 IN
          /\ CASE kind = "link" -> what \in DOMAIN links
                                   /\ links[what].state # "none"
               [] kind \in {"invite", "add", "sign-in"} ->
                     what \in DOMAIN ceremonies /\ ceremonies[what].kind = kind
               [] kind = "remove" -> what \in DOMAIN passkeys /\ previous # 0
                                     /\ passkeys[what].state = "open"
               [] OTHER -> what = 0 /\ previous # 0
          /\ request' = [request EXCEPT ![r] =
               [pc |-> "in", browser |-> b, kind |-> kind, what |-> what,
                previous |-> previous, session |-> 0]]
          /\ cookie' = [cookie EXCEPT ![b] = previous]
    /\ UNCHANGED <<rows, ceremonies, host, events>>

Handles(r, kind) == request[r].pc = "in" /\ request[r].kind = kind

\* Mutant: a request that is over keeps what it asked.
Refuse_Kept(r) == request' = [request EXCEPT ![r].pc = "idle"]

\* It is over, with whatever it answers.
Refuse(r) == request' = [request EXCEPT ![r] = Idle(@.browser)]

\* startSession(): for an active person, seen under their row's lock.
\* Mutant: whoever was found active before is taken to be.
startSession_Unlocked(r, s, via, of, asked) ==
    /\ Fresh(sessions, s)
    /\ sessions' = [sessions EXCEPT ![s] =
          [state |-> "open", via |-> via, of |-> of, asked |-> asked]]
    /\ request' = [request EXCEPT ![r].pc = "answer", ![r].session = s]

startSession(r, s, via, of, asked) ==
    /\ Active
    /\ Fresh(sessions, s)
    /\ sessions' = [sessions EXCEPT ![s] =
          [state |-> "open", via |-> via, of |-> of, asked |-> asked]]
    /\ request' = [request EXCEPT ![r].pc = "answer", ![r].session = s]

\* signedInAs(): the browser's earlier session is ended, unless that fails,
\* and its cookie replaced, unless the answer is lost.
SignedInAs(r) ==
    /\ request[r].pc = "answer"
    /\ LET q == request[r] IN
       /\ sessions' \in {sessions, Ended({q.previous})}
       /\ cookie' \in {cookie, [cookie EXCEPT ![q.browser] = q.session]}
    /\ Refuse(r)
    /\ UNCHANGED <<person, invites, links, passkeys, spent, ceremonies, host,
                   events>>

Logout(r) ==
    /\ Handles(r, "logout")
    /\ sessions' = Ended({request[r].previous})
    /\ cookie' = [cookie EXCEPT ![request[r].browser] = 0]
    /\ Refuse(r)
    /\ UNCHANGED <<person, invites, links, passkeys, spent, ceremonies, host,
                   events>>

-----------------------------------------------------------------------------
(* Sign-in links.                                                          *)

\* Mutant: whoever uses it, a used link is only refused.
Replayed_Refused(l) ==
    /\ links' = [links EXCEPT ![l].replayed = TRUE]
    /\ UNCHANGED sessions

\* A used link: the session it started ends, for someone else may hold it.
Replayed(l) ==
    /\ sessions' = Ended({links[l].session})
    /\ links' = [links EXCEPT ![l].replayed = TRUE]

redeemSignInLink(r) ==
    /\ Handles(r, "link")
    /\ LET l == request[r].what
           link == links[l] IN
       \/ /\ link.state = "open"
          /\ \E s \in DOMAIN sessions :
                /\ startSession(r, s, "link", l, 0)
                /\ links' = [links EXCEPT ![l].state = "used", ![l].session = s]
       \/ /\ link.state = "used" /\ link.session # request[r].previous
          /\ Replayed(l)
          /\ Refuse(r)
       \/ /\ \/ link.state = "used" /\ link.session = request[r].previous
             \/ link.state = "over"
             \/ link.state = "open" /\ ~Active
          /\ Refuse(r)
          /\ UNCHANGED <<sessions, links>>
    /\ UNCHANGED <<person, invites, passkeys, spent, kept>>

-----------------------------------------------------------------------------
(* Passkeys.                                                               *)

\* Mutant: a challenge is looked up, and never recorded.
spendChallenge_NotKept(c) == c \notin spent /\ spent' = spent

\* The one answer a challenge has.
spendChallenge(c) == c \notin spent /\ spent' = spent \cup {c}

\* A copy of an answer: refused, and nothing written.
Answered(r) ==
    /\ request[r].pc = "in"
    /\ request[r].kind \in {"invite", "add", "sign-in"}
    /\ request[r].what \in spent
    /\ Refuse(r)
    /\ UNCHANGED <<rows, kept>>

\* An answer that doesn't hold (WebAuthn's checks, a name, too many passkeys),
\* or comes from no session that may give it, refused; it is the answer.
AnswerFails(r) ==
    /\ request[r].pc = "in"
    /\ request[r].kind \in {"invite", "add", "sign-in"}
    /\ spendChallenge(request[r].what)
    /\ Refuse(r)
    /\ UNCHANGED <<person, sessions, invites, links, passkeys, kept>>

registerPasskey(k, invite, c) ==
    /\ Active
    /\ Fresh(passkeys, k)
    /\ passkeys' = [passkeys EXCEPT ![k] =
          [state |-> "open", host |-> host, invite |-> invite, asked |-> c]]

\* With the invite's row locked, and the person's.
acceptInvite(r) ==
    /\ Handles(r, "invite")
    /\ LET c == request[r].what
           i == ceremonies[c].invite IN
       /\ invites[i] = "open"
       /\ spendChallenge(c)
       /\ \E k \in DOMAIN passkeys, s \in DOMAIN sessions :
             /\ registerPasskey(k, i, c)
             /\ startSession(r, s, "passkey", k, c)
       /\ invites' = [invites EXCEPT ![i] = "used"]
    /\ UNCHANGED <<person, links, kept>>

\* By the session the challenge was issued to, signed in as the request came.
addPasskey(r) ==
    /\ Handles(r, "add")
    /\ LET c == request[r].what IN
       /\ request[r].previous # 0
       /\ request[r].previous = ceremonies[c].session
       /\ spendChallenge(c)
       /\ \E k \in DOMAIN passkeys : registerPasskey(k, 0, c)
    /\ Refuse(r)
    /\ UNCHANGED <<person, sessions, invites, links, kept>>

\* Any passkey the person holds and the host is right for may answer.
signInWithPasskey(r) ==
    /\ Handles(r, "sign-in")
    /\ spendChallenge(request[r].what)
    /\ \E k \in DOMAIN passkeys, s \in DOMAIN sessions :
          /\ passkeys[k].state = "open" /\ passkeys[k].host = host
          /\ startSession(r, s, "passkey", k, request[r].what)
    /\ UNCHANGED <<person, invites, links, passkeys, kept>>

\* Mutant: the passkey goes and what it signed in stays.
removePasskey_Only(r) ==
    /\ Handles(r, "remove")
    /\ passkeys[request[r].what].state = "open"
    /\ passkeys' = [passkeys EXCEPT ![request[r].what].state = "over"]
    /\ Refuse(r)
    /\ UNCHANGED <<person, sessions, invites, links, spent, kept>>

removePasskey(r) ==
    /\ Handles(r, "remove")
    /\ passkeys[request[r].what].state = "open"
    /\ Removed({request[r].what})
    /\ Refuse(r)
    /\ UNCHANGED <<person, invites, links, spent, kept>>

NothingToRemove(r) ==
    /\ Handles(r, "remove")
    /\ passkeys[request[r].what].state # "open"
    /\ Refuse(r)
    /\ UNCHANGED <<rows, kept>>

Next ==
    \/ lockUser \/ unlockUser \/ retireUser
    \/ issueInvite \/ issueSignInLink \/ TunnelStarts
    \/ SessionLapses \/ LinkLapses \/ InviteLapses \/ CeremonyLapses
    \/ Options
    \/ \E r \in Requests :
          \/ Arrive(r) \/ SignedInAs(r) \/ Logout(r) \/ redeemSignInLink(r)
          \/ Answered(r) \/ AnswerFails(r) \/ acceptInvite(r) \/ addPasskey(r)
          \/ signInWithPasskey(r) \/ removePasskey(r) \/ NothingToRemove(r)

Spec == Init /\ [][Next]_vars

-----------------------------------------------------------------------------
(* Properties.                                                             *)

\* The state has its types.
TypeOK ==
    /\ person \in [locked : BOOLEAN, retired : BOOLEAN]
    /\ sessions \in [1..NumSessions ->
          [state : States, via : {"none", "link", "passkey"},
           of : 0..NumLinks + NumPasskeys, asked : 0..NumCeremonies]]
    /\ invites \in [1..NumInvites -> States]
    /\ links \in [1..NumLinks -> [state : States, session : 0..NumSessions,
                                  replayed : BOOLEAN]]
    /\ passkeys \in [1..NumPasskeys -> [state : States, host : 0..MaxEvents + 1,
                        invite : 0..NumInvites, asked : 0..NumCeremonies]]
    /\ spent \subseteq 1..NumCeremonies
    /\ ceremonies \in [1..NumCeremonies ->
          [kind : {"none", "over", "invite", "add", "sign-in"},
           invite : 0..NumInvites, session : 0..NumSessions]]
    /\ cookie \in [Browsers -> 0..NumSessions]
    /\ request \in [Requests -> [pc : {"idle", "in", "answer"},
          browser : Browsers, kind : Kinds \cup {"none"},
          what : 0..NumLinks + NumCeremonies + NumPasskeys,
          previous : 0..NumSessions, session : 0..NumSessions]]
    /\ \A r \in Requests :
          request[r].pc = "idle" => request[r] = Idle(request[r].browser)
    /\ host \in 1..events + 1 /\ events \in 0..MaxEvents

\* A stop ends every session and invite, whatever request was half-way through
\* starting one (directory.ts: they don't come back); a session lives no longer
\* than the passkey that signed it in; a link used twice ends what it started.
StoppedHasNoWayIn == ~Active =>
    /\ \A s \in DOMAIN sessions : sessions[s].state # "open"
    /\ \A i \in DOMAIN invites : invites[i] # "open"
PasskeySessions == \A s \in DOMAIN sessions :
    sessions[s].state = "open" /\ sessions[s].via = "passkey"
      => passkeys[sessions[s].of].state = "open"
ReplayEnds == \A l \in DOMAIN links :
    links[l].replayed => sessions[links[l].session].state # "open"

EndedIsOver == StoppedHasNoWayIn /\ PasskeySessions /\ ReplayEnds

\* A link starts one session, an invite makes one passkey, and a challenge has
\* one answer, however often the same request is sent and however the answers
\* interleave (passkeys.ts: a copied request signs nobody in a second time).
UsedOnce ==
    /\ \A s, t \in DOMAIN sessions :
          s # t /\ sessions[s].via # "none" /\ sessions[t].via # "none" =>
             \/ sessions[s].asked # sessions[t].asked
             \/ sessions[s].asked = 0 /\ sessions[s].of # sessions[t].of
    /\ \A k, m \in DOMAIN passkeys :
          k # m /\ passkeys[k].state # "none" /\ passkeys[m].state # "none" =>
             /\ passkeys[k].asked # passkeys[m].asked
             /\ passkeys[k].invite = 0 \/ passkeys[k].invite # passkeys[m].invite

\* Both, of the sign-ins of a person (identity sessions.ts, passkeys.ts,
\* sign-in-links.ts).
SignInsAreSound == EndedIsOver /\ UsedOnce
=============================================================================
