------------------------------- MODULE Access -------------------------------
(***************************************************************************)
(* OAuth 2.1 for the AI clients of a tenant and what ends it: codes,       *)
(* grants and tokens, an admin's decision on a client, and the stops of a  *)
(* person (core/identity, oauth.ts and directory.ts).                      *)
(*                                                                         *)
(* A transaction runs at READ COMMITTED: a statement sees what was         *)
(* committed when it began, a row it updates or reads FOR UPDATE, SHARE or *)
(* KEY SHARE stays locked to the end, and its writes are seen when it      *)
(* commits.  An update of several rows locks them in no given order.       *)
(* Secrets, scopes, redirects, the PKCE proof and a code's age are one     *)
(* answer, right or wrong; the n-th refresh token of a grant comes with    *)
(* its n-th access token.  The config's word on a client, the caps on      *)
(* pending requests, a grant's age, pruning and the audit append, which    *)
(* each transaction makes last, are left out.                              *)
(***************************************************************************)
EXTENDS Naturals, FiniteSets

CONSTANTS
    People,
    Clients,
    Nobody,         \* no person
    NoClient,       \* no client, or a client_id the tenant never recorded
    Txs,            \* database connections
    Requests,       \* requests with an access token
    Stops,          \* of a person: "locked", "disabled", "retired"
    MaxCodes,       \* bound: codes ever issued
    MaxGrants,      \* bound: grants ever made
    MaxRotations    \* bound: times a grant's refresh token rotates

ASSUME AccessAssumption ==
    /\ Nobody \notin People
    /\ NoClient \notin Clients
    /\ Stops \subseteq {"locked", "disabled", "retired"}
    /\ MaxCodes \in Nat /\ MaxGrants \in Nat /\ MaxRotations \in Nat

VARIABLES
    stopped,        \* users: what stops each person
    client,         \* oauth_clients: each client's status, "none" without a row
    code,           \* oauth_codes
    grant,          \* oauth_grants
    tokens,         \* oauth_tokens: <<grant, n>>, not expired and not removed
    tx, locks,      \* the transactions and the rows they hold
    req             \* the requests

tables == <<stopped, client, code, grant, tokens>>
vars   == <<tables, tx, locks, req>>

CodeIds   == 1..MaxCodes
GrantIds  == 1..MaxGrants
Rotations == 0..MaxRotations
Statuses  == {"none", "pending", "approved", "refused"}
Enders    == {"stop", "refuse", "remove"}
Ops       == {"none", "issue", "redeem", "refresh", "resume", "approve"}
                 \cup Enders
Pcs       == {"idle", "epoch", "person", "client", "code", "replay", "grant",
              "codes", "ending codes", "grants", "ending grants", "commit"}

\* A code: "used" once redeemed, or used up by what ended access; "replayed"
\* when it was presented again after that.
NoCode   == [st |-> "none", user |-> Nobody, client |-> NoClient, grant |-> 0]
NoGrant  == [st |-> "none", user |-> Nobody, client |-> NoClient, n |-> 0]
Begun    == [op |-> "none", pc |-> "idle", user |-> Nobody,
             client |-> NoClient, approved |-> FALSE, why |-> "locked",
             code |-> 0, grant |-> 0, n |-> 0, todo |-> {}, mine |-> {}]
NoAnswer == [st |-> "idle", grant |-> 0, n |-> 0, broken |-> FALSE]

Rows == ({"code"} \X CodeIds) \cup ({"grant"} \X GrantIds)

TypeOK ==
    /\ stopped \in [People -> SUBSET Stops]
    /\ client \in [Clients -> Statuses]
    /\ code \in [CodeIds -> [st : {"none", "open", "used", "replayed"},
                             user : People \cup {Nobody},
                             client : Clients \cup {NoClient},
                             grant : 0..MaxGrants]]
    /\ grant \in [GrantIds -> [st : {"none", "live", "revoked"},
                               user : People \cup {Nobody},
                               client : Clients \cup {NoClient},
                               n : Rotations]]
    /\ tokens \subseteq GrantIds \X Rotations
    /\ tx \in [Txs -> [op : Ops, pc : Pcs, user : People \cup {Nobody},
                       client : Clients \cup {NoClient}, approved : BOOLEAN,
                       why : {"locked", "disabled", "retired"},
                       code : 0..MaxCodes, grant : 0..MaxGrants,
                       n : Rotations, todo : SUBSET Rows, mine : SUBSET Rows]]
    /\ \A l \in locks : l.tx \in Txs /\ l.mode \in {"share", "update"}
    /\ req \in [Requests -> [st : {"idle", "reading", "answered", "withheld"},
                             grant : 0..MaxGrants, n : Rotations,
                             broken : BOOLEAN]]

Init ==
    /\ stopped = [p \in People |-> {}]
    /\ client = [c \in Clients |-> "none"]
    /\ code = [k \in CodeIds |-> NoCode]
    /\ grant = [g \in GrantIds |-> NoGrant]
    /\ tokens = {}
    /\ tx = [t \in Txs |-> Begun]
    /\ locks = {}
    /\ req = [q \in Requests |-> NoAnswer]

\* Ids are never used again; which one is next tells nothing apart.
Fresh(table, id) ==
    /\ table[id].st = "none"
    /\ \A j \in DOMAIN table : j < id => table[j].st /= "none"

LivePerson(p) == p \in People /\ stopped[p] = {}
Approved(c)   == c \in Clients /\ client[c] = "approved"

-----------------------------------------------------------------------------
(* Rows and their locks: FOR KEY SHARE and FOR SHARE let each other be. *)

Epoch     == <<"epoch", Nobody>>
Person(p) == <<"person", p>>
Client(c) == <<"client", c>>
Code(k)   == <<"code", k>>
Grant(g)  == <<"grant", g>>

Held(row)      == {l \in locks : l.row = row}
Against(row, mode) == {l \in Held(row) : "update" \in {l.mode, mode}}
Free(t, row, mode) == \A l \in Against(row, mode) : l.tx = t

Lock(t, row, mode) == [tx |-> t, row |-> row, mode |-> mode]
Released(t) == {l \in locks : l.tx /= t}

At(t, op, pc) == tx[t].op = op /\ tx[t].pc = pc

\* The transaction waits for a row, holds it to its end, and goes on as w.
Take(t, row, mode, w) ==
    /\ Free(t, row, mode)
    /\ locks' = locks \cup {Lock(t, row, mode)}
    /\ tx' = [tx EXCEPT ![t] = w]
    /\ UNCHANGED <<tables, req>>

\* It ends: refused without a write, rolled back, or with what it committed.
End(t) == /\ tx' = [tx EXCEPT ![t] = Begun]
          /\ locks' = Released(t)

Begin(t, w) ==
    /\ tx[t].pc = "idle"
    /\ tx' = [tx EXCEPT ![t] = w]
    /\ UNCHANGED <<tables, locks, req>>

Goto(t, pc) == [tx[t] EXCEPT !.pc = pc]

\* Requests under way lose the grant and token they were let in with.
Break(over) ==
    req' = [q \in Requests |->
              IF req[q].st = "reading" /\ <<req[q].grant, req[q].n>> \in over
              THEN [req[q] EXCEPT !.broken = TRUE] ELSE req[q]]

-----------------------------------------------------------------------------
(* A client asks and an admin decides. *)

\* The authorize page or the registration records a client nobody knew.
NoteClient(c) ==
    /\ client[c] = "none"
    /\ client' = [client EXCEPT ![c] = "pending"]
    /\ UNCHANGED <<stopped, code, grant, tokens, tx, locks, req>>

\* Mutant: a refusal takes no epoch.
Decide_NoEpoch(t, c, op) ==
    /\ client[c] /= "none"
    /\ op \in {"approve", "refuse"}
    /\ Begin(t, [Begun EXCEPT !.op = op, !.client = c,
                              !.pc = IF op = "refuse" THEN "client"
                                     ELSE "epoch"])

\* Both decisions come from an admin's request, which takes the epoch first.
Decide(t, c, op) ==
    /\ client[c] /= "none"
    /\ op \in {"approve", "refuse"}
    /\ Begin(t, [Begun EXCEPT !.op = op, !.pc = "epoch", !.client = c])

Approve(t) ==
    LET c == tx[t].client IN
    /\ At(t, "approve", "client")
    /\ Free(t, Client(c), "update")
    /\ client' = [client EXCEPT ![c] = "approved"]
    /\ End(t)
    /\ UNCHANGED <<stopped, code, grant, tokens, req>>

RefuseClient(t) ==
    /\ At(t, "refuse", "client")
    /\ Take(t, Client(tx[t].client), "update", Goto(t, "codes"))

-----------------------------------------------------------------------------
(* A code for a person's consent, and the tokens it is redeemed for. *)

LockEpoch(t) ==
    /\ tx[t].pc = "epoch"
    /\ Take(t, Epoch, "update",
            Goto(t, IF tx[t].op \in {"approve", "refuse"}
                    THEN "client" ELSE "person"))

\* Mutant: the person's row is not held from the start.
HoldPerson_Unlocked(t) ==
    /\ tx[t].op \in {"issue", "redeem", "refresh"}
    /\ tx[t].pc = "person"
    /\ tx' = [tx EXCEPT ![t] = Goto(t, "client")]
    /\ UNCHANGED <<tables, locks, req>>

\* KEY SHARE on the person whose code or grant it is.
HoldPerson(t) ==
    /\ tx[t].op \in {"issue", "redeem", "refresh"}
    /\ tx[t].pc = "person"
    /\ Take(t, Person(tx[t].user), "share", Goto(t, "client"))

\* Mutant: the client's row is read without FOR SHARE.
HoldClient_Unlocked(t, op, next) ==
    /\ At(t, op, "client")
    /\ tx' = [tx EXCEPT ![t].pc = next, ![t].approved = Approved(tx[t].client)]
    /\ UNCHANGED <<tables, locks, req>>

\* SHARE on the client, when it has a row; the approval read then is the one
\* that counts.
HoldClient(t, op, next) ==
    LET c == tx[t].client
        w == [tx[t] EXCEPT !.pc = next, !.approved = Approved(c)]
    IN
    /\ At(t, op, "client")
    /\ IF c \in Clients /\ client[c] /= "none"
       THEN Take(t, Client(c), "share", w)
       ELSE /\ tx' = [tx EXCEPT ![t] = w]
            /\ UNCHANGED <<tables, locks, req>>

BeginIssue(t, p, c) ==
    Begin(t, [Begun EXCEPT !.op = "issue", !.pc = "person",
                           !.user = p, !.client = c])

IssueCode(t, k) ==
    LET w == tx[t] IN
    /\ At(t, "issue", "commit")
    /\ LivePerson(w.user) /\ w.approved
    /\ Fresh(code, k)
    /\ code' = [code EXCEPT ![k] = [NoCode EXCEPT !.st = "open",
                                                  !.user = w.user,
                                                  !.client = w.client]]
    /\ End(t)
    /\ UNCHANGED <<stopped, client, grant, tokens, req>>

\* The client that presents it need not be the code's.
BeginRedeem(t, k, given) ==
    /\ code[k].st /= "none"
    /\ Begin(t, [Begun EXCEPT !.op = "redeem", !.pc = "person", !.code = k,
                              !.user = code[k].user, !.client = given])

\* Used up whatever happens next, and a grant with its first token if all of
\* it is right.
Redeem(t, right, g) ==
    LET k == tx[t].code
        made == /\ right
                /\ code[k].client = tx[t].client
                /\ tx[t].approved
                /\ LivePerson(code[k].user)
    IN
    /\ At(t, "redeem", "code")
    /\ Free(t, Code(k), "update")
    /\ code[k].st = "open"
    /\ right => Fresh(grant, g)
    /\ code' = [code EXCEPT ![k].st = "used",
                            ![k].grant = IF made THEN g ELSE @]
    /\ grant' = IF made
                THEN [grant EXCEPT ![g] = [st |-> "live", n |-> 0,
                                           user |-> code[k].user,
                                           client |-> code[k].client]]
                ELSE grant
    /\ tokens' = IF made THEN tokens \cup {<<g, 0>>} ELSE tokens
    /\ End(t)
    /\ UNCHANGED <<stopped, client, req>>

\* Presented again: the grant it made is suspect.
ReadUsed(t) ==
    LET k == tx[t].code IN
    /\ At(t, "redeem", "code")
    /\ code[k].st \in {"used", "replayed"}
    /\ Take(t, Code(k), "update",
            [tx[t] EXCEPT !.pc = "replay", !.grant = code[k].grant])

\* Mutant: a code presented for another client is refused before it is seen to be used.
Replay_OwnOnly(t) ==
    LET k == tx[t].code
        g == tx[t].grant
    IN
    /\ At(t, "redeem", "replay")
    /\ code' = [code EXCEPT ![k].st = "replayed"]
    /\ IF g = 0 \/ tx[t].client /= code[k].client
       THEN UNCHANGED <<grant, req>>
       ELSE /\ Free(t, Grant(g), "update")
            /\ grant' = [grant EXCEPT ![g].st = "revoked"]
            /\ Break({g} \X Rotations)
    /\ End(t)
    /\ UNCHANGED <<stopped, client, tokens>>

Replay(t) ==
    LET k == tx[t].code
        g == tx[t].grant
    IN
    /\ At(t, "redeem", "replay")
    /\ code' = [code EXCEPT ![k].st = "replayed"]
    /\ IF g = 0
       THEN UNCHANGED <<grant, req>>
       ELSE /\ Free(t, Grant(g), "update")
            /\ grant' = [grant EXCEPT ![g].st = "revoked"]
            /\ Break({g} \X Rotations)
    /\ End(t)
    /\ UNCHANGED <<stopped, client, tokens>>

-----------------------------------------------------------------------------
(* A grant's refresh token, rotated on every use. *)

BeginRefresh(t, g, n) ==
    /\ grant[g].st /= "none"
    /\ n <= grant[g].n
    /\ Begin(t, [Begun EXCEPT !.op = "refresh", !.pc = "person", !.grant = g,
                              !.n = n, !.user = grant[g].user,
                              !.client = grant[g].client])

\* Its last one: a new one, and a new access token, while all of it holds.
Refresh(t) ==
    LET g == tx[t].grant
        n == grant[g].n + 1
    IN
    /\ At(t, "refresh", "grant")
    /\ Free(t, Grant(g), "update")
    /\ tx[t].n = grant[g].n
    /\ grant[g].st = "live" /\ n <= MaxRotations
    /\ tx[t].approved /\ LivePerson(tx[t].user)
    /\ grant' = [grant EXCEPT ![g].n = n]
    /\ tokens' = tokens \cup {<<g, n>>}
    /\ End(t)
    /\ UNCHANGED <<stopped, client, code, req>>

\* The one before it: one of the two who hold it is not the client.
RefreshReplay(t) ==
    LET g == tx[t].grant IN
    /\ At(t, "refresh", "grant")
    /\ Free(t, Grant(g), "update")
    /\ tx[t].n + 1 = grant[g].n
    /\ grant' = [grant EXCEPT ![g].st = "revoked"]
    /\ Break({g} \X Rotations)
    /\ End(t)
    /\ UNCHANGED <<stopped, client, code, tokens>>

\* revokeByToken: with a refresh token the grant goes, ...
ClientRevokes(g) ==
    /\ grant[g].st = "live"
    /\ Against(Grant(g), "update") = {}
    /\ grant' = [grant EXCEPT ![g].st = "revoked"]
    /\ Break({g} \X Rotations)
    /\ UNCHANGED <<stopped, client, code, tokens, tx, locks>>

\* ... with an access token that token alone, as when it expires.
TokenEnds(tok) ==
    /\ tokens' = tokens \ {tok}
    /\ Break({tok})
    /\ UNCHANGED <<stopped, client, code, grant, tx, locks>>

-----------------------------------------------------------------------------
(* What ends access: a stop of a person, a refusal of a client, and the      *)
(* removal of one of a person's passkeys or identities.                      *)

BeginStop(t, p, why) ==
    Begin(t, [Begun EXCEPT !.op = "stop", !.pc = "epoch",
                           !.user = p, !.why = why])

\* FOR UPDATE on the person; nothing to do if they are stopped so already.
StopPerson(t) ==
    LET p == tx[t].user IN
    /\ At(t, "stop", "person")
    /\ IF stopped[p] \cap {tx[t].why, "retired"} /= {}
       THEN /\ Free(t, Person(p), "update")
            /\ End(t)
            /\ UNCHANGED <<tables, req>>
       ELSE Take(t, Person(p), "update", Goto(t, "codes"))

\* Unlocked by an admin, or active again at the provider.
BeginResume(t, p, why) ==
    /\ why /= "retired"
    /\ Begin(t, [Begun EXCEPT !.op = "resume", !.pc = "epoch",
                              !.user = p, !.why = why])

Resume(t) ==
    LET p == tx[t].user IN
    /\ At(t, "resume", "person")
    /\ Free(t, Person(p), "update")
    /\ stopped' = IF "retired" \in stopped[p] THEN stopped
                  ELSE [stopped EXCEPT ![p] = @ \ {tx[t].why}]
    /\ End(t)
    /\ UNCHANGED <<client, code, grant, tokens, req>>

\* No epoch here.
BeginRemove(t, p) ==
    Begin(t, [Begun EXCEPT !.op = "remove", !.pc = "person", !.user = p])

RemovePasskey(t) ==
    /\ At(t, "remove", "person")
    /\ Take(t, Person(tx[t].user), "update", Goto(t, "codes"))

\* The rows the statements of an ender end: the person's or the client's.
Theirs(t, r) == IF tx[t].op = "refuse" THEN r.client = tx[t].client
                                       ELSE r.user = tx[t].user

Matches(t, row) ==
    IF row[1] = "code"
    THEN code[row[2]].st = "open" /\ Theirs(t, code[row[2]])
    ELSE grant[row[2]].st = "live" /\ Theirs(t, grant[row[2]])

\* A statement begins: the rows it will end are those committed by now.
EndRows(t, table, from, to) ==
    /\ tx[t].pc = from
    /\ tx' = [tx EXCEPT ![t].pc = to,
                        ![t].todo = {row \in Rows : /\ row[1] = table
                                                    /\ Matches(t, row)}]
    /\ UNCHANGED <<tables, locks, req>>

\* It waits for each of them and looks at it again.
EndRow(t, row) ==
    /\ row \in tx[t].todo
    /\ Free(t, row, "update")
    /\ tx' = [tx EXCEPT ![t].todo = @ \ {row},
                        ![t].mine = IF Matches(t, row) THEN @ \cup {row}
                                    ELSE @]
    /\ locks' = IF Matches(t, row) THEN locks \cup {Lock(t, row, "update")}
                ELSE locks
    /\ UNCHANGED <<tables, req>>

EndedRows(t, from, to) ==
    /\ tx[t].pc = from
    /\ tx[t].todo = {}
    /\ tx' = [tx EXCEPT ![t].pc = to]
    /\ UNCHANGED <<tables, locks, req>>

\* Mutant: a refusal records the word for a grant's end.
CommitEnd_Word(t) ==
    LET w == tx[t] IN
    /\ w.op \in Enders /\ w.pc = "commit"
    /\ client' = IF w.op = "refuse"
                 THEN [client EXCEPT ![w.client] = "revoked"] ELSE client
    /\ End(t)
    /\ UNCHANGED <<stopped, code, grant, tokens, req>>

\* The stop or the refusal, and all it ends, commit.
CommitEnd(t) ==
    LET w == tx[t] IN
    /\ w.op \in Enders /\ w.pc = "commit"
    /\ stopped' = IF w.op = "stop"
                  THEN [stopped EXCEPT ![w.user] = @ \cup {w.why}] ELSE stopped
    /\ client' = IF w.op = "refuse"
                 THEN [client EXCEPT ![w.client] = "refused"] ELSE client
    /\ code' = [k \in CodeIds |-> IF Code(k) \in w.mine
                                  THEN [code[k] EXCEPT !.st = "used"]
                                  ELSE code[k]]
    /\ grant' = [g \in GrantIds |-> IF Grant(g) \in w.mine
                                    THEN [grant[g] EXCEPT !.st = "revoked"]
                                    ELSE grant[g]]
    /\ Break({g \in GrantIds : Theirs(t, grant[g])} \X Rotations)
    /\ End(t)
    /\ UNCHANGED tokens

\* The connection is lost, the checks refuse, or the database breaks a
\* deadlock: nothing of it is kept.
Rollback(t) ==
    /\ tx[t].pc /= "idle"
    /\ End(t)
    /\ UNCHANGED <<tables, req>>

-----------------------------------------------------------------------------
(* A request with an access token: checked, then asked again when its answer *)
(* is ready.                                                                 *)

CheckAccessToken(q, tok) ==
    LET g == tok[1] IN
    /\ req[q].st = "idle"
    /\ grant[g].st = "live"
    /\ Approved(grant[g].client) /\ LivePerson(grant[g].user)
    /\ req' = [req EXCEPT ![q] = [NoAnswer EXCEPT !.st = "reading",
                                                  !.grant = g, !.n = tok[2]]]
    /\ UNCHANGED <<tables, tx, locks>>

\* Mutant: asked again, only the person, the client and the token are looked at.
GrantIsLive_Person(g, n) ==
    /\ LivePerson(grant[g].user)
    /\ client[grant[g].client] /= "refused"
    /\ <<g, n>> \in tokens

GrantIsLive(g, n) ==
    /\ grant[g].st = "live"
    /\ LivePerson(grant[g].user)
    /\ client[grant[g].client] /= "refused"
    /\ <<g, n>> \in tokens

Answer(q) ==
    /\ req[q].st = "reading"
    /\ req' = [req EXCEPT ![q].st = IF GrantIsLive(req[q].grant, req[q].n)
                                    THEN "answered" ELSE "withheld"]
    /\ UNCHANGED <<tables, tx, locks>>

-----------------------------------------------------------------------------
Deciding(t) ==
    \/ \E c \in Clients, op \in {"approve", "refuse"} : Decide(t, c, op)
    \/ Approve(t)
    \/ RefuseClient(t)

Issuing(t) ==
    \/ \E p \in People, c \in Clients : BeginIssue(t, p, c)
    \/ HoldClient(t, "issue", "commit")
    \/ \E k \in CodeIds : IssueCode(t, k)

Redeeming(t) ==
    \/ \E k \in CodeIds, c \in Clients \cup {NoClient} : BeginRedeem(t, k, c)
    \/ HoldClient(t, "redeem", "code")
    \/ \E right \in BOOLEAN, g \in GrantIds : Redeem(t, right, g)
    \/ ReadUsed(t)
    \/ Replay(t)

Refreshing(t) ==
    \/ \E g \in GrantIds, n \in Rotations : BeginRefresh(t, g, n)
    \/ HoldClient(t, "refresh", "grant")
    \/ Refresh(t)
    \/ RefreshReplay(t)

Ending(t) ==
    \/ \E p \in People, why \in Stops : BeginStop(t, p, why)
    \/ StopPerson(t)
    \/ \E p \in People, why \in Stops : BeginResume(t, p, why)
    \/ Resume(t)
    \/ \E p \in People : BeginRemove(t, p)
    \/ RemovePasskey(t)
    \/ EndRows(t, "code", "codes", "ending codes")
    \/ EndRows(t, "grant", "grants", "ending grants")
    \/ \E row \in Rows : EndRow(t, row)
    \/ EndedRows(t, "ending codes", "grants")
    \/ EndedRows(t, "ending grants", "commit")
    \/ CommitEnd(t)

Next ==
    \/ \E c \in Clients : NoteClient(c)
    \/ \E t \in Txs : LockEpoch(t)
    \/ \E t \in Txs : HoldPerson(t)
    \/ \E t \in Txs : Deciding(t)
    \/ \E t \in Txs : Issuing(t)
    \/ \E t \in Txs : Redeeming(t)
    \/ \E t \in Txs : Refreshing(t)
    \/ \E t \in Txs : Ending(t)
    \/ \E t \in Txs : Rollback(t)
    \/ \E g \in GrantIds : ClientRevokes(g)
    \/ \E tok \in tokens : TokenEnds(tok)
    \/ \E q \in Requests, tok \in tokens : CheckAccessToken(q, tok)
    \/ \E q \in Requests : Answer(q)

Spec == Init /\ [][Next]_vars

-----------------------------------------------------------------------------
(* Properties *)

CodesOf(field, x)  == {k \in CodeIds : code[k][field] = x}
GrantsOf(field, x) == {g \in GrantIds : grant[g][field] = x}

Over(codes, grants) ==
    /\ \A k \in codes : code[k].st /= "open"
    /\ \A g \in grants : grant[g].st /= "live"

\* A refused client holds no grant and no code, whatever was being issued or
\* redeemed as the admin decided: approved again later, it gets nothing from a
\* consent given before the refusal (decideClient(), the client's row held).
RefusedIsOver ==
    \A c \in Clients :
        client[c] = "refused"
            => Over(CodesOf("client", c), GrantsOf("client", c))

\* Nor does anyone hold a grant or a code for a person who is stopped, so that
\* lifting the stop brings nothing back (endSessions(), the person's row held).
StoppedIsOver ==
    \A p \in People :
        stopped[p] /= {}
            => Over(CodesOf("user", p), GrantsOf("user", p))

\* A code presented twice, however close, leaves nothing: the grant it made is
\* revoked, whichever client presented it (redeemCode(), the code's row held).
ReplayedIsOver ==
    \A k \in CodeIds :
        code[k].st = "replayed" /\ code[k].grant /= 0
            => grant[code[k].grant].st = "revoked"

\* What an admin, a stop or a replay ended stays ended, whatever was being
\* issued, redeemed or refreshed as it was (oauth.ts).
EndedMeansOver == RefusedIsOver /\ StoppedIsOver /\ ReplayedIsOver

\* No answer leaves for a request whose grant, token, person or client was
\* ended while it was read, even if the person was let back in or the client
\* approved again before it was ready (grantIsLive() in mcp.ts).
AnswersAreOfLiveAccess ==
    \A q \in Requests : ~(req[q].st = "answered" /\ req[q].broken)

\* The rows a transaction needs next.
Wanted(t) ==
    LET w == tx[t]
        mode == IF w.op \in {"issue", "redeem", "refresh"}
                THEN "share" ELSE "update"
    IN
    {<<row, "update">> : row \in w.todo} \cup
    CASE w.pc = "epoch" -> {<<Epoch, "update">>}
      [] w.pc = "person" -> {<<Person(w.user), mode>>}
      [] w.pc = "client" -> {<<Client(w.client), mode>>}
      [] w.pc = "code" -> {<<Code(w.code), "update">>}
      [] w.pc \in {"replay", "grant"} -> {<<Grant(w.grant), "update">>}
      [] OTHER -> {}

WaitsFor(t, u) ==
    /\ t /= u
    /\ \E want \in Wanted(t) : \E l \in Against(want[1], want[2]) : l.tx = u

\* Transactions each of which needs a row another of them holds.
Crosswise(ts) == \A t \in ts : \E u \in ts : WaitsFor(t, u)

\* The transactions that keep the lock order never wait on each other
\* crosswise: epoch, person, client, codes, grants (oauth.ts:41-46).
OrderedNeverCross ==
    ~ \E ts \in SUBSET {t \in Txs : tx[t].op /= "remove"} :
          ts /= {} /\ Crosswise(ts)

\* "For every transaction here and in directory.ts that ends access, so none
\* waits on another crosswise": the removals too, which that comment lists
\* with those that take the epoch (oauth.ts:41-43).
NoneWaitsCrosswise ==
    ~ \E ts \in SUBSET Txs : ts /= {} /\ Crosswise(ts)

=============================================================================
