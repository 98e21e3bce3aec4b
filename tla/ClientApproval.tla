--------------------------- MODULE ClientApproval ---------------------------
(***************************************************************************)
(* Which AI client a tenant lets in (oauth/routes.ts, oauth/allowlist.ts,  *)
(* admin-api.ts): someone opens an authorization request of it, an admin   *)
(* decides there or in the app, the operator lists it in the config, and   *)
(* a person's consent becomes a code.  A request is shown as a form, and   *)
(* what it says may be old when it is answered.  One client: a row, keyed  *)
(* by what identifies it.  What becomes of codes is Access.                *)
(***************************************************************************)
EXTENDS Naturals

CONSTANTS
    Users,        \* who is signed in, each in a browser of their own
    Labels,       \* how far a client may be trusted
    Rolling,      \* whether servers with two configs may run at once
    MaxChanges    \* BOUND: changes of the config, of admins, of accounts,
                  \* lapsed requests

VARIABLES
    row,       \* the client's row
    config,    \* the label auth.clients gives it, or None
    admins,    \* whoever is an admin now
    live,      \* whoever may sign in now
    page,      \* [Users -> what the browser shows: a form, or a code sent on]
    request,   \* [Users -> the request under way]
    epoch,     \* who holds the principals' lock, or Nobody
    app,       \* the last decision made in the app
    changes

vars == <<row, config, admins, live, page, request, epoch, app, changes>>

None == "none"
Nobody == "nobody"
Trusts == Labels \cup {None}
Statuses == {"absent", "pending", "approved", "refused"}

\* oauth_clients: its status, who decided, and the label it was approved with.
Rows == [status : Statuses, by : {None, "config", "app"}, trust : Trusts]
Absent == [status |-> "absent", by |-> None, trust |-> None]
Pending == [Absent EXCEPT !.status = "pending"]

\* A form for one's own consent, or for an admin's decision on a client that
\* stands as seen; or the code a consent became, with the label it has.
Pages == [shows : {"nothing", "consent", "decide", "code"},
          seen : Statuses, trust : Trusts]
Blank == [shows |-> "nothing", seen |-> "absent", trust |-> None]

\* Decisions in the app: by the form (via seen), or by the admin API.
Actions == {"approve", "refuse", "revoke"}
Requests ==
    [at : {"idle", "insert", "decide", "lock", "look", "settle"},
     action : Actions, seen : Statuses, trust : Trusts, config : Trusts,
     read : Statuses]
Idle ==
    [at |-> "idle", action |-> "approve", seen |-> "absent", trust |-> None,
     config |-> None, read |-> "absent"]

TypeOK ==
    /\ row \in Rows /\ config \in Trusts
    /\ admins \subseteq Users /\ live \subseteq Users
    /\ page \in [Users -> Pages]
    /\ request \in [Users -> Requests]
    /\ epoch \in Users \cup {Nobody}
    /\ app \in [status : {None, "approved", "refused"}, trust : Trusts]
    /\ changes \in 0..MaxChanges

(***************************************************************************)
(* What a client gets.                                                     *)
(***************************************************************************)

\* Mutant: an approval that the config gave stands without it.
configuredTrust_Lasting(r, listed) ==
    IF listed /= None THEN listed ELSE "unsaid"

\* What the config says of it: its label; nothing for a client it approved
\* once and no longer lists; or not a word.
configuredTrust(r, listed) ==
    IF listed /= None THEN listed
    ELSE IF r.by = "config" THEN None ELSE "unsaid"

\* Mutant: the config's word comes before a refusal.
approvedTrust_Config(r, listed) ==
    IF configuredTrust(r, listed) /= "unsaid" THEN configuredTrust(r, listed)
    ELSE IF r.status = "approved" THEN r.trust ELSE None

\* A refusal stands; else the config's word; else the app's decision.
approvedTrust(r, listed) ==
    IF r.status \in {"absent", "refused"} THEN None
    ELSE IF configuredTrust(r, listed) /= "unsaid"
    THEN configuredTrust(r, listed)
    ELSE IF r.status = "approved" THEN r.trust ELSE None

(***************************************************************************)
(* GET /oauth/authorize: the client is noted, the config's approval kept   *)
(* in its row, and a form shown.                                           *)
(***************************************************************************)
Finish(u) == request' = [request EXCEPT ![u] = Idle]

\* The page for a client that stands as r does: consent; a form to decide,
\* for an admin; or nothing to answer.
Shown(u, r, listed) ==
    [page EXCEPT ![u] =
        IF approvedTrust(r, listed) /= None
        THEN [Blank EXCEPT !.shows = "consent"]
        ELSE IF u \in admins /\ r.status /= "absent"
        THEN [Blank EXCEPT !.shows = "decide", !.seen = r.status]
        ELSE Blank]

\* Mutant: the config's approval replaces whatever was decided.
Kept_Over(r, listed) ==
    IF listed /= None
    THEN [status |-> "approved", by |-> "config", trust |-> listed]
    ELSE r

\* A client that waits and that the config lists is approved in the row too.
Kept(r, listed) ==
    IF r.status = "pending" /\ listed /= None
    THEN [status |-> "approved", by |-> "config", trust |-> listed]
    ELSE r

\* The request as the server's config sees it.
Authorize(u) ==
    /\ request[u].at = "idle"
    /\ IF row.status = "absent"
       THEN /\ request' = [request EXCEPT ![u].at = "insert",
                                          ![u].config = config]
            /\ UNCHANGED <<row, page>>
       ELSE \* Known: one that waits is refreshed, which holds its row.
            /\ row' = Kept(row, config)
            /\ page' = Shown(u, row', config)
            /\ UNCHANGED request
    /\ UNCHANGED <<config, admins, live, epoch, app, changes>>

\* Not known: inserted, unless too many wait (whatever the counts, when the
\* config lists it), or someone else inserted it meanwhile.
Insert(u) ==
    /\ request[u].at = "insert"
    /\ LET listed == request[u].config
       IN \/ /\ row.status = "absent"
             /\ row' = Kept(Pending, listed)
             /\ page' = Shown(u, row', listed)
             /\ Finish(u)
          \/ /\ row.status = "absent" /\ listed = None
             /\ page' = Shown(u, row, listed)
             /\ Finish(u) /\ UNCHANGED row
          \/ /\ row.status /= "absent"
             /\ request' = [request EXCEPT ![u].at = "decide",
                                           ![u].read = row.status]
             /\ UNCHANGED <<row, page>>
    /\ UNCHANGED <<config, admins, live, epoch, app, changes>>

\* The row of the other is read, not held: if it waited then, the config
\* decides it as it stands by now.
DecideByConfig(u) ==
    /\ request[u].at = "decide"
    /\ LET listed == request[u].config
       IN /\ row' = IF request[u].read = "pending" /\ listed /= None
                       /\ row.status /= "absent"
                    THEN Kept(Pending, listed) ELSE row
          /\ page' = Shown(u, row', listed)
    /\ Finish(u)
    /\ UNCHANGED <<config, admins, live, epoch, app, changes>>

(***************************************************************************)
(* POST /oauth/authorize: the person's answer.                             *)
(***************************************************************************)

\* What allowlist.ts promises of a client by the decisions themselves.
Due ==
    IF app.status = "refused" THEN None
    ELSE IF config /= None THEN config
    ELSE IF app.status = "approved" THEN app.trust ELSE None

\* Mutant: the form was shown for an approved client.
Allowed_AsShown(u) == TRUE

\* issueCode(): the client approved and the person live, now.
Allowed(u) == u \in live /\ approvedTrust(row, config) /= None

\* The form of this page, not expired.
Consent(u) ==
    /\ request[u].at = "idle" /\ page[u].shows = "consent"
    /\ page' = [page EXCEPT ![u] =
           IF Allowed(u)
           THEN [Blank EXCEPT !.shows = "code",
                              !.trust = approvedTrust(row, config)]
           ELSE Blank]
    /\ UNCHANGED <<row, config, admins, live, request, epoch, app, changes>>

(***************************************************************************)
(* An admin's decision: POST /oauth/approve, of what the form showed, or   *)
(* POST /api/admin/clients/:key/approve, refuse and revoke.                *)
(***************************************************************************)
Ask(u, action, seen, trust) ==
    request' = [request EXCEPT ![u] =
        [Idle EXCEPT !.at = "lock", !.action = action, !.seen = seen,
                     !.trust = trust, !.config = config]]

\* What is approved gets a label.  (Approving takes a recent sign-in as well.)
Labelled(action) == IF action = "approve" THEN Labels ELSE {None}

\* A refusal is of a client that waits.
DecideByForm(u) ==
    /\ request[u].at = "idle" /\ page[u].shows = "decide"
    /\ \E action \in {"approve", "refuse"} : \E trust \in Labelled(action) :
         /\ action = "refuse" => page[u].seen = "pending"
         /\ Ask(u, action, page[u].seen, trust)
    /\ page' = [page EXCEPT ![u] = Blank]
    /\ UNCHANGED <<row, config, admins, live, epoch, app, changes>>

\* The admin API shows no form: seen is "absent", and FROM says of which
\* clients an action may be.
DecideByApi(u) ==
    /\ request[u].at = "idle" /\ row.status /= "absent"
    /\ u \in admins     \* as the session was read
    /\ \E action \in Actions : \E trust \in Labelled(action) :
         Ask(u, action, "absent", trust)
    /\ UNCHANGED <<row, config, admins, live, page, epoch, app, changes>>

\* Mutant: whether it is an admin is asked before the lock.
Held_Early(u) ==
    /\ request[u].at = "lock"
    /\ request' = [request EXCEPT ![u].at = IF u \in admins THEN "look"
                                            ELSE "idle"]
    /\ UNCHANGED epoch

\* lockPrincipals(), then isAdmin(): one removed before is seen here.
Held(u) ==
    /\ request[u].at = "lock" /\ epoch = Nobody
    /\ IF u \in admins
       THEN /\ epoch' = u
            /\ request' = [request EXCEPT ![u].at = "look"]
       ELSE Finish(u) /\ UNCHANGED epoch

Lock(u) ==
    /\ Held(u)
    /\ UNCHANGED <<row, config, admins, live, page, app,
                   changes>>

\* The transaction is over, with nothing changed.
Refused(u) ==
    /\ Finish(u)
    /\ epoch' = IF epoch = u THEN Nobody ELSE epoch

\* Mutant: what the config lists may be decided in the app.
ConfigDecides_Never(q, status) == FALSE

\* What the config lists, the config decides, with its label; only a refusal
\* made before can be lifted.
ConfigDecides(q, status) ==
    /\ q.config /= None
    /\ \/ q.action /= "approve" \/ status /= "refused"
       \/ q.seen = "absent" /\ q.trust /= q.config

Look(u) ==
    LET q == request[u]
    IN /\ q.at = "look"
       /\ IF row.status = "absent" \/ ConfigDecides(q, row.status)
          THEN Refused(u)
          ELSE /\ request' = [request EXCEPT
                     ![u].at = "settle", ![u].read = row.status,
                     ![u].trust = IF q.config /= None THEN q.config ELSE @]
               /\ UNCHANGED epoch
       /\ UNCHANGED <<row, config, admins, live, page, app,
                      changes>>

\* Mutant: the form's decision is taken of whatever there is.
Expected_Any(q) == {"pending", "approved", "refused"}

\* Which statuses the decision is of.
Expected(q) ==
    IF q.seen /= "absent" THEN {q.seen}
    ELSE CASE q.action = "approve" -> {"pending", "refused", "approved"}
           [] q.action = "refuse" -> {"pending"}
           [] q.action = "revoke" -> {"approved"}

\* decideClient(): the row as it stands, held; and the record.
Settle(u) ==
    LET q == request[u]
        approve == q.action = "approve"
    IN /\ q.at = "settle"
       /\ IF row.status \in Expected(q)
          THEN /\ row' = [status |-> IF approve THEN "approved" ELSE "refused",
                          by |-> "app",
                          trust |-> IF approve THEN q.trust ELSE None]
               /\ app' = [status |-> IF approve THEN "approved" ELSE "refused",
                          trust |-> row'.trust]
          ELSE UNCHANGED <<row, app>>
       /\ Refused(u)
       /\ UNCHANGED <<config, admins, live, page, changes>>

(***************************************************************************)
(* What happens meanwhile.                                                 *)
(***************************************************************************)
Changes == changes < MaxChanges /\ changes' = changes + 1
Quiet == \A u \in Users : request[u].at = "idle"

\* auth.clients is edited, and the server started again.
ConfigChanges ==
    /\ Changes
    /\ Rolling \/ Quiet
    /\ config' \in Trusts \ {config}
    /\ UNCHANGED <<row, admins, live, page, request, epoch, app>>

\* Admins and accounts change under the principals' lock.
AdminsChange(u) ==
    /\ Changes /\ epoch = Nobody
    /\ \/ /\ admins' = IF u \in admins THEN admins \ {u} ELSE admins \cup {u}
          /\ UNCHANGED live
       \/ /\ live' = IF u \in live THEN live \ {u} ELSE live \cup {u}
          /\ UNCHANGED admins
    /\ UNCHANGED <<row, config, page, request, epoch, app>>

\* A request nobody decided for thirty days makes room for another client's.
Lapses ==
    /\ Changes
    /\ row.status = "pending"
    /\ row' = Absent
    /\ UNCHANGED <<config, admins, live, page, request, epoch, app>>

\* The form expires, or another session takes its place; the code is used.
Leaves(u) ==
    /\ page[u] /= Blank
    /\ page' = [page EXCEPT ![u] = Blank]
    /\ UNCHANGED <<row, config, admins, live, request, epoch, app, changes>>

Init ==
    /\ row = Absent /\ config \in Trusts
    /\ admins \in SUBSET Users /\ live = Users
    /\ page = [u \in Users |-> Blank]
    /\ request = [u \in Users |-> Idle]
    /\ epoch = Nobody
    /\ app = [status |-> None, trust |-> None]
    /\ changes = 0

Next ==
    \/ \E u \in Users :
         \/ Authorize(u) \/ Insert(u) \/ DecideByConfig(u) \/ Consent(u)
         \/ DecideByForm(u) \/ DecideByApi(u)
         \/ Lock(u) \/ Look(u) \/ Settle(u)
         \/ AdminsChange(u) \/ Leaves(u)
    \/ ConfigChanges \/ Lapses

Spec == Init /\ [][Next]_vars

(***************************************************************************)
(* What it is for.                                                         *)
(***************************************************************************)

\* However the row came to stand as it does, a client gets what the app's last
\* decision and the config give it, in allowlist.ts' order of precedence.
InOrder == row.status /= "absent" => approvedTrust(row, config) = Due

\* An admin's decision is an admin's; made on the form, it is of the client as
\* the form showed it; and it changes nothing the config decides.
DecidedAsShown ==
    \A u \in Users :
        LET q == request[u]
        IN q.at = "settle" /\ row' /= row /\ row'.by = "app" =>
           /\ u \in admins
           /\ q.seen /= "absent" => row.status = q.seen
           /\ q.config /= None =>
                row.status = "refused" /\ row'.trust = q.config

\* A consent given on an old form makes a code only if the client is let in,
\* and the person may sign in, by then.
CodesAreDue ==
    \A u \in Users :
        page[u].shows = "consent" /\ page'[u].shows = "code" =>
            u \in live /\ page'[u].trust = Due /\ Due /= None

\* Of every step.
AsDecided == InOrder' /\ DecidedAsShown /\ CodesAreDue
=============================================================================
