---------------------------- MODULE Provisioning ----------------------------
(***************************************************************************)
(* What the identity provider's requests make of the directory (apps/      *)
(* server scim/users.ts, groups.ts, filter.ts, routes.ts; core/identity    *)
(* directory.ts): users and groups of source scim, beside OpenHoard's own. *)
(*                                                                         *)
(* A write takes the tenant's principal lock first, reads what is there,   *)
(* and writes what it makes of it; a refusal undoes it whole.  ScimDoor    *)
(* has who may come in and the transaction around it.  A userName is an    *)
(* address or not; other names, and attributes not kept, are left out.     *)
(***************************************************************************)
EXTENDS Naturals, FiniteSets, Sequences

CONSTANTS
    Writers,         \* requests under way
    NumUsers,        \* bound: users ever provisioned
    NumGroups,       \* bound: groups
    Titles,          \* displayNames of groups
    Names,           \* userNames, and addresses
    Addresses,       \* those that are an address
    OwnAddress,      \* of the person of OpenHoard's own
    Key,             \* userNameKey(), emailKey(): spellings apart, the same
    ExtIds,
    MaxEvents        \* bound: requests, and sign-ins

VARIABLES
    db,              \* the rows, as committed
    writer,          \* a request that has read and has yet to write
    log,             \* who is an admin by the admin group, as the log tells
    events

vars == <<db, writer, log, events>>

Ids        == 1..NumUsers
Own        == 0           \* a person of OpenHoard's own, invited at an address
Everyone   == Ids \cup {Own}
GroupIds   == 1..NumGroups
AdminGroup == 1           \* config auth.adminGroups
None       == "none"      \* null
Unsaid     == "unsaid"    \* absent
Yes        == "yes"
No         == "no"
NoUser     == [name |-> None, email |-> None, ext |-> None, active |-> Yes,
               guest |-> No, state |-> "none"]
NoGroup    == [title |-> None, ext |-> None, members |-> {}, state |-> "none"]
Idle       == [busy |-> FALSE, req |-> <<>>, seen |-> <<>>]

Init ==
    /\ db = [users |-> [u \in Everyone |->
                 IF u = Own THEN [NoUser EXCEPT !.email = OwnAddress,
                                                !.state = "current"]
                 ELSE NoUser],
              groups |-> [g \in GroupIds |->
                 IF g = AdminGroup
                 THEN [NoGroup EXCEPT !.title = CHOOSE t \in Titles : TRUE,
                                      !.state = "current"]
                 ELSE NoGroup],
              signed |-> {}]
    /\ writer = [w \in Writers |-> Idle]
    /\ log = {}
    /\ events = 0

Current(d)    == {u \in Everyone : d.users[u].state = "current"}
ScimUsers(d)  == Current(d) \ {Own}
ScimGroups(d) == {g \in GroupIds : d.groups[g].state = "current"}
Or(said, kept) == IF said = Unsaid THEN kept ELSE said

-----------------------------------------------------------------------------
(* Users.  Work on rows d ends in [status, db].                            *)

Refused(d, status) == [status |-> status, db |-> d]
Derived(x) == x.email # None /\ x.name # None /\ Key[x.email] = Key[x.name]

\* Mutant: an address that is just the userName is kept as if it were given.
stateOf_Given(x) == x

\* An address that is just the userName counts as derived from it.
stateOf(x) == IF Derived(x) THEN [x EXCEPT !.email = None] ELSE x

\* Mutant: what isn't said is what a new user has.
stateFromBody_Fresh(body, x) ==
    [x EXCEPT !.name = body.name, !.email = Or(body.email, None),
              !.ext = Or(body.ext, x.ext), !.active = Or(body.active, Yes),
              !.guest = Or(body.guest, No)]

\* A PUT leaves active, userType and externalId as they are if not said.
stateFromBody(body, x) ==
    [x EXCEPT !.name = body.name, !.email = Or(body.email, None),
              !.ext = Or(body.ext, x.ext), !.active = Or(body.active, x.active),
              !.guest = Or(body.guest, x.guest)]

\* patchUser(): a null clears, and userType can't be cleared.
patchUser(x, op) ==
    IF op.attr = "guest" /\ op.value = None THEN x
    ELSE [x EXCEPT ![op.attr] = op.value]

patchAll(x, ops) ==
    LET after[i \in 0..Len(ops)] ==
            IF i = 0 THEN x ELSE patchUser(after[i - 1], ops[i])
    IN  after[Len(ops)]

\* derive(): no address is None.
EmailOf(x) == IF x.email # None THEN x.email
              ELSE IF x.name \in Addresses THEN x.name ELSE None

derive(x) == [x EXCEPT !.email = EmailOf(x)]

\* A userName and an address are required, and active can't be cleared.
Usable(x) == x.name # None /\ x.active # None /\ EmailOf(x) # None

\* Mutant: addresses are told apart by their spelling.
SameEmail_Spelt(x, y) == x.email = y.email

SameEmail(x, y) == Key[x.email] = Key[y.email]

\* The unique keys of current users; a person of OpenHoard's own has an
\* address only.
Clashes(d, u, x) ==
    \E v \in Current(d) \ {u} : LET y == d.users[v] IN
        \/ SameEmail(x, y)
        \/ x.ext # None /\ x.ext = y.ext
        \/ y.name # None /\ Key[x.name] = Key[y.name]

FreeUsers(d) == {u \in Ids : d.users[u].state = "none"}
FirstOf(S, past) == IF S = {} THEN past ELSE CHOOSE i \in S : \A j \in S : i <= j
Saved(d, u, x) == [status |-> 200, db |-> [d EXCEPT !.users[u] = x]]

createScimUser(d, body) ==
    LET x == stateFromBody(body, [NoUser EXCEPT !.state = "current"])
        u == FirstOf(FreeUsers(d), NumUsers + 1) IN
    IF ~ Usable(x) THEN Refused(d, 400)
    ELSE IF Clashes(d, u, derive(x)) THEN Refused(d, 409)
    ELSE Saved(d, u, derive(x))

\* saveUser(): only what changed; the external id is held after a sign-in.
saveUser(d, u, seen, x) ==
    IF ~ Usable(x) THEN Refused(d, 400)
    ELSE IF x.ext # seen.ext /\ u \in d.signed THEN Refused(d, 400)
    ELSE IF Clashes(d, u, derive(x)) THEN Refused(d, 409)
    ELSE Saved(d, u, [a \in DOMAIN x |->
            IF derive(x)[a] = seen[a] THEN d.users[u][a] ELSE derive(x)[a]])

\* Mutant: the memberships of someone retired are left as they are.
Left_Kept(g, u) == g

Left(g, u) == [g EXCEPT !.members = @ \ {u}]

\* deleteScimUser(): retired for good; memberships go with them.
deleteScimUser(d, u) ==
    [status |-> 204,
     db |-> [d EXCEPT !.users[u].state = "retired", !.signed = @ \ {u},
               !.groups = [g \in GroupIds |-> Left(@[g], u)]]]

UserWork(d, seen, req) ==
    IF req.verb = "POST" THEN createScimUser(d, req.body)
    ELSE IF req.id \notin ScimUsers(d) THEN Refused(d, 404)
    ELSE IF req.verb = "DELETE" THEN deleteScimUser(d, req.id)
    ELSE saveUser(d, req.id, seen.users[req.id],
            IF req.verb = "PUT"
            THEN stateFromBody(req.body, seen.users[req.id])
            ELSE patchAll(stateOf(seen.users[req.id]), req.ops))

-----------------------------------------------------------------------------
(* Groups.                                                                 *)

NoPlan == [replace |-> FALSE, with |-> {}, adds |-> {}, removes |-> {}]

\* Mutant: members added after a replace are kept apart from it.
Planned_Apart(p, op) ==
    CASE op.attr = "replace" -> [NoPlan EXCEPT !.replace = TRUE, !.with = op.ids]
      [] op.attr = "add"     -> [p EXCEPT !.adds = @ \cup op.ids]
      [] op.attr = "remove"  -> IF p.replace THEN [p EXCEPT !.with = @ \ op.ids]
                                ELSE [p EXCEPT !.removes = @ \cup op.ids]
      [] OTHER               -> p

\* MemberPlan
Planned(p, op) ==
    CASE op.attr = "replace" -> [NoPlan EXCEPT !.replace = TRUE, !.with = op.ids]
      [] op.attr = "add"     -> IF p.replace
                                THEN [p EXCEPT !.with = @ \cup op.ids]
                                ELSE [p EXCEPT !.adds = @ \cup op.ids,
                                               !.removes = @ \ op.ids]
      [] op.attr = "remove"  -> IF p.replace THEN [p EXCEPT !.with = @ \ op.ids]
                                ELSE [p EXCEPT !.removes = @ \cup op.ids,
                                               !.adds = @ \ op.ids]
      [] OTHER               -> p

PlanOf(ops) ==
    LET after[i \in 0..Len(ops)] ==
            IF i = 0 THEN NoPlan ELSE Planned(after[i - 1], ops[i])
    IN  after[Len(ops)]

Joins(p, members)  == IF p.replace THEN p.with \ members ELSE p.adds
Leaves(p, members) == IF p.replace THEN members \ p.with ELSE p.removes

\* Mutant: anyone current may be added.
Addable_Anyone(d) == Current(d)

\* addMember(): OpenHoard's own people join only its own groups.
Addable(d) == ScimUsers(d)

\* What a body or operations make of the group's title and id.
Titled(g, ops) ==
    LET after[i \in 0..Len(ops)] ==
            IF i = 0 THEN g
            ELSE IF ops[i].attr \in {"title", "ext"}
            THEN [after[i - 1] EXCEPT ![ops[i].attr] = ops[i].value]
            ELSE after[i - 1]
    IN  after[Len(ops)]

\* Mutant: a group is unlike another by its id alone.
TitleTaken_Never(d, g, title) == FALSE

\* checkUniqueName()
TitleTaken(d, g, title) ==
    \E h \in ScimGroups(d) \ {g} : d.groups[h].title = title

ExtTaken(d, g, ext) ==
    ext # None /\ \E h \in ScimGroups(d) \ {g} : d.groups[h].ext = ext

\* save(), and applyMembers(): removed ones go, then the added come.
SavedGroup(d, seen, g, old, ops) ==
    LET x == Titled(old, ops)  p == PlanOf(ops)
        members == d.groups[g].members
        join == Joins(p, members) IN
    IF x.title = None THEN Refused(d, 400)
    ELSE IF x.title # old.title /\ TitleTaken(seen, g, x.title)
         THEN Refused(d, 409)
    ELSE IF ExtTaken(d, g, x.ext) THEN Refused(d, 409)
    ELSE IF ~ join \subseteq Addable(d) THEN Refused(d, 400)
    ELSE [status |-> 200, db |-> [d EXCEPT !.groups[g] =
            [title |-> x.title, ext |-> x.ext, state |-> "current",
             members |-> (members \ Leaves(p, members)) \cup join]]]

FreeGroups(d) == {g \in GroupIds : d.groups[g].state = "none"}

GroupWork(d, seen, req) ==
    IF req.verb = "POST"
    THEN LET g == FirstOf(FreeGroups(d), NumGroups + 1) IN
         SavedGroup(d, seen, g, NoGroup, req.ops)
    ELSE IF req.id \notin ScimGroups(d) THEN Refused(d, 404)
    ELSE IF req.verb = "DELETE"
    THEN [status |-> 204, db |-> [d EXCEPT !.groups[req.id] =
                                      [NoGroup EXCEPT !.state = "deleted"]]]
    ELSE SavedGroup(d, seen, req.id, seen.groups[req.id], req.ops)

-----------------------------------------------------------------------------
(* Lists: eq, joined by and.                                               *)

\* Mutant: the same attribute again is the last value's.
SameTerm_Any(attr, v, w) == TRUE

\* userQuery(): the same attribute, compared with two values, matches nobody.
SameTerm(attr, v, w) ==
    IF attr \in {"name", "email"} THEN Key[v] = Key[w] ELSE v = w

NoQuery == [name |-> Unsaid, email |-> Unsaid, ext |-> Unsaid, active |-> Unsaid,
            nobody |-> FALSE]

QueryOf(terms) ==
    LET after[i \in 0..Len(terms)] ==
            IF i = 0 THEN NoQuery
            ELSE LET q == after[i - 1]  t == terms[i] IN
                 [q EXCEPT ![t.attr] = t.value,
                    !.nobody = @ \/ (/\ q[t.attr] # Unsaid
                                     /\ ~ SameTerm(t.attr, q[t.attr], t.value))]
    IN  after[Len(terms)]

\* listUsers(): a null compares with nothing.
Matches(x, attr, v) ==
    \/ v = Unsaid
    \/ /\ x[attr] # None
       /\ IF attr \in {"name", "email"} THEN Key[x[attr]] = Key[v] ELSE x[attr] = v

Listed(d, terms) ==
    LET q == QueryOf(terms) IN
    {u \in ScimUsers(d) : /\ ~ q.nobody
        /\ \A attr \in {"name", "email", "ext", "active"} :
              Matches(d.users[u], attr, q[attr])}

-----------------------------------------------------------------------------
(* Requests.                                                               *)

Work(d, seen, req) == IF req.kind = "user" THEN UserWork(d, seen, req)
                      ELSE GroupWork(d, seen, req)

Body(n)   == [name |-> n, email |-> Unsaid, ext |-> Unsaid, active |-> Unsaid,
              guest |-> Unsaid]
Bodies    == UNION {{Body(n), [Body(n) EXCEPT !.active = No],
                     [Body(n) EXCEPT !.guest = Yes]}
                    \cup {[Body(n) EXCEPT !.email = a] : a \in Addresses}
                    \cup {[Body(n) EXCEPT !.ext = e] : e \in ExtIds} : n \in Names}

Op(attr, value) == [attr |-> attr, value |-> value]
NameOps   == {Op("name", n) : n \in Names}
EmailOps  == {Op("email", a) : a \in Addresses \cup {None}}
OtherOps  == {Op("active", Yes), Op("active", No), Op("guest", None)}
             \cup {Op("ext", e) : e \in ExtIds \cup {None}}
UserOps   == {<<o>> : o \in NameOps \cup EmailOps \cup OtherOps}
             \cup {<<o, p>> : o \in NameOps, p \in EmailOps}
             \cup {<<o, p>> : o \in EmailOps, p \in NameOps}
             \cup {<<Op("active", No), Op("ext", e)>> : e \in ExtIds}

MemberOp(attr, ids) == [attr |-> attr, ids |-> ids]
Somebody  == {{u} : u \in Everyone}
MemberOps == {MemberOp("replace", {})}
             \cup {MemberOp(a, S) : a \in {"add", "remove", "replace"}, S \in Somebody}
GroupOps  == {<<o>> : o \in MemberOps}
             \cup {<<o, p>> : o \in MemberOps, p \in MemberOps}
             \cup {<<Op("title", t), o>> : t \in Titles, o \in MemberOps}
\* A POST names its members, and a PUT replaces them; its id goes if not said.
FullOps(t, e, S) == <<Op("title", t), Op("ext", e), MemberOp("replace", S)>>

Request(kind, verb, id, body, ops) ==
    [kind |-> kind, verb |-> verb, id |-> id, body |-> body, ops |-> ops]
NoBody == Body(None)

Asked(d) ==
    {Request("user", "POST", 0, b, <<>>) :
        b \in IF FreeUsers(d) = {} THEN {} ELSE Bodies}
    \cup {Request("user", "PUT", u, b, <<>>) : u \in Ids, b \in Bodies}
    \cup {Request("user", "PATCH", u, NoBody, ops) : u \in Ids, ops \in UserOps}
    \cup {Request("user", "DELETE", u, NoBody, <<>>) : u \in Ids}
    \cup {Request("group", "POST", 0, NoBody, FullOps(t, None, S)) :
            t \in Titles, S \in IF FreeGroups(d) = {} THEN {} ELSE Somebody}
    \cup {Request("group", "PUT", g, NoBody, FullOps(t, None, {})) :
            g \in GroupIds, t \in Titles}
    \cup {Request("group", "PATCH", g, NoBody, ops) : g \in GroupIds, ops \in GroupOps}
    \cup {Request("group", "DELETE", g, NoBody, <<>>) : g \in GroupIds}

\* Mutant: what creates takes no lock.
LockIsFree_Created ==
    \A w \in Writers : writer[w].busy => writer[w].req.verb = "POST"

\* lockPrincipals()
LockIsFree == \A w \in Writers : ~ writer[w].busy

Begin(w) ==
    /\ ~ writer[w].busy /\ LockIsFree
    /\ events < MaxEvents /\ events' = events + 1
    /\ \E req \in Asked(db) :
          writer' = [writer EXCEPT ![w] =
                        [busy |-> TRUE, req |-> req, seen |-> db]]
    /\ UNCHANGED <<db, log>>

\* Mutant: only those who join are told of.
Told_Joins(before, after) == log \cup (after \ before)

\* watchingAdmins(): a record for each who joined, and each who left.
Told(before, after) == (log \cup (after \ before)) \ (before \ after)

Watched(req) == req.kind = "group" /\ req.verb # "POST" /\ req.id = AdminGroup

Finish(w) ==
    /\ writer[w].busy
    /\ LET req  == writer[w].req
           done == Work(db, writer[w].seen, req) IN
       /\ db' = done.db
       /\ log' = IF Watched(req)
                 THEN Told(db.groups[AdminGroup].members,
                           done.db.groups[AdminGroup].members)
                 ELSE log
    /\ writer' = [writer EXCEPT ![w] = Idle]
    /\ UNCHANGED events

\* A first sign-in, matched by the external id: it locks the row.
SignIn(u) ==
    /\ events < MaxEvents /\ events' = events + 1
    /\ u \in ScimUsers(db) \ db.signed /\ db.users[u].ext # None /\ LockIsFree
    /\ db' = [db EXCEPT !.signed = @ \cup {u}]
    /\ UNCHANGED <<writer, log>>

Next ==
    \/ \E w \in Writers : Begin(w) \/ Finish(w)
    \/ \E u \in Ids : SignIn(u)

Spec == Init /\ [][Next]_vars

-----------------------------------------------------------------------------
TypeOK ==
    /\ \A u \in Everyone :
          db.users[u].state \in {"none", "current", "retired"}
    /\ \A g \in GroupIds : db.groups[g].members \subseteq Everyone
    /\ log \subseteq Everyone /\ db.signed \subseteq Ids

(* Nobody current shares an address, a userName or an external id with     *)
(* another, however it is spelt; no two groups share a title or an id; and *)
(* a group's members are people the provider has (users.ts, groups.ts).    *)
DirectoryIsWhole ==
    /\ \A u, v \in Current(db) : LET x == db.users[u]  y == db.users[v] IN
          u # v => /\ Key[x.email] # Key[y.email]
                   /\ u # Own /\ v # Own => Key[x.name] # Key[y.name]
                   /\ x.ext # None => x.ext # y.ext
    /\ \A g, h \in ScimGroups(db) : LET x == db.groups[g]  y == db.groups[h] IN
          g # h => x.title # y.title /\ (x.ext # None => x.ext # y.ext)
    /\ \A g \in ScimGroups(db) : db.groups[g].members \subseteq ScimUsers(db)

(* Who is an admin by the group is who the log says joined and has not     *)
(* left, of those still there (watchingAdmins()).                          *)
AdminsAreTold ==
    log \cap ScimUsers(db) = db.groups[AdminGroup].members

Terms == [attr : {"name", "email"}, value : Addresses]
         \cup [attr : {"ext"}, value : ExtIds]
         \cup [attr : {"active"}, value : {Yes, No}]

(* A filtered list is of those every term is true of (userQuery()).        *)
ListsAreExact ==
    (\A w \in Writers : ~ writer[w].busy) => \A t, q \in Terms :
        Listed(db, <<t, q>>) = {u \in ScimUsers(db) :
            /\ Matches(db.users[u], t.attr, t.value)
            /\ Matches(db.users[u], q.attr, q.value)}

\* What is said of an attribute last; and members, an operation at a time.
LastSaid(ops, attr, kept) ==
    LET said == {i \in DOMAIN ops : ops[i].attr = attr} IN
    IF said = {} THEN kept
    ELSE ops[CHOOSE i \in said : \A j \in said : j <= i].value

MembersAfter(S, ops) ==
    LET after[i \in 0..Len(ops)] ==
            IF i = 0 THEN S
            ELSE IF ops[i].attr = "replace" THEN ops[i].ids
            ELSE IF ops[i].attr = "add" THEN after[i - 1] \cup ops[i].ids
            ELSE IF ops[i].attr = "remove" THEN after[i - 1] \ ops[i].ids
            ELSE after[i - 1]
    IN  after[Len(ops)]

\* An address follows the userName if it was that, or is cleared.
PatchMeant(x, y, ops) ==
    LET email == LastSaid(ops, "email", Unsaid) IN
    /\ \A attr \in {"name", "ext", "active"} : y[attr] = LastSaid(ops, attr, x[attr])
    /\ y.email = IF email \in Addresses THEN email
                 ELSE IF email = Unsaid /\ ~ Derived(x) THEN x.email ELSE y.name

PutMeant(x, y, body) ==
    /\ y.name = body.name /\ y.email = Or(body.email, body.name)
    /\ \A attr \in {"ext", "active", "guest"} : y[attr] = Or(body[attr], x[attr])

Meant(d, e, req) ==
    IF req.verb = "POST" THEN TRUE
    ELSE IF req.kind = "user"
    THEN LET x == d.users[req.id]  y == e.users[req.id] IN
         /\ req.verb = "PUT" => PutMeant(x, y, req.body)
         /\ req.verb = "PATCH" => PatchMeant(x, y, req.ops)
         /\ req.verb # "DELETE" => e.groups = d.groups
         /\ \A u \in Everyone \ {req.id} : e.users[u] = d.users[u]
    ELSE LET x == d.groups[req.id]  y == e.groups[req.id] IN
         /\ req.verb # "DELETE" =>
              /\ y.members = MembersAfter(x.members, req.ops)
              /\ y.title = LastSaid(req.ops, "title", x.title)
         /\ e.users = d.users
         /\ \A g \in GroupIds \ {req.id} : e.groups[g] = d.groups[g]

\* Sent again, an address may take the spelling of a userName that is it.
Alike(d, e) ==
    /\ d.groups = e.groups
    /\ \A u \in Everyone : LET x == d.users[u]  y == e.users[u] IN
          x = y \/ (x = [y EXCEPT !.email = x.email] /\ SameEmail(x, y))

(* A request does what it says, in its order, and to what it names alone;  *)
(* or it is refused and does nothing.  Sent again, it changes nothing more *)
(* (users.ts, groups.ts; the provider retries).                            *)
DoesAsAsked ==
    \A w \in Writers :
        writer[w].busy /\ ~ writer'[w].busy =>
            LET req  == writer[w].req
                done == Work(db, writer[w].seen, req) IN
            /\ IF done.status >= 400 THEN db' = db ELSE Meant(db, db', req)
            /\ Alike(db', Work(db', db', req).db)
AsAsked == [][DoesAsAsked]_vars

=============================================================================
