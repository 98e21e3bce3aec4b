------------------------------ MODULE Holdings ------------------------------
(***************************************************************************)
(* What people hold: the directory (core/identity directory.ts, admins.ts, *)
(* sign-in by the provider's id), grants that people give (core/db         *)
(* grants.ts, core/catalog grant-admin.ts) and that a source imports       *)
(* (core/jobs acl.ts).  PrincipalCache has what requests make of it.       *)
(*                                                                         *)
(* A transaction that changes what a principal holds takes the tenant's    *)
(* epoch first, so it is one step.  A sign-in matches before it locks, an  *)
(* import remembers whom it matched for a whole run: those are several.    *)
(* One tag, one file and one group from the provider (the admin group)     *)
(* stand for each; emails, names and roles on a grant are left out.        *)
(***************************************************************************)
EXTENDS Naturals, FiniteSets

CONSTANTS
    Provisioned,     \* people of the identity provider (source scim)
    Local,           \* people of OpenHoard's own
    ExtIds,          \* the provider's ids of its accounts
    NumGrants,       \* bound: grants ever made
    MaxNow,          \* bound: the clock
    MaxEvents        \* bound: changes by people and the provider

VARIABLES
    db,              \* the rows, as committed
    now,
    signer,          \* a sign-in that matched and has yet to lock
    known,           \* the import's AclResolver
    events

vars == <<db, now, signer, known, events>>

People   == Provisioned \cup Local
Group    == "group"
NoId     == "none"
NoGrant  == [to |-> "none", by |-> "none", until |-> 0, live |-> FALSE]

User(u) == [retired |-> FALSE, locked |-> FALSE, disabled |-> FALSE,
            kind |-> "member", admin |-> u \in Local,
            ext |-> IF u \in Provisioned THEN CHOOSE e \in ExtIds : TRUE
                    ELSE NoId]

Init ==
    /\ db = [users |-> [u \in People |-> User(u)], group |-> TRUE, members |-> {},
             grants |-> [g \in 1..NumGrants |-> NoGrant], identities |-> {}]
    /\ now = 0
    /\ signer = [user |-> "none", as |-> NoId]
    /\ known = [e \in ExtIds |-> "unknown"]
    /\ events = 0

-----------------------------------------------------------------------------
(* What is live in rows d at a moment.                                     *)

Active(x) == ~x.retired /\ ~x.locked /\ ~x.disabled

LiveGrants(d, ps, at) == {g \in DOMAIN d.grants :
    /\ d.grants[g].live /\ d.grants[g].to \in ps
    /\ d.grants[g].until = 0 \/ at < d.grants[g].until}

\* An admin counts while an active member: by the role, or the admin group.
Counts(d, u) == Active(d.users[u]) /\ d.users[u].kind = "member"
IsAdmin(d, u) == Counts(d, u) /\ (d.users[u].admin \/ u \in d.members)

Writes(d) ==
    /\ events < MaxEvents /\ events' = events + 1
    /\ db' = d
    /\ UNCHANGED <<now, signer, known>>

\* The grants in gs are revoked; the row stays.
Revoked(d, gs) == [d EXCEPT !.grants = [g \in DOMAIN @ |->
    IF g \in gs THEN [@[g] EXCEPT !.live = FALSE] ELSE @[g]]]
GrantsOf(p)    == {g \in DOMAIN db.grants : db.grants[g].live
                                            /\ db.grants[g].to = p}
SourceGrants   == {g \in DOMAIN db.grants : db.grants[g].live
                                            /\ db.grants[g].by = "source"}
NextGrants(d)  == {g \in DOMAIN d.grants : d.grants[g] = NoGrant}

\* The principal is a current user or an existing group (lockPrincipal()).
Grantable(p) == IF p = Group THEN db.group ELSE ~db.users[p].retired

-----------------------------------------------------------------------------
(* The directory.                                                          *)

Change(u, x) == [db EXCEPT !.users[u] = x]

lockUser(u) ==
    /\ ~db.users[u].retired /\ ~db.users[u].locked
    /\ Writes(Change(u, [db.users[u] EXCEPT !.locked = TRUE]))

unlockUser(u) ==
    /\ ~db.users[u].retired /\ db.users[u].locked
    /\ Writes(Change(u, [db.users[u] EXCEPT !.locked = FALSE]))

setProviderActive(u) ==
    /\ u \in Provisioned /\ ~db.users[u].retired
    /\ Writes(Change(u, [db.users[u] EXCEPT !.disabled = ~@]))

\* Grants, memberships, identities and the admin role all go.
retireUser(u) ==
    /\ ~db.users[u].retired
    /\ LET gone == Revoked(db, GrantsOf(u)) IN
       Writes([gone EXCEPT !.members = @ \ {u},
                 !.identities = {i \in @ : i.user # u},
                 !.users[u].retired = TRUE, !.users[u].admin = FALSE])

setKind(u) ==
    /\ ~db.users[u].retired
    /\ Writes(Change(u, [db.users[u] EXCEPT !.kind =
                 IF @ = "member" THEN "guest" ELSE "member"]))

\* Refused once they have signed in; before that, what sources granted them
\* under the old id is taken back.
\* Mutant: refused for nobody.
updateExternalId_Anyone(u, e) ==
    /\ u \in Provisioned /\ ~db.users[u].retired /\ db.users[u].ext # e
    /\ \A v \in People : db.users[v].ext = e => db.users[v].retired
    /\ Writes(LET d == Revoked(db, SourceGrants \cap GrantsOf(u)) IN
              [d EXCEPT !.users[u].ext = e])

updateExternalId(u, e) ==
    /\ u \in Provisioned /\ ~db.users[u].retired /\ db.users[u].ext # e
    /\ \A i \in db.identities : i.user # u
    /\ \A v \in People : db.users[v].ext = e => db.users[v].retired
    /\ Writes(LET d == Revoked(db, SourceGrants \cap GrantsOf(u)) IN
              [d EXCEPT !.users[u].ext = e])

\* The provider adds only its own people to its groups.
addMember(u) ==
    /\ db.group /\ u \in Provisioned /\ ~db.users[u].retired
    /\ u \notin db.members
    /\ Writes([db EXCEPT !.members = @ \cup {u}])

removeMember(u) ==
    /\ db.group /\ u \in db.members
    /\ Writes([db EXCEPT !.members = @ \ {u}])

deleteGroup ==
    /\ db.group
    /\ Writes([Revoked(db, GrantsOf(Group)) EXCEPT !.group = FALSE,
                 !.members = {}])

grantAdmin(u) ==
    /\ Counts(db, u) /\ ~db.users[u].admin
    /\ Writes(Change(u, [db.users[u] EXCEPT !.admin = TRUE]))

\* Never from the last who counts.
revokeAdmin(u) ==
    /\ ~db.users[u].retired /\ db.users[u].admin
    /\ Counts(db, u) /\ u \notin db.members
         => \E v \in People \ {u} : IsAdmin(db, v)
    /\ Writes(Change(u, [db.users[u] EXCEPT !.admin = FALSE]))

-----------------------------------------------------------------------------
(* Grants.                                                                 *)

\* By hand; one at a time for a principal.
giveTagGrant(p, until) ==
    /\ Grantable(p)
    /\ \A g \in LiveGrants(db, {p}, now) : db.grants[g].by # "person"
    /\ until = 0 \/ until > now
    /\ \E g \in NextGrants(db) :
          /\ \A f \in 1..g - 1 : f \notin NextGrants(db)
          /\ Writes([db EXCEPT !.grants[g] =
                [to |-> p, by |-> "person", until |-> until, live |-> TRUE]])

takeTagGrant(p) ==
    /\ \E g \in LiveGrants(db, {p}, now) :
          db.grants[g].by = "person" /\ Writes(Revoked(db, {g}))

\* Whom the provider's id names here: no one retired.
findUserByExternalId(e) == {u \in People : ~db.users[u].retired
                                          /\ db.users[u].ext = e}
Match(e) == IF findUserByExternalId(e) = {} THEN "nobody"
            ELSE CHOOSE u \in findUserByExternalId(e) : TRUE

Remembered(says) == [e \in ExtIds |->
    IF e \in says /\ known[e] = "unknown" THEN Match(e) ELSE known[e]]

\* Mutant: whom the run remembers is taken to be there still.
AddObjectGrants_Anyone(d, ps) == \E gs \in SUBSET NextGrants(d) :
    /\ Cardinality(gs) = Cardinality(ps)
    /\ \E to \in [gs -> ps] :
          /\ \A p \in ps : \E g \in gs : to[g] = p
          /\ db' = [d EXCEPT !.grants = [g \in DOMAIN @ |->
                IF g \in gs THEN [to |-> to[g], by |-> "source", until |-> 0,
                                  live |-> TRUE] ELSE @[g]]]

\* Each principal is looked at again, locked: one that is gone is left out, and
\* forgotten.
AddObjectGrants(d, ps) == \E gs \in SUBSET NextGrants(d) :
    LET there == {p \in ps : Grantable(p)} IN
    /\ Cardinality(gs) = Cardinality(there)
    /\ \E to \in [gs -> there] :
          /\ \A p \in there : \E g \in gs : to[g] = p
          /\ db' = [d EXCEPT !.grants = [g \in DOMAIN @ |->
                IF g \in gs THEN [to |-> to[g], by |-> "source", until |-> 0,
                                  live |-> TRUE] ELSE @[g]]]

\* The file is visited: the source's grants on it become what it says.
applySourceAcl(says) ==
    LET match   == Remembered(says)
        wanted  == {match[e] : e \in says} \ {"nobody"}
        keep    == {g \in SourceGrants : db.grants[g].to \in wanted}
        add     == wanted \ {db.grants[g].to : g \in keep} IN
    /\ AddObjectGrants(Revoked(db, SourceGrants \ keep), add)
    /\ known' = [e \in ExtIds |->
                   IF match[e] \in add /\ ~Grantable(match[e]) THEN "unknown"
                   ELSE match[e]]
    /\ UNCHANGED <<now, signer, events>>

\* The run is over, or begins its delta again.
RunEnds ==
    /\ known' = [e \in ExtIds |-> "unknown"] /\ known' # known
    /\ UNCHANGED <<db, now, signer, events>>

withdrawSourceGrants ==
    /\ SourceGrants # {}
    /\ Writes(Revoked(db, SourceGrants))

-----------------------------------------------------------------------------
(* Sign-in by an account at the provider, e.                               *)

\* Matched before the row is locked.
BeginSignIn(e) ==
    /\ signer.user = "none"
    /\ \A i \in db.identities : i.account # e
    /\ \E u \in findUserByExternalId(e) :
          /\ Active(db.users[u])
          /\ signer' = [user |-> u, as |-> e]
    /\ UNCHANGED <<db, now, known, events>>

\* Locked: it has this id still, or the sign-in is nobody's.
\* Mutant: the match is taken to hold.
StillNamed_Matched == signer.user # "none"

StillNamed == /\ signer.user # "none"
              /\ db.users[signer.user].ext = signer.as

linkIdentity ==
    /\ signer.user # "none"
    /\ signer' = [user |-> "none", as |-> NoId]
    /\ \/ /\ StillNamed
          /\ ~db.users[signer.user].retired
          /\ db' = [db EXCEPT !.identities =
                      @ \cup {[account |-> signer.as, user |-> signer.user]}]
       \/ /\ ~StillNamed \/ db.users[signer.user].retired
          /\ UNCHANGED db
    /\ UNCHANGED <<now, known, events>>

Tick == now < MaxNow /\ now' = now + 1
        /\ UNCHANGED <<db, signer, known, events>>

Next ==
    \/ \E u \in People :
          \/ lockUser(u) \/ unlockUser(u) \/ setProviderActive(u)
          \/ retireUser(u) \/ setKind(u) \/ addMember(u) \/ removeMember(u)
          \/ grantAdmin(u) \/ revokeAdmin(u)
          \/ \E e \in ExtIds : updateExternalId(u, e)
    \/ deleteGroup
    \/ \E p \in People \cup {Group} :
          \/ takeTagGrant(p)
          \/ \E until \in 0..MaxNow : giveTagGrant(p, until)
    \/ \E says \in SUBSET ExtIds : applySourceAcl(says)
    \/ RunEnds \/ withdrawSourceGrants
    \/ \E e \in ExtIds : BeginSignIn(e)
    \/ linkIdentity
    \/ Tick

Spec == Init /\ [][Next]_vars

-----------------------------------------------------------------------------
(* Properties.                                                             *)

\* The state has its types.
TypeOK ==
    /\ \A u \in People : db.users[u].ext \in ExtIds \cup {NoId}
    /\ db.members \subseteq People
    /\ \A g \in 1..NumGrants : db.grants[g].to \in People \cup {Group, "none"}
    /\ \A i \in db.identities : i.user \in People /\ i.account \in ExtIds
    /\ signer.user \in People \cup {"none"}
    /\ known \in [ExtIds -> People \cup {"unknown", "nobody"}]

\* Nothing is live for someone retired or a group that is gone, whatever an
\* import remembers of them (directory.ts: they leave every group, their grants
\* are revoked, their identities are unlinked).
NothingSurvives ==
    /\ \A g \in DOMAIN db.grants : db.grants[g].live => Grantable(db.grants[g].to)
    /\ \A u \in db.members : db.group /\ ~db.users[u].retired
    /\ \A i \in db.identities : ~db.users[i.user].retired

\* An account signs in as the record that has its id, and that record can't be
\* handed to another account (updateUser(): the external id is held).
IdentityIsTheirs == \A i \in db.identities : db.users[i.user].ext = i.account

HoldsTheirOwn == NothingSurvives /\ IdentityIsTheirs
=============================================================================
