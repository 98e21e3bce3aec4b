--------------------------- MODULE PrincipalCache ---------------------------
(***************************************************************************)
(* The cache of principals (core/identity principal-cache.ts) and the      *)
(* epoch that invalidates it (core/db 0001_rls.sql, principals.ts).        *)
(*                                                                         *)
(* A transaction resolves a principal in steps: it begins, and what it     *)
(* will see is settled; it reads the epoch and the moment, and looks into  *)
(* this process's cache; and, on a miss, it resolves from its rows and     *)
(* keeps the answer.  Requests run their steps between each other's, and   *)
(* rows and clock go on meanwhile.  Holdings has who changes the rows; of  *)
(* them a stop, a membership and a grant's end are told apart.             *)
(***************************************************************************)
EXTENDS Naturals, SequencesExt

CONSTANTS
    Users,
    Readers,         \* transactions that resolve a principal
    MaxEntries,      \* PrincipalCacheOptions
    Ttl,
    MaxNow,          \* bound: the clock
    MaxChanges       \* bound: transactions that change the rows

ASSUME CacheAssumption ==
    /\ MaxEntries \in Nat \ {0} /\ Ttl \in Nat
    /\ MaxNow \in Nat /\ MaxChanges \in Nat

VARIABLES
    rows,            \* as committed
    now,
    entries,         \* the Map, least recently used first
    reader,
    changes

vars == <<rows, now, entries, reader, changes>>

Never   == MaxNow + 1    \* the end of a grant that has none
NoEntry == [user |-> 0, epoch |-> 0, until |-> 0, holds |-> {}]
Idle    == [pc |-> "idle", kind |-> "none", user |-> 0, view |-> {},
            moment |-> 0, seen |-> NoEntry, answer |-> {}]

Init ==
    /\ rows = [epoch |-> 0, stopped |-> {}, members |-> {}, group |-> 1,
               ends |-> [u \in Users |-> 0]]    \* 0: no grant
    /\ now = 0 /\ entries = <<>>
    /\ reader = [r \in Readers |-> Idle]
    /\ changes = 0

-----------------------------------------------------------------------------
(* The rows.                                                               *)

\* The grants a person holds, their own or the group's, by when they end.
Counted(d, u, at) ==
    {e \in {d.ends[u]} \cup (IF u \in d.members THEN {d.group} ELSE {}) : at < e}

\* A stop denies, and keeps what is held.
resolveWithExpiry(d, u, at) ==
    {<<"grant", e>> : e \in Counted(d, u, at)}
      \cup (IF u \in d.members THEN {<<"group", 0>>} ELSE {})
      \cup (IF u \in d.stopped THEN {} ELSE {<<"active", 0>>})

\* lockPrincipals() makes the epoch's row if there is none.
Locked(d) == [d EXCEPT !.epoch = IF @ = 0 THEN 1 ELSE @]

\* Mutant: no trigger on the memberships.
Bumped_NoMembers(d) ==
    IF d.members # rows.members THEN Locked(d)
    ELSE [Locked(d) EXCEPT !.epoch = @ + 1]

\* bump_principal_epochs(), bump_principal_epoch().
Bumped(d) == [Locked(d) EXCEPT !.epoch = @ + 1]

\* What a transaction may do to the rows.
Changed ==
       {[rows EXCEPT !.members = (@ \cup {u}) \ (@ \cap {u})] : u \in Users}
  \cup {[rows EXCEPT !.stopped = (@ \cup {u}) \ (@ \cap {u})] : u \in Users}
  \cup {[rows EXCEPT !.ends[u] = e] :
          u \in Users, e \in {0, Never} \cup (now + 1)..MaxNow}

Change ==
    /\ changes < MaxChanges /\ changes' = changes + 1
    /\ \E d \in Changed \ {rows} : rows' = Bumped(d)
    /\ UNCHANGED <<now, entries, reader>>

Tick == now < MaxNow /\ now' = now + 1
        /\ UNCHANGED <<rows, entries, reader, changes>>

-----------------------------------------------------------------------------
(* Resolving.                                                              *)

\* A snapshot; a transaction that has changed the rows and will roll back; or
\* one that sees, in each statement, what is committed by then.
Begin(r) ==
    /\ reader[r].pc = "idle"
    /\ \E u \in Users, kind \in {"snapshot", "writing", "committed"} :
          \E d \in IF kind = "writing"
                   THEN {Bumped(c) : c \in Changed \ {rows}} ELSE {rows} :
             reader' = [reader EXCEPT ![r] =
                [Idle EXCEPT !.pc = "begun", !.kind = kind, !.user = u,
                             !.view = d]]
    /\ UNCHANGED <<rows, now, entries, changes>>

\* Mutant: whatever the transaction.
Cacheable_Any(x) == x.view.epoch # 0

\* VIEW_TRANSACTION: read-only, one snapshot; and the tenant has an epoch.
Cacheable(x) == x.kind = "snapshot" /\ x.view.epoch # 0

Kept(u)    == \E i \in DOMAIN entries : entries[i].user = u
At(u)      == CHOOSE i \in DOMAIN entries : entries[i].user = u
EntryOf(u) == IF Kept(u) THEN entries[At(u)] ELSE NoEntry
Without(u) == IF Kept(u) THEN RemoveAt(entries, At(u)) ELSE entries

Answered(r, x, answer, at) ==
    reader' = [reader EXCEPT ![r] =
        [x EXCEPT !.pc = "answered", !.moment = at, !.answer = answer,
                  !.seen = NoEntry]]

\* Mutant: an entry is good as long as its epoch is.
Holds_Epoch(e, x) == e # NoEntry /\ e.epoch = x.view.epoch

Holds(e, x) == e # NoEntry /\ e.epoch = x.view.epoch /\ now < e.until

Hit(r) ==
    /\ reader[r].pc = "begun" /\ Cacheable(reader[r])
    /\ LET x == reader[r]
           e == EntryOf(x.user) IN
       /\ Holds(e, x)
       /\ Answered(r, x, e.holds, now)
       /\ entries' = Append(Without(x.user), e)
    /\ UNCHANGED <<rows, now, changes>>

\* It resolves next, as of this moment; and it has seen what was there.
Miss(r) ==
    /\ reader[r].pc = "begun" /\ Cacheable(reader[r])
    /\ ~Holds(EntryOf(reader[r].user), reader[r])
    /\ reader' = [reader EXCEPT ![r].pc = "missed", ![r].moment = now,
                                ![r].seen = EntryOf(reader[r].user)]
    /\ UNCHANGED <<rows, now, entries, changes>>

\* Resolved from what it sees, for itself only, and nothing kept.
Bypass(r) ==
    /\ reader[r].pc = "begun" /\ ~Cacheable(reader[r])
    /\ reader' = [reader EXCEPT ![r] = Idle]
    /\ UNCHANGED <<rows, now, entries, changes>>

\* Mutant: only Ttl ends an entry.
ValidUntil_Ttl(x, d) == x.moment + Ttl

\* The soonest end of what was counted, and no longer than Ttl.
ValidUntil(x, d) ==
    LET ends == Counted(d, x.user, x.moment) \cup {x.moment + Ttl} IN
    CHOOSE t \in ends : \A s \in ends : t <= s

\* Mutant: an entry more than is kept.
Recent_OneMore(es) == IF Len(es) > MaxEntries + 1 THEN Tail(es) ELSE es

\* Past MaxEntries the least recently used goes.
Recent(es) == IF Len(es) > MaxEntries THEN Tail(es) ELSE es

\* It replaces what it saw, if that was older or would lapse sooner, whatever
\* is there by now.
Resolve(r) ==
    /\ reader[r].pc = "missed"
    /\ LET x == reader[r]
           d == IF x.kind = "committed" THEN rows ELSE x.view
           holds == resolveWithExpiry(d, x.user, x.moment)
           until == ValidUntil(x, d)
           kept == Append(Without(x.user), [user |-> x.user, holds |-> holds,
                              epoch |-> x.view.epoch, until |-> until]) IN
       /\ Answered(r, x, holds, x.moment)
       /\ entries' =
            IF \/ x.seen = NoEntry \/ x.seen.epoch < x.view.epoch
               \/ x.seen.epoch = x.view.epoch /\ until > x.seen.until
            THEN Recent(kept)
            ELSE entries
    /\ UNCHANGED <<rows, now, changes>>

End(r) ==
    /\ reader[r].pc = "answered"
    /\ reader' = [reader EXCEPT ![r] = Idle]
    /\ UNCHANGED <<rows, now, entries, changes>>

clear ==
    /\ entries # <<>> /\ entries' = <<>>
    /\ UNCHANGED <<rows, now, reader, changes>>

Next ==
    \/ Change \/ Tick \/ clear
    \/ \E r \in Readers : Begin(r) \/ Hit(r) \/ Miss(r) \/ Bypass(r)
                          \/ Resolve(r) \/ End(r)

Spec == Init /\ [][Next]_vars

-----------------------------------------------------------------------------
(* Properties.                                                             *)

\* The state has its types.
TypeOK ==
    /\ rows.epoch \in 0..MaxChanges + 1
    /\ rows.members \subseteq Users /\ rows.stopped \subseteq Users
    /\ now \in 0..MaxNow /\ Len(entries) <= MaxEntries
    /\ \A i \in DOMAIN entries : /\ entries[i].epoch \in 1..MaxChanges + 1
                                 /\ \A j \in DOMAIN entries \ {i} :
                                       entries[i].user # entries[j].user
    /\ \A r \in Readers : reader[r].pc \in {"idle", "begun", "missed", "answered"}

\* A request in a snapshot is told what that snapshot holds at its moment,
\* whoever resolved it, in which transaction, and however far rows and clock
\* have gone on since; only what has lapsed by now may be missing
\* (principal-cache.ts: a committed change reaches the next request everywhere).
CacheIsExact == \A r \in Readers :
    LET x == reader[r] IN
    x.pc = "answered" /\ x.kind = "snapshot" =>
       /\ x.answer \subseteq resolveWithExpiry(x.view, x.user, x.moment)
       /\ resolveWithExpiry(x.view, x.user, now) \subseteq x.answer
=============================================================================
