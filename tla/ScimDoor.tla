------------------------------ MODULE ScimDoor ------------------------------
(***************************************************************************)
(* The door of the SCIM endpoint (apps/server scim/routes.ts, limiter.ts,  *)
(* core/identity scim-tokens.ts): who may come in, what guessing costs,    *)
(* and what is recorded of it.                                             *)
(*                                                                         *)
(* A request looks at the limiter, waits for the check of its token,       *)
(* counts what came of it, waits for its body, and does its work in a      *)
(* transaction that checks the token again.  Others run between any two    *)
(* of these, and the token may be revoked, expire or be pruned.  One       *)
(* tenant with one token; what the work is, is Provisioning's.             *)
(***************************************************************************)
EXTENDS Integers, FiniteSets

CONSTANTS
    Requests,
    Addresses,
    MaxFailures,     \* ScimOptions
    Attempts,        \* TRANSACTION_ATTEMPTS
    MaxEvents        \* bound: counts, and the memory, run out; transactions that
                     \* fail, and conflicts

VARIABLES
    token,           \* as committed; revoked and expired are alike: over
    counts,          \* FailureLimiter: the failures of a key in its window
    recent,          \* RecentTokens: the token authenticated not long ago
    summary,         \* RefusalSummary, and how many it owes the log
    request,
    told,            \* the refusals the log was told of in a key's window
    events

vars == <<token, counts, recent, summary, request, told, events>>

Keys      == Addresses \cup {"token", "tenant"}
Secrets   == {"good", "wrong", "unknown"}    \* unknown: another token id
Idle      == [pc |-> "idle", address |-> CHOOSE a \in Addresses : TRUE,
              secret |-> "good", blocked |-> FALSE, check |-> "ok",
              tries |-> 0, good |-> TRUE, wronged |-> FALSE,
              acted |-> 0, allow |-> 0, deny |-> 0, answer |-> 0]

Init ==
    /\ token = "live"
    /\ counts = [k \in Keys |-> 0]
    /\ recent = FALSE
    /\ summary = [pending |-> 0, writing |-> 0, due |-> 0, owed |-> 0,
                  state |-> "open"]
    /\ request = [r \in Requests |-> Idle]
    /\ told = [k \in Keys |-> 0]
    /\ events = 0

-----------------------------------------------------------------------------
(* The token.                                                              *)

\* checkScimToken(): why a token id that is real is refused.
Checked(secret) ==
    IF secret = "unknown" \/ token = "gone" THEN "unknown"
    ELSE IF secret = "wrong" THEN "wrong-secret"
    ELSE IF token = "live" THEN "ok" ELSE "over"

\* It is revoked, or expires.
TokenEnds == token = "live" /\ token' = "over"
             /\ UNCHANGED <<counts, recent, summary, request, told, events>>

Prune == token = "over" /\ token' = "gone"
         /\ UNCHANGED <<counts, recent, summary, request, told, events>>

-----------------------------------------------------------------------------
(* Counting.                                                               *)

\* Mutant: the limit is past what is counted.
Blocked_Past(k) == counts[k] > MaxFailures

\* Those past MaxFailures are as good as that many.
Blocked(k) == counts[k] = MaxFailures

\* Mutant: a failure that isn't the first begins the count anew.
Failed_Anew(k) == IF counts[k] = 0 THEN 1 ELSE 0

Failed(k) == IF counts[k] < MaxFailures THEN counts[k] + 1 ELSE counts[k]

\* limiter.fail()
CountedFor(ks) == [k \in Keys |-> IF k \in ks THEN Failed(k) ELSE counts[k]]

AnEvent == events < MaxEvents /\ events' = events + 1

\* The window of a key's first failure is over: as good as no entry.
WindowEnds(k) ==
    /\ counts[k] > 0 /\ AnEvent
    /\ counts' = [counts EXCEPT ![k] = 0] /\ told' = [told EXCEPT ![k] = 0]
    /\ UNCHANGED <<token, recent, summary, request>>

Forgotten ==
    /\ recent /\ AnEvent
    /\ recent' = FALSE
    /\ UNCHANGED <<token, counts, summary, request, told>>

\* RefusalSummary.note()
Noted ==
    IF summary.state # "open" THEN summary
    ELSE [summary EXCEPT !.owed = @ + 1, !.pending = @ + 1]

\* Mutant: what is being written stays pending until it is.
Taken_Kept == summary.pending

\* What stays pending once the timer's callback has taken the count.
Taken == 0

\* The timer fires; the record is written in a transaction of its own.
SummaryIsDue ==
    /\ summary.pending > 0 /\ summary.writing = 0
    /\ summary' = [summary EXCEPT !.writing = summary.pending,
                                  !.pending = Taken]
    /\ UNCHANGED <<token, counts, recent, request, told, events>>

\* flush(): a transaction that fails is only logged.
Flushed(count, s) == summary' = [s EXCEPT !.owed = @ - count]

FlushEnds(count, s) ==
    \/ summary.state # "closed" /\ Flushed(count, s) /\ UNCHANGED events
    \/ Flushed(count, s) /\ AnEvent

SummaryIsWritten ==
    /\ summary.writing > 0
    /\ FlushEnds(summary.writing, [summary EXCEPT !.writing = 0])
    /\ UNCHANGED <<token, counts, recent, request, told>>

\* Mutant: the timers are stopped, and what they counted forgotten.
DueAtClose_None == 0

DueAtClose == summary.pending

\* close(), at shutdown: what is pending is written, and nothing more counted.
Close ==
    /\ summary.state = "open"
    /\ summary' = [summary EXCEPT !.state = "closing", !.due = DueAtClose,
                                  !.pending = 0]
    /\ UNCHANGED <<token, counts, recent, request, told, events>>

DueIsWritten ==
    /\ summary.due > 0
    /\ FlushEnds(summary.due, [summary EXCEPT !.due = 0])
    /\ UNCHANGED <<token, counts, recent, request, told>>

\* The database closes once close() has returned.
Closed ==
    /\ summary.state = "closing" /\ summary.due = 0
    /\ \A r \in Requests : request[r].pc \in {"idle", "answered"}
    /\ summary' = [summary EXCEPT !.state = "closed"]
    /\ UNCHANGED <<token, counts, recent, request, told, events>>

-----------------------------------------------------------------------------
(* A request comes in.                                                     *)

At(r, pc) == request[r].pc = pc
Goes(r, x) == request' = [request EXCEPT ![r] = x]
Ends(r, x, status) ==
    Goes(r, [Idle EXCEPT !.pc = "answered", !.answer = status,
               !.wronged = /\ x.secret = "good" /\ token = "live"
                           /\ status \in {401, 429},
               !.good = x.good \/ x.acted = 0, !.acted = x.acted,
               !.allow = x.allow, !.deny = x.deny])

\* tokenKey and tenantKey are those of the token id and tenant it names.
LooksAt(a, secret) ==
    {a, "tenant"} \cup (IF secret = "unknown" THEN {} ELSE {"token"})

Arrive(r, a, secret) ==
    /\ request[r].pc \in {"idle", "answered"} /\ summary.state # "closed"
    /\ Goes(r, [Idle EXCEPT !.pc = "looked", !.address = a, !.secret = secret,
                  !.blocked = \E k \in LooksAt(a, secret) : Blocked(k)])
    /\ UNCHANGED <<token, counts, recent, summary, told, events>>

\* Mutant: blocked, it is turned away whatever its token.
Quiet_Refuses(check) == FALSE

\* A quiet check lets a valid token through.
Quiet(check) == check = "ok"

Records(check) == check \notin {"ok", "unknown"}

\* The keys a refusal in the log tells of: a token's are those it is over in.
ToldOf(x, check) ==
    [k \in Keys |-> told[k] +
        IF /\ Records(check)
           /\ k = x.address \/ (k = "token" /\ check # "wrong-secret")
        THEN 1 ELSE 0]

\* The token is checked, and a refusal recorded with it; or the quiet check.
CheckToken(r) ==
    LET x == request[r]  check == Checked(x.secret) IN
    /\ At(r, "looked")
    /\ IF x.blocked /\ ~ Quiet(check)
       THEN Ends(r, x, 429) /\ UNCHANGED told
       ELSE /\ Goes(r, [x EXCEPT !.pc = "checked", !.check = check,
                                 !.blocked = FALSE])
            /\ told' = ToldOf(x, check)
    /\ UNCHANGED <<token, counts, recent, summary, events>>

CheckFails(r) ==
    /\ At(r, "looked") /\ AnEvent
    /\ Ends(r, request[r], 500)
    /\ UNCHANGED <<token, counts, recent, summary, told>>

\* Revoked or expired, a token is in use no more.
StillUsed(check) == recent /\ check # "over"

Admit(r) ==
    /\ At(r, "checked") /\ request[r].check = "ok"
    /\ recent' = TRUE
    /\ Goes(r, [request[r] EXCEPT !.pc = "reading"])
    /\ UNCHANGED <<token, counts, summary, told, events>>

\* Mutant: a wrong secret never counts towards the address either.
CountsTo_Recent(x, used) == IF used THEN {} ELSE {x.address, "token"}

\* Mutant: a refusal is not counted towards its address.
CountsTo_TokenOnly(x, used) == {"token"}

CountsTo(x, used) == {x.address} \cup (IF used THEN {} ELSE {"token"})

Refuse(r) ==
    LET x == request[r]  used == StillUsed(x.check) IN
    /\ At(r, "checked") /\ Records(x.check)
    /\ recent' = used
    /\ counts' = CountedFor(CountsTo(x, used))
    /\ Ends(r, x, 401)
    /\ UNCHANGED <<token, summary, told, events>>

RefuseUnknown(r) ==
    /\ At(r, "checked") /\ request[r].check = "unknown"
    /\ counts' = CountedFor({request[r].address, "tenant"})
    /\ summary' = Noted
    /\ Ends(r, request[r], 401)
    /\ UNCHANGED <<token, recent, told, events>>

-----------------------------------------------------------------------------
(* Its work: run().                                                        *)

\* Mutant: the transaction that acts trusts the check at the door.
Rechecked_Door(x) == x.check

Rechecked(x) == Checked(x.secret)

\* The transaction begins with the check; a write then waits for its lock.
BeginWork(r) ==
    LET x == request[r]  check == Rechecked(x) IN
    /\ At(r, "reading")
    /\ Goes(r, [x EXCEPT !.tries = @ + 1, !.good = token = "live",
                  !.pc = IF check = "ok" THEN "working" ELSE "refused"])
    /\ told' = ToldOf(x, check)
    /\ UNCHANGED <<token, counts, recent, summary, events>>

\* Mutant: a refusal keeps what the work had done.
Undone_Kept(x) == [x EXCEPT !.acted = 1]

\* The savepoint undoes what a refused work had done.
Undone(x) == x

WorkDone(r) ==
    /\ At(r, "working")
    /\ Ends(r, [request[r] EXCEPT !.acted = 1, !.allow = @ + 1], 200)
    /\ UNCHANGED <<token, counts, recent, summary, told, events>>

WorkRefused(r) ==
    /\ At(r, "working")
    /\ Ends(r, [Undone(request[r]) EXCEPT !.deny = @ + 1], 400)
    /\ UNCHANGED <<token, counts, recent, summary, told, events>>

\* Mutant: a conflict's record was written apart, and stays.
RolledBack_Recorded(x) == [x EXCEPT !.allow = @ + 1]

\* The transaction is rolled back, its record with it.
RolledBack(x) == x

\* A deadlock or a serialization failure runs it again, whole, a few times.
WorkConflicts(r) ==
    /\ At(r, "working") /\ AnEvent
    /\ Goes(r, [RolledBack(request[r]) EXCEPT
                  !.pc = IF request[r].tries < Attempts THEN "reading"
                         ELSE "failed"])
    /\ UNCHANGED <<token, counts, recent, summary, told>>

WorkBreaks(r) ==
    /\ At(r, "working") /\ AnEvent
    /\ Goes(r, [RolledBack(request[r]) EXCEPT !.pc = "failed"])
    /\ UNCHANGED <<token, counts, recent, summary, told>>

\* The failure's record, in a transaction of its own that may fail too.
TellFailure(r) ==
    /\ At(r, "failed")
    /\ \/ Ends(r, [request[r] EXCEPT !.deny = @ + 1], 500) /\ UNCHANGED events
       \/ Ends(r, request[r], 500) /\ AnEvent
    /\ UNCHANGED <<token, counts, recent, summary, told>>

\* Revoked or expired since the door: counted, and in use no more.
RefuseWork(r) ==
    /\ At(r, "refused")
    /\ recent' = FALSE
    /\ counts' = CountedFor({request[r].address, "token"})
    /\ Ends(r, request[r], 401)
    /\ UNCHANGED <<token, summary, told, events>>

Step(r) ==
    \/ CheckToken(r) \/ CheckFails(r) \/ Admit(r) \/ Refuse(r)
    \/ RefuseUnknown(r) \/ BeginWork(r) \/ WorkDone(r) \/ WorkRefused(r)
    \/ WorkConflicts(r) \/ WorkBreaks(r) \/ TellFailure(r) \/ RefuseWork(r)

Next ==
    \/ TokenEnds \/ Prune \/ Forgotten
    \/ \E k \in Keys : WindowEnds(k)
    \/ SummaryIsDue \/ SummaryIsWritten \/ Close \/ DueIsWritten \/ Closed
    \/ \E r \in Requests : Step(r)
    \/ \E r \in Requests, a \in Addresses, s \in Secrets : Arrive(r, a, s)

Spec == Init /\ [][Next]_vars

-----------------------------------------------------------------------------
TypeOK ==
    /\ token \in {"live", "over", "gone"}
    /\ counts \in [Keys -> Nat] /\ told \in [Keys -> Nat] /\ recent \in BOOLEAN
    /\ summary.state \in {"open", "closing", "closed"}
    /\ \A r \in Requests : request[r].address \in Addresses

(* The tenant's own token is turned away by nobody's guesses, from its own  *)
(* address or anywhere, wherever in its request they come (limiter.ts; a    *)
(* block never refuses a valid token on its own).                           *)
NeverLockedOut ==
    \A r \in Requests :
        ~ request[r].wronged

(* However many guess at once, the log is told of no more refusals in the   *)
(* window of an address, or of a token that is over, than it may fail and   *)
(* were under way as it was blocked; a token that ended meanwhile adds      *)
(* those it had let in (limiter.ts, routes.ts).                             *)
GuessesAreBounded ==
    \A k \in Keys :
        told[k] < MaxFailures
                    + Cardinality(Requests) * (IF token = "live" THEN 1 ELSE 2)

(* A guess at a token id that isn't is in one summary, written once, unless *)
(* its transaction fails; and a shutdown forgets none (RefusalSummary).     *)
EachInOneSummary ==
    summary.owed = summary.pending + summary.writing + summary.due

(* What a request did and what the log says of it are one: done and         *)
(* allowed, refused with nothing done, or failed with nothing done; and a   *)
(* token that was over as its transaction began did nothing (run()).        *)
WorkIsRecorded ==
    \A r \in Requests : LET x == request[r] IN
        /\ x.acted = 1 => x.good
        /\ x.pc = "answered" =>
              /\ x.acted = (IF x.answer = 200 THEN 1 ELSE 0)
              /\ x.allow = x.acted
              /\ x.deny = 1 \/ x.answer # 400
              /\ x.deny = 0 \/ x.answer \in {400, 500}

=============================================================================
