----------------------------- MODULE ModelCalls -----------------------------
(***************************************************************************)
(* Calls to model providers (ai/models): the tenant's tokens for a day are *)
(* reserved before a call and settled after it (budget.ts), a client lets  *)
(* so many calls through at once (clients.ts limiter()), and each attempt  *)
(* asks its guard first and may be made again (http.ts postJson()).        *)
(*                                                                         *)
(* Callers are a summary, which asks once more when the answer is of no    *)
(* use, a version's embeddings (ai/enrich) and a search's words (query.ts).*)
(* Tokens are counted in calls' worth; what answers say is left out.       *)
(***************************************************************************)
EXTENDS Naturals, Sequences, FiniteSetsExt

CONSTANTS
    Callers,
    Concurrency,     \* calls in flight at once
    Limit,           \* the tenant's tokens for a day
    MaxRetries,
    NumDays,
    MaxFaults        \* bound: changes of exposure, servers stopped

VARIABLES
    usage,           \* model_usage: tokens, by day
    day,
    allowed,         \* the file's exposure lets this provider have it
    caller,
    active,          \* the limiter
    waiting,
    account,         \* what was spent, and reserved and never settled, by day
    faults

vars == <<usage, day, allowed, caller, active, waiting, account, faults>>

Days == 1..NumDays

\* The call and one repair; a reservation, and what a call is counted as at most.
ReserveOf(kind) == IF kind = "summary" THEN 2 ELSE 1
CapOf(kind)     == CASE kind = "summary" -> 2 [] kind = "embed" -> 1
                     [] OTHER -> 4

Idle == [pc |-> "idle", kind |-> "query", day |-> 1, used |-> 0, left |-> 0,
         repair |-> FALSE]

Init ==
    /\ usage = [d \in Days |-> 0] /\ day = 1
    /\ allowed = TRUE
    /\ caller = [c \in Callers |-> Idle]
    /\ active = 0 /\ waiting = <<>>
    /\ account = [d \in Days |-> [spent |-> 0, lost |-> 0, over |-> 0]]
    /\ faults = 0

At(pc) == {c \in Callers : caller[c].pc = pc}

-----------------------------------------------------------------------------
(* The budget.                                                             *)

\* Mutant: anything may be reserved until the budget is spent.
Fits_Spent(kind) == usage[day] <= Limit

\* Only if the total stays within the budget, in the statement that adds to it.
Fits(kind) == usage[day] + ReserveOf(kind) <= Limit

reserveTokens(c) ==
    /\ caller[c].pc = "idle"
    /\ \E kind \in {"summary", "embed", "query"} :
          IF Fits(kind)
          THEN /\ usage' = [usage EXCEPT ![day] = @ + ReserveOf(kind)]
               /\ caller' = [caller EXCEPT ![c] =
                    [Idle EXCEPT !.pc = "reserved", !.kind = kind, !.day = day,
                                 !.left = MaxRetries]]
          ELSE UNCHANGED usage /\ caller' = [caller EXCEPT ![c].pc = "over"]
    /\ UNCHANGED <<day, allowed, active, waiting, account, faults>>

\* Mutant: the day it is settled.
SettledOn_Today(c) == day

\* The day of the reservation, though it be over.
SettledOn(c) == caller[c].day

More(a, b) == IF a > b THEN a - b ELSE 0

\* However the call ended, once: what was spent stays, the rest goes back.
settleTokens(c) ==
    /\ caller[c].pc = "settling"
    /\ LET d == SettledOn(c)
           r == ReserveOf(caller[c].kind)
           u == caller[c].used IN
       /\ usage' = [usage EXCEPT ![d] = More(@ + u, r)]
       /\ account' = [account EXCEPT ![caller[c].day].spent = @ + u,
                                     ![caller[c].day].over = @ + More(u, r)]
    /\ caller' = [caller EXCEPT ![c].pc = "over"]
    /\ UNCHANGED <<day, allowed, active, waiting, faults>>

\* A job that isn't current any more, or a database that fails: it stays reserved.
NotSettled(c) ==
    /\ caller[c].pc = "settling"
    /\ account' = [account EXCEPT ![caller[c].day].lost =
                                        @ + ReserveOf(caller[c].kind)]
    /\ caller' = [caller EXCEPT ![c].pc = "over"]
    /\ UNCHANGED <<usage, day, allowed, active, waiting, faults>>

-----------------------------------------------------------------------------
(* The client.                                                             *)

\* limiter(): a slot, or a place in the queue.
Enter(c) ==
    /\ caller[c].pc = "reserved"
    /\ IF active >= Concurrency
       THEN /\ waiting' = Append(waiting, c) /\ UNCHANGED active
            /\ caller' = [caller EXCEPT ![c].pc = "waiting"]
       ELSE /\ active' = active + 1 /\ UNCHANGED waiting
            /\ caller' = [caller EXCEPT ![c].pc = "calling"]
    /\ UNCHANGED <<usage, day, allowed, account, faults>>

\* The slot is handed to the first that waits, or given back.
Leave(c, after) ==
    IF waiting = <<>>
    THEN /\ active' = active - 1 /\ UNCHANGED waiting
         /\ caller' = [caller EXCEPT ![c] = after]
    ELSE /\ waiting' = Tail(waiting) /\ UNCHANGED active
         /\ caller' = [caller EXCEPT ![c] = after,
              ![Head(waiting)].pc = IF @ = "waiting" THEN "calling" ELSE @]

\* The guard, right before each attempt; a search's words are the caller's own.
Guard(c) == caller[c].kind = "query" \/ allowed

Calling(c) == caller[c].pc = "calling" /\ UNCHANGED <<usage, day, allowed,
                                                      account, faults>>

Withheld(c) ==
    /\ Calling(c) /\ ~Guard(c)
    /\ Leave(c, [caller[c] EXCEPT !.pc = "settling"])

\* A status to try again, a timeout, a connection that fails.
Retry(c) ==
    /\ Calling(c) /\ Guard(c) /\ caller[c].left > 0
    /\ caller' = [caller EXCEPT ![c].left = @ - 1]
    /\ UNCHANGED <<active, waiting>>

\* Nothing left to try, or nothing that trying again would help.
Fails(c) ==
    /\ Calling(c) /\ Guard(c)
    /\ Leave(c, [caller[c] EXCEPT !.pc = "settling"])

\* An answer, and what it is said to have cost.
Answers(c) ==
    /\ Calling(c) /\ Guard(c)
    /\ \E n \in {0, 1, CapOf(caller[c].kind)} :
       LET counted == [caller[c] EXCEPT !.pc = "settling", !.used = @ + n] IN
       \/ Leave(c, counted)
       \/ /\ counted.kind = "summary" /\ ~counted.repair
          /\ Leave(c, [counted EXCEPT !.pc = "reserved", !.repair = TRUE,
                                      !.left = MaxRetries])

\* Mutant: a caller that gives up keeps its place.
Without_Kept(c) == waiting

\* The queue without a caller that gave up.
Without(c) == SelectSeq(waiting, LAMBDA x : x # c)

\* Its signal: the job's lease, its time for the call, the request.
Abort(c) ==
    /\ \/ /\ caller[c].pc = "waiting"
          /\ waiting' = Without(c) /\ UNCHANGED active
          /\ caller' = [caller EXCEPT ![c].pc = "settling"]
       \/ /\ caller[c].pc = "calling"
          /\ Leave(c, [caller[c] EXCEPT !.pc = "settling"])
    /\ UNCHANGED <<usage, day, allowed, account, faults>>

-----------------------------------------------------------------------------
(* The rest.                                                               *)

Fault == faults < MaxFaults /\ faults' = faults + 1

Exposure ==
    /\ Fault /\ allowed' = ~allowed
    /\ UNCHANGED <<usage, day, caller, active, waiting, account>>

Open(c) == caller[c].pc \notin {"idle", "over"}
HeldOn(d) == MapThenSumSet(LAMBDA c : ReserveOf(caller[c].kind),
                           {c \in Callers : Open(c) /\ caller[c].day = d})

\* The server stops: nothing is settled.
Stop ==
    /\ Fault
    /\ active' = 0 /\ waiting' = <<>>
    /\ account' = [d \in Days |-> [account[d] EXCEPT !.lost = @ + HeldOn(d)]]
    /\ caller' = [c \in Callers |->
                    IF Open(c) THEN [caller[c] EXCEPT !.pc = "over"]
                    ELSE caller[c]]
    /\ UNCHANGED <<usage, day, allowed>>

Midnight ==
    /\ day < NumDays /\ day' = day + 1
    /\ UNCHANGED <<usage, allowed, caller, active, waiting, account, faults>>

Next ==
    \/ \E c \in Callers : \/ reserveTokens(c) \/ settleTokens(c) \/ NotSettled(c)
                          \/ Enter(c) \/ Withheld(c) \/ Retry(c) \/ Fails(c)
                          \/ Answers(c) \/ Abort(c)
    \/ Exposure \/ Stop \/ Midnight

Spec == Init /\ [][Next]_vars

-----------------------------------------------------------------------------
(* Properties.                                                             *)

\* The state has its types.
TypeOK ==
    /\ usage \in [Days -> Nat] /\ day \in Days /\ allowed \in BOOLEAN
    /\ active \in 0..Concurrency
    /\ \A c \in Callers : caller[c].pc \in {"idle", "reserved", "waiting",
                                            "calling", "settling", "over"}

\* Whatever calls at once and however calls end, a day's tokens are what was
\* spent that day and what is or stays reserved, no less; and they go past the
\* limit by no more than calls cost beyond what was reserved for them
\* (budget.ts: two jobs racing for the last tokens can't both win).
BudgetIsKept == \A d \in Days :
    /\ usage[d] = account[d].spent + HeldOn(d) + account[d].lost
    /\ usage[d] <= Limit + account[d].over

\* Retries, repairs and callers that give up among them, a slot is held for
\* every call that is out and no other, and none is free while one waits.
SlotsAreKept ==
    /\ active = Cardinality(At("calling"))
    /\ {waiting[n] : n \in DOMAIN waiting} = At("waiting")
    /\ waiting # <<>> => active = Concurrency

CallsAreCounted == BudgetIsKept /\ SlotsAreKept
=============================================================================
