------------------------------ MODULE GraphCalls ------------------------------
(***************************************************************************)
(* Requests to Microsoft Graph as the app: the budget they share and the   *)
(* throttles they wait out (connectors/sharepoint pace.ts), each request's *)
(* tries (graph.ts), and the token they share (auth.ts).                   *)
(*                                                                         *)
(* Callers are the sources signed in as one app in one process.  Time      *)
(* passes in ticks of a second, the longest wait that is taken whatever a  *)
(* caller may wait; a unit comes each tick, and no tick passes while       *)
(* something is due.  Answers are without bodies: 2xx, and what is not     *)
(* asked again (403, 404, 410, another 4xx, a redirect), are "answered".   *)
(***************************************************************************)
EXTENDS Integers, SequencesExt

CONSTANTS
    Callers,
    Costs,           \* what a request may cost
    Capacity,        \* the burst
    Throttles,       \* how long Graph may ask to wait
    maxWait,         \* how long a request may wait in all (maxWaitMs)
    RETRIES,
    MAX_THROTTLES,
    MaxTokens,       \* BOUND: tokens Entra issues
    MaxFaults        \* BOUND: throttles, failures, refused and lapsed tokens,
                     \* aborts

VARIABLES
    call,      \* each caller's request
    queue,     \* those that wait their turn, in the order they came
    pace,      \* units counted, ticks that came since, and ticks of pause left
    token,     \* the one held, and those Graph takes
    asking,    \* whether a request to Entra is under way
    faults,
    bucket     \* the burst filling a unit a tick, emptied by each throttle

vars == <<call, queue, pace, token, asking, faults, bucket>>

None == 0
SHORT_WAIT == 1
MaxCost == Max(Costs)
Debt == Max({0, MaxCost - Capacity})

NewCall == [phase |-> "new", cost |-> None, sleep |-> 0, inTurn |-> 0,
            waited |-> 0, throttles |-> 0, failures |-> 0, tok |-> None,
            refused |-> None]
\* Answered or thrown.
Over == [NewCall EXCEPT !.phase = "over"]

TypeOK ==
    /\ \A c \in Callers :
         /\ call[c].phase \in {"new", "queued", "token", "sent", "backoff",
                               "over"}
         /\ call[c].cost \in Costs \cup {None}
         /\ call[c].throttles \in 0..MAX_THROTTLES
         /\ call[c].failures \in 0..RETRIES
         /\ {call[c].tok, call[c].refused} \subseteq 0..MaxTokens
         /\ {call[c].sleep, call[c].inTurn, call[c].waited} \subseteq Nat
    /\ ToSet(queue) = {c \in Callers : call[c].phase = "queued"}
    /\ Len(queue) = Cardinality(ToSet(queue))
    /\ pace.units \in -Debt..Capacity
    /\ {pace.since, pace.pause} \subseteq Nat
    /\ token.held \in 0..MaxTokens /\ token.good \subseteq 1..MaxTokens
    /\ asking \in BOOLEAN /\ faults \in 0..MaxFaults
    /\ bucket \in Int

Fault == faults < MaxFaults /\ faults' = faults + 1

(***************************************************************************)
(* The pacer.                                                              *)
(***************************************************************************)

\* Mutant: what comes isn't held to the burst.
Ready_All == pace.units + pace.since
Ready == Min({Capacity, pace.units + pace.since})

\* A cost above the burst is let through when the burst is full.
Need(cost) == Min({cost, Capacity})

\* Mutant: the budget alone says how long.
WaitFor_Units(cost) == Max({0, Need(cost) - Ready})
WaitFor(cost) == Max({0, Need(cost) - Ready, pace.pause})

\* Mutant: what was ready stays.
Emptied_Not(units) == units
Emptied(units) == Min({units, 0})

\* Graph said for how long: nothing is sent for that, and what was ready goes.
throttled(w) ==
    /\ pace' = [units |-> Emptied(pace.units), since |-> 0,
                pause |-> Max({pace.pause, w, SHORT_WAIT})]
    /\ bucket' = Min({bucket, 0})

Queued(c) == [c EXCEPT !.phase = "queued", !.sleep = 0, !.inTurn = 0]

Ask(c) ==
    /\ call[c].phase = "new"
    /\ \E cost \in Costs :
         call' = [call EXCEPT ![c] = [Queued(@) EXCEPT !.cost = cost]]
    /\ queue' = Append(queue, c)
    /\ UNCHANGED <<pace, token, asking, faults, bucket>>

(***************************************************************************)
(* The token.                                                              *)
(***************************************************************************)

\* With the token held, or what Entra answers to whoever asks by then.
Authorized(c) ==
    IF token'.held = None THEN [c EXCEPT !.phase = "token", !.tok = None]
    ELSE [c EXCEPT !.phase = "sent", !.tok = token'.held]

\* Mutant: whatever is held is dropped.
forget_Any(t) == [token EXCEPT !.held = None]
forget(t) == IF token.held = t THEN [token EXCEPT !.held = None] ELSE token

Issued == Max(token.good \cup {token.held} \cup {call[c].tok : c \in Callers}
                  \cup {call[c].refused : c \in Callers})

EntraAnswers ==
    /\ asking /\ Issued < MaxTokens
    /\ LET new == Issued + 1
       IN /\ token' = [held |-> new, good |-> token.good \cup {new}]
          /\ call' = [c \in Callers |->
                 IF call[c].phase = "token" THEN Authorized(call[c])
                 ELSE call[c]]
    /\ asking' = FALSE
    /\ UNCHANGED <<queue, pace, faults, bucket>>

\* Asked again a little later, if it may.
Failed(c) ==
    IF c.failures >= RETRIES THEN Over
    ELSE [c EXCEPT !.phase = "backoff", !.sleep = 2^c.failures,
                   !.failures = @ + 1, !.tok = None, !.refused = None]

\* Not reached, or it refuses the app, or asks to slow down.
EntraFails ==
    /\ asking /\ Fault
    /\ \E refuses \in BOOLEAN :
         call' = [c \in Callers |->
             CASE call[c].phase /= "token" -> call[c]
               [] refuses -> Over
               [] OTHER -> Failed(call[c])]
    /\ asking' = FALSE
    /\ UNCHANGED <<queue, pace, token, bucket>>

(***************************************************************************)
(* A request's turn.                                                       *)
(***************************************************************************)
MayLook(c) == queue /= <<>> /\ Head(queue) = c /\ call[c].sleep = 0

Left(c) == SelectSeq(queue, LAMBDA d : d /= c)

MayWait(c) == Max({0, maxWait - call[c].waited})

\* Mutant: each wait is looked at by itself.
TooLong_Each(c, wait) == wait > SHORT_WAIT /\ wait > MayWait(c)
TooLong(c, wait) ==
    wait > SHORT_WAIT /\ call[c].inTurn + wait > MayWait(c)

Waits(c, wait) ==
    /\ call' = [call EXCEPT ![c] =
           IF TooLong(c, wait) THEN Over
           ELSE [@ EXCEPT !.sleep = wait]]
    /\ queue' = IF TooLong(c, wait) THEN Left(c) ELSE queue
    /\ pace' = [pace EXCEPT !.units = Ready, !.since = 0]
    /\ UNCHANGED <<token, asking, bucket>>

Takes(c) ==
    /\ queue' = Left(c)
    /\ pace' = [pace EXCEPT !.units = Ready - call[c].cost, !.since = 0]
    /\ bucket' = bucket - call[c].cost
    /\ UNCHANGED token
    /\ call' = [call EXCEPT ![c] = Authorized(
           [@ EXCEPT !.waited = @ + call[c].inTurn, !.inTurn = 0])]
    /\ asking' = (asking \/ token.held = None)

\* Mutant: once it has slept, it goes.
Slept_Goes(c, wait) == IF call[c].inTurn > 0 THEN 0 ELSE wait
\* Counted again each time round: a throttle met by another meanwhile counts.
Slept(c, wait) == wait

Turn(c) ==
    /\ MayLook(c)
    /\ LET wait == Slept(c, WaitFor(call[c].cost))
       IN IF wait = 0 THEN Takes(c) ELSE Waits(c, wait)
    /\ UNCHANGED <<faults>>

(***************************************************************************)
(* Graph's answers.                                                        *)
(***************************************************************************)
Answered(c) ==
    /\ call[c].phase = "sent" /\ call[c].tok \in token.good
    /\ call' = [call EXCEPT ![c] = Over]
    /\ UNCHANGED <<queue, pace, token, asking, faults, bucket>>

\* Refused though Entra issued it: once more with another, and then no more.
Unauthorized(c) ==
    /\ call[c].phase = "sent" /\ call[c].tok \notin token.good
    /\ token' = forget(call[c].tok)
    /\ IF call[c].refused /= None
       THEN call' = [call EXCEPT ![c] = Over] /\ UNCHANGED asking
       ELSE /\ call' = [call EXCEPT ![c] =
                   Authorized([@ EXCEPT !.refused = call[c].tok])]
            /\ asking' = (asking \/ token'.held = None)
    /\ UNCHANGED <<queue, pace, faults, bucket>>

Throttled(c) ==
    /\ call[c].phase = "sent" /\ Fault
    /\ \E w \in Throttles :
         LET gives_up == \/ call[c].waited + w > maxWait
                         \/ call[c].throttles >= MAX_THROTTLES
         IN /\ throttled(w)
            /\ call' = [call EXCEPT ![c] =
                   IF gives_up THEN Over
                   ELSE [Queued(@) EXCEPT !.throttles = @ + 1, !.tok = None,
                                          !.refused = None]]
            /\ queue' = IF gives_up THEN queue ELSE Append(queue, c)
    /\ UNCHANGED <<token, asking>>

Busy(c) ==
    /\ call[c].phase = "sent" /\ Fault
    /\ call' = [call EXCEPT ![c] = Failed(@)]
    /\ UNCHANGED <<queue, pace, token, asking, bucket>>

Again(c) ==
    /\ call[c].phase = "backoff" /\ call[c].sleep = 0
    /\ call' = [call EXCEPT ![c] = Queued(@)]
    /\ queue' = Append(queue, c)
    /\ UNCHANGED <<pace, token, asking, faults, bucket>>

\* Mutant: the caller that leaves takes the request for a token with it.
StillAsking_Not(c) == asking /\ call[c].phase /= "token"
StillAsking(c) == asking

Abort(c) ==
    /\ call[c].phase \notin {"new", "over"} /\ Fault
    /\ call' = [call EXCEPT ![c] = Over]
    /\ queue' = Left(c)
    /\ asking' = StillAsking(c)
    /\ UNCHANGED <<pace, token, bucket>>

(***************************************************************************)
(* Meanwhile.                                                              *)
(***************************************************************************)

\* A download is throttled.
Elsewhere ==
    /\ Fault
    /\ \E w \in Throttles : throttled(w)
    /\ UNCHANGED <<call, queue, token, asking>>

\* Graph takes no token issued so far; or the one held is about to lapse.
Revoked ==
    /\ token.good /= {} /\ Fault
    /\ token' = [token EXCEPT !.good = {}]
    /\ UNCHANGED <<call, queue, pace, asking, bucket>>
Lapses ==
    /\ token.held /= None /\ Fault
    /\ token' = [token EXCEPT !.held = None]
    /\ UNCHANGED <<call, queue, pace, asking, bucket>>

Due(c) == MayLook(c) \/ (call[c].phase = "backoff" /\ call[c].sleep = 0)

Tick ==
    /\ \A c \in Callers : ~Due(c)
    /\ call' = [c \in Callers |->
           [call[c] EXCEPT
               !.sleep = Max({0, @ - 1}),
               !.inTurn = IF call[c].phase = "queued" THEN @ + 1 ELSE @]]
    /\ pace' = IF pace.pause > 0 THEN [pace EXCEPT !.pause = @ - 1]
               ELSE [pace EXCEPT
                        !.since = Min({@ + 1, Capacity + Debt + 1})]
    /\ bucket' = IF pace.pause > 0 THEN bucket
                 ELSE Min({Capacity, bucket + 1})
    /\ UNCHANGED <<queue, token, asking, faults>>

Init ==
    /\ call = [c \in Callers |-> NewCall] /\ queue = <<>>
    /\ pace = [units |-> Capacity, since |-> 0, pause |-> 0]
    /\ token \in [held : {None, 1}, good : {{1}}]
    /\ asking = FALSE /\ faults = 0 /\ bucket = Capacity

Next ==
    \/ EntraAnswers \/ EntraFails \/ Elsewhere \/ Revoked \/ Lapses \/ Tick
    \/ \E c \in Callers :
         \/ Ask(c) \/ Turn(c) \/ Answered(c) \/ Unauthorized(c)
         \/ Throttled(c) \/ Busy(c) \/ Again(c) \/ Abort(c)

Spec == Init /\ [][Next]_vars

(***************************************************************************)
(* What it is for.                                                         *)
(***************************************************************************)

\* Requests are sent as from a bucket that fills up to the burst, but for one
\* cost above it.
BudgetKept == bucket >= -Debt

\* Turns are given only when no throttle is in force, whoever met it.
NothingDuringAPause ==
    (\E c \in Callers : call[c].phase = "queued"
                            /\ call'[c].phase \in {"token", "sent"})
        => pace.pause = 0

\* A turn takes no longer than a request may wait, but for short waits: one for
\* the budget of each caller, and one for each throttle anyone met.
WaitsAreBounded ==
    \A c \in Callers :
        call[c].inTurn
            <= maxWait + SHORT_WAIT * (faults + Cardinality(Callers))

\* A token is dropped only if it lapsed or Graph refuses it.
KeptWhileGood ==
    (token'.held = None /\ token.held \in token.good) => faults' > faults

\* What Graph refused the app is tried again with another token.
RefusedTwice ==
    \A c \in Callers :
        call[c].phase = "sent" => call[c].tok /= call[c].refused

\* Whoever waits for a token has a request under way.
NoneLeftWaiting ==
    (\E c \in Callers : call[c].phase = "token") => asking

CallsKeepPace ==
    /\ NothingDuringAPause /\ KeptWhileGood
    /\ (BudgetKept /\ WaitsAreBounded /\ RefusedTwice /\ NoneLeftWaiting)'
=============================================================================
