---------------------------- MODULE ClientLookup ----------------------------
(***************************************************************************)
(* ClientResolver (oauth/clients.ts): which client a client_id names.  One *)
(* that registered is in its client_id; another's document is fetched, by  *)
(* one request while others await the same, kept for a while if it is the  *)
(* client's, and remembered as failing if it isn't.  A person has few      *)
(* fetches under way, the server not many.                                 *)
(***************************************************************************)
EXTENDS Naturals, Sequences, FiniteSets

CONSTANTS
    Clients,            \* client_ids that are URLs of documents
    Calls,              \* resolve() calls under way at once
    Requesters,         \* who asks
    MAX_IN_FLIGHT,
    MAX_IN_FLIGHT_EACH,
    CACHE_ENTRIES,
    MaxChanges          \* BOUND: changes of the documents

VARIABLES
    doc,          \* [Clients -> what its URL serves]
    cache,        \* the entries, in order of insertion
    failed,       \* [client, fresh]: fetches that failed
    inFlight,     \* clients whose document is being fetched
    perRequester, \* [Requesters -> fetches counted as theirs]
    call,         \* [Calls -> a resolve() call under way]
    fetched,      \* [Clients -> how its last fetch ended]
    changes

vars == <<doc, cache, failed, inFlight, perRequester, call, fetched, changes>>

\* What a URL serves: one of the client's own documents, another's, nothing.
Own == {"one", "two"}
Docs == Own \cup {"another's", "nothing"}

Entries == [client : Clients, doc : Own, fresh : BOOLEAN]
Failures == [client : Clients, fresh : BOOLEAN]

CallsMade == [at : {"idle", "fetching", "awaiting"}, by : Requesters,
              client : Clients]
Idle == [at |-> "idle", by |-> CHOOSE r \in Requesters : TRUE,
         client |-> CHOOSE c \in Clients : TRUE]

TypeOK ==
    /\ doc \in [Clients -> Docs]
    /\ \A i \in DOMAIN cache : cache[i] \in Entries
    /\ failed \subseteq Failures
    /\ inFlight \subseteq Clients
    /\ perRequester \in [Requesters -> Nat]
    /\ \A x \in Calls : call[x] \in CallsMade
    /\ fetched \in [Clients -> {"never", "well", "failed"}]
    /\ changes \in 0..MaxChanges

CountOf(r) == perRequester[r]

Cached(c) ==
    \E i \in DOMAIN cache : cache[i].client = c /\ cache[i].fresh

HasFailed(c) == [client |-> c, fresh |-> TRUE] \in failed

\* Mutant: whether it is being fetched already isn't asked.
Running_Not(c) == FALSE

Running(c) == c \in inFlight

\* Mutant: a requester's fetches aren't bounded.
TooMany_All(r) == Cardinality(inFlight) >= MAX_IN_FLIGHT

TooMany(r) ==
    \/ Cardinality(inFlight) >= MAX_IN_FLIGHT
    \/ CountOf(r) >= MAX_IN_FLIGHT_EACH

\* Mutant: being too busy is remembered as the client's failure.
Busy_Kept(c) == failed' = failed \cup {[client |-> c, fresh |-> TRUE]}

Busy(c) == UNCHANGED failed

\* resolve(): up to its first await, nothing comes between.  What is kept of
\* the client, its document or its failure, is the answer.
Resolve(x) ==
    /\ call[x].at = "idle"
    /\ \E r \in Requesters, c \in Clients :
         /\ ~Cached(c) /\ ~HasFailed(c)
         /\ LET Go(at) == call' = [call EXCEPT ![x] =
                              [at |-> at, by |-> r, client |-> c]]
            IN \/ /\ Running(c)
                  /\ Go("awaiting")
                  /\ UNCHANGED <<inFlight, perRequester, failed>>
               \/ /\ ~Running(c) /\ TooMany(r)
                  /\ Busy(c)
                  /\ UNCHANGED <<inFlight, perRequester, call>>
               \/ /\ ~Running(c) /\ ~TooMany(r)
                  /\ Go("fetching")
                  /\ inFlight' = inFlight \cup {c}
                  /\ perRequester' = [perRequester EXCEPT ![r] = @ + 1]
                  /\ UNCHANGED failed
    /\ UNCHANGED <<doc, cache, fetched, changes>>

\* Mutant: a document is the client's whatever it names.
IsTheirs_Any(d) == d /= "nothing"

\* It names this client_id, and is that of a public client.
IsTheirs(d) == d \in Own

\* Mutant: entries are added however many there are.
Stored_Unbounded(e) == Append(cache, e)

\* At the limit the oldest entry goes first; one of the same client is
\* replaced where it is.
Stored(e) ==
    LET kept == IF Len(cache) >= CACHE_ENTRIES /\ cache /= << >>
                THEN Tail(cache) ELSE cache
        at == {i \in DOMAIN kept : kept[i].client = e.client}
    IN IF at = {} THEN Append(kept, e)
       ELSE [i \in DOMAIN kept |-> IF i \in at THEN e ELSE kept[i]]

\* At the limit, all failures are forgotten.
Remembered(c) ==
    LET kept == IF Cardinality(failed) >= CACHE_ENTRIES THEN {}
                ELSE {f \in failed : f.client /= c}
    IN kept \cup {[client |-> c, fresh |-> TRUE]}

\* Mutant: the count is given back only for a fetch that went well.
GivenBack_Well(r, well) == IF well THEN CountOf(r) - 1 ELSE CountOf(r)

\* The finally: however the fetch ended.
GivenBack(r, well) == CountOf(r) - 1

Awaits(y, c) == call[y].at = "awaiting" /\ call[y].client = c

\* The document is here, or isn't within FETCH_TIMEOUT_MS: all who await it
\* are answered alike.  ttl: whether it may be kept at all.
Fetched(x) ==
    LET c == call[x].client
        d == doc[c]
        well == IsTheirs(d)
    IN /\ call[x].at = "fetching"
       /\ IF well
          THEN /\ \E ttl \in BOOLEAN :
                    cache' = Stored([client |-> c, doc |-> d, fresh |-> ttl])
               /\ UNCHANGED failed
          ELSE /\ failed' = Remembered(c)
               /\ UNCHANGED cache
       /\ call' = [y \in Calls |->
              IF y = x \/ Awaits(y, c) THEN Idle ELSE call[y]]
       /\ inFlight' = inFlight \ {c}
       /\ perRequester' =
              [perRequester EXCEPT ![call[x].by] = GivenBack(call[x].by, well)]
       /\ fetched' = [fetched EXCEPT ![c] = IF well THEN "well" ELSE "failed"]
       /\ UNCHANGED <<doc, changes>>

\* Entries reach their time (max-age, at most CACHE_MAX_S; FAILURE_CACHE_MS).
Ages ==
    \/ /\ \E i \in DOMAIN cache :
            cache[i].fresh /\ cache' = [cache EXCEPT ![i].fresh = FALSE]
       /\ UNCHANGED <<doc, failed, inFlight, perRequester, call, fetched,
                      changes>>
    \/ /\ \E f \in failed :
            /\ f.fresh
            /\ failed' = (failed \ {f}) \cup {[f EXCEPT !.fresh = FALSE]}
       /\ UNCHANGED <<doc, cache, inFlight, perRequester, call, fetched,
                      changes>>

DocumentChanges ==
    /\ changes < MaxChanges /\ changes' = changes + 1
    /\ \E c \in Clients, d \in Docs : doc' = [doc EXCEPT ![c] = d]
    /\ UNCHANGED <<cache, failed, inFlight, perRequester, call, fetched>>

Init ==
    /\ doc \in [Clients -> {"one", "another's"}]
    /\ cache = << >> /\ failed = {} /\ inFlight = {}
    /\ perRequester = [r \in Requesters |-> 0]
    /\ call = [x \in Calls |-> Idle]
    /\ fetched = [c \in Clients |-> "never"]
    /\ changes = 0

Next ==
    \/ \E x \in Calls : Resolve(x) \/ Fetched(x)
    \/ Ages \/ DocumentChanges

Spec == Init /\ [][Next]_vars

(***************************************************************************)
(* What it is for.                                                         *)
(***************************************************************************)
Fetching(c) == {x \in Calls : call[x].at = "fetching" /\ call[x].client = c}

\* One fetch of a client at a time, whoever asks, and nobody awaits one that
\* is over.
OneFetchEach ==
    \A c \in Clients :
        /\ Cardinality(Fetching(c)) = IF c \in inFlight THEN 1 ELSE 0
        /\ (\E x \in Calls : Awaits(x, c)) => c \in inFlight

\* The counts are those of the fetches under way, so that nobody stays shut
\* out by what is over, and nobody has more than their share.
CountsComeBack ==
    /\ Cardinality(inFlight) <= MAX_IN_FLIGHT
    /\ \A r \in Requesters :
         /\ CountOf(r) = Cardinality({x \in Calls :
                             call[x].at = "fetching" /\ call[x].by = r})
         /\ CountOf(r) <= MAX_IN_FLIGHT_EACH

\* What is still remembered of a client, that it failed or its document, is how
\* its last fetch ended, and never both; neither memory grows without end.
MemoryIsTrue ==
    /\ \A f \in failed : f.fresh => fetched[f.client] = "failed"
    /\ \A i \in DOMAIN cache :
         /\ cache[i].doc \in Own
         /\ cache[i].fresh => fetched[cache[i].client] = "well"
    /\ \A i, j \in DOMAIN cache : cache[i].client = cache[j].client => i = j
    /\ Len(cache) <= CACHE_ENTRIES /\ Cardinality(failed) <= CACHE_ENTRIES

LookupsAreFair == OneFetchEach /\ CountsComeBack /\ MemoryIsTrue
=============================================================================
