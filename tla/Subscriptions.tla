----------------------------- MODULE Subscriptions -----------------------------
(***************************************************************************)
(* A source's subscriptions to Graph's change notifications: one for each  *)
(* library of its site, made, renewed and removed by keep() and remembered *)
(* in a file (connectors/sharepoint subscriptions.ts), which the server    *)
(* calls again when it says (apps/server notifications.ts).                *)
(*                                                                         *)
(* A tick is some hours: no keep() takes one.  Graph's check of the        *)
(* address, the clientState and the notifications themselves are left out: *)
(* a lost one costs only the wait for the schedule (FolderWatch).          *)
(***************************************************************************)
EXTENDS Integers, SequencesExt

CONSTANTS
    Libraries,
    LIFETIME, RENEW_BEFORE, MAX_WAIT, MIN_WAIT, RETRY,   \* in ticks
    MaxIds,       \* BOUND: subscriptions at once
    MaxEvents     \* BOUND: stops, libraries that come or go, and what is lost

VARIABLES
    there,     \* the site's libraries
    subs,      \* Graph's: a subscription's id, and how long it lives
    file,      \* subscriptions.json: each library's, whether it was made for
               \* another address, and which of it a keep() has removed
    run,       \* keep(), or the wait for it
    age,       \* since a keep() that succeeded
    failed,    \* keep() failed, or the server was down, since then
    events,
    lost       \* a crash, an answer or a removal lost

vars == <<there, subs, file, run, age, failed, events, lost>>

Ids == 1..MaxIds
Kept == [id : Ids, left : 0..LIFETIME]
\* What a file or a keep() holds: some libraries' subscriptions.
IsBook(book) == DOMAIN book \subseteq Libraries /\ Range(book) \subseteq Kept
NoBook == [l \in {} |-> 0]

Waiting(w) == [phase |-> "waits", wait |-> w, had |-> NoBook, drop |-> {},
               drives |-> {}, done |-> NoBook]
Down == [Waiting(0) EXCEPT !.phase = "down"]

TypeOK ==
    /\ there \subseteq Libraries
    /\ DOMAIN subs \subseteq Ids /\ Range(subs) \subseteq 1..LIFETIME
    /\ IsBook(file.subs) /\ file.other \in BOOLEAN
    /\ file.gone \subseteq Ids
    /\ run.phase \in {"waits", "keeps", "down"}
    /\ run.wait \in 0..(MAX_WAIT + RETRY)
    /\ IsBook(run.had) /\ IsBook(run.done)
    /\ run.drop \subseteq Ids /\ run.drives \subseteq Libraries
    /\ age \in 0..(RENEW_BEFORE + 1) /\ failed \in 0..2
    /\ events \in 0..MaxEvents /\ lost \in BOOLEAN

IdsOf(book) == {book[l].id : l \in DOMAIN book}

\* Some id Graph gives; none that anyone remembers.
New == Min(Ids \ (DOMAIN subs \cup IdsOf(file.subs) \cup IdsOf(run.done)))

Event == events < MaxEvents /\ events' = events + 1
Slip == Event /\ lost' = TRUE

(***************************************************************************)
(* keep().                                                                 *)
(***************************************************************************)

\* Mutant: a library that went is forgotten.
Gone_Kept(had) == {}
Gone(had) == {had[l].id : l \in DOMAIN had \ there}

\* Mutant: renewed when it has lapsed.
LongEnough_Any(kept) == kept.left > 0
LongEnough(kept) == kept.left > RENEW_BEFORE

\* The file is read, and the site's libraries: what goes is of libraries gone
\* or made for another address, what is renewed has little left.
Wake ==
    /\ run.phase = "waits" /\ run.wait = 0
    /\ LET had == IF file.other THEN NoBook ELSE file.subs
           fresh == {l \in DOMAIN had \cap there : LongEnough(had[l])}
       IN run' = [phase |-> "keeps", wait |-> 0, had |-> had,
                  drop |-> IF file.other THEN IdsOf(file.subs) ELSE Gone(had),
                  drives |-> there, done |-> Restrict(had, fresh)]
    /\ UNCHANGED <<there, subs, file, age, failed, events, lost>>

Fails == failed' = Min({failed + 1, 2})

ListFails ==
    /\ run.phase = "waits" /\ run.wait = 0 /\ Fails /\ failed < 2
    /\ run' = Waiting(RETRY)
    /\ UNCHANGED <<there, subs, file, age, events, lost>>

\* Whatever a removal comes to, the next follows; what wasn't removed lapses.
RemoveOne ==
    /\ run.phase = "keeps" /\ run.drop /= {}
    /\ \E id \in run.drop :
         /\ run' = [run EXCEPT !.drop = @ \ {id}]
         /\ \/ /\ subs' = Restrict(subs, DOMAIN subs \ {id})
               /\ file' = [file EXCEPT !.gone = @ \cup {id}]
               /\ UNCHANGED <<events, lost>>
            \/ id \in DOMAIN subs /\ Slip /\ UNCHANGED <<subs, file>>
    /\ UNCHANGED <<there, age, failed>>

\* What went is removed first.
Todo == IF run.drop = {} THEN run.drives \ DOMAIN run.done ELSE {}

\* Mutant: what is there is made anew.
Renewable_Not(l) == FALSE
\* Graph may have forgotten it.
Renewable(l) == l \in DOMAIN run.had /\ run.had[l].id \in DOMAIN subs

\* Renewed, or made.
Renews(l) ==
    /\ run.phase = "keeps" /\ l \in Todo
    /\ LET id == IF Renewable(l) THEN run.had[l].id ELSE New
       IN /\ subs' = (id :> LIFETIME) @@ subs
          /\ run' = [run EXCEPT
                 !.done = (l :> [id |-> id, left |-> LIFETIME]) @@ @]
    /\ UNCHANGED <<there, file, age, failed, events, lost>>

\* Mutant: what was made before another failed isn't written.
Written_Had(run_) == run_.had
\* What was made, and of the libraries not come to what was had.
Written(run_) ==
    run_.done @@ Restrict(run_.had, DOMAIN run_.had \cap run_.drives)

Write(book) == file' = [subs |-> book, other |-> FALSE,
                        gone |-> file.gone \cap IdsOf(book)]

\* Mutant: called again when the first of them lapses.
WaitFor_Lapse(left) == Max({MIN_WAIT, left})
WaitFor(left) == Min({MAX_WAIT, Max({MIN_WAIT, left - RENEW_BEFORE})})

Done ==
    /\ run.phase = "keeps" /\ run.drop = {} /\ Todo = {}
    /\ Write(Written(run))
    /\ run' = Waiting(IF run.done = NoBook THEN MAX_WAIT
                      ELSE WaitFor(Min({run.done[l].left :
                                            l \in DOMAIN run.done})))
    /\ age' = 0 /\ failed' = 0
    /\ UNCHANGED <<there, subs, events, lost>>

\* Not reached, or refused; or it was reached and the answer is lost.
KeepFails(l) ==
    /\ run.phase = "keeps" /\ l \in Todo /\ failed < 2
    /\ \/ UNCHANGED <<subs, events, lost>>
       \/ ~Renewable(l) /\ Slip /\ subs' = (New :> LIFETIME) @@ subs
       \/ Renewable(l) /\ subs' = [subs EXCEPT ![run.had[l].id] = LIFETIME]
          /\ UNCHANGED <<events, lost>>
    /\ Write(Written(run))
    /\ run' = Waiting(RETRY) /\ Fails
    /\ UNCHANGED <<there, age>>

(***************************************************************************)
(* The server, and time.                                                   *)
(***************************************************************************)

\* Stopped: a keep() under way is cut off, and writes what it made if it had
\* come to that.
Stop ==
    /\ run /= Down /\ Event /\ UNCHANGED lost
    /\ IF run.phase = "keeps" /\ run.drop = {}
       THEN Write(Written(run)) ELSE UNCHANGED file
    /\ run' = Down
    /\ UNCHANGED <<there, subs, age, failed>>

Crash ==
    /\ run /= Down /\ Slip /\ run' = Down
    /\ UNCHANGED <<there, subs, file, age, failed>>

\* Perhaps at another address.
Start ==
    /\ run = Down /\ run' = Waiting(0)
    /\ \/ UNCHANGED file
       \/ file' = [file EXCEPT !.other = TRUE]
    /\ UNCHANGED <<there, subs, age, failed, events, lost>>

LibrariesChange ==
    /\ Event /\ UNCHANGED lost
    /\ \E l \in Libraries :
         there' = IF l \in there THEN there \ {l} ELSE there \cup {l}
    /\ UNCHANGED <<subs, file, run, age, failed>>

Shorter(book) == [l \in DOMAIN book |->
                     [book[l] EXCEPT !.left = Max({0, @ - 1})]]

Tick ==
    /\ run = Down \/ (run.phase = "waits" /\ run.wait > 0)
    /\ subs' = [i \in {j \in DOMAIN subs : subs[j] > 1} |-> subs[i] - 1]
    /\ file' = [file EXCEPT !.subs = Shorter(@)]
    /\ run' = [run EXCEPT !.wait = Max({0, @ - 1})]
    /\ age' = Min({age + 1, RENEW_BEFORE + 1})
    /\ failed' = IF run = Down THEN 2 ELSE failed
    /\ UNCHANGED <<there, events, lost>>

Init ==
    /\ there = Libraries
    /\ subs = [i \in {} |-> 0]
    /\ file = [subs |-> NoBook, other |-> FALSE, gone |-> {}]
    /\ run = Waiting(0) /\ age = 0 /\ failed = 0 /\ events = 0 /\ lost = FALSE

Next ==
    \/ Wake \/ ListFails \/ RemoveOne \/ Done
    \/ Stop \/ Crash \/ Start \/ LibrariesChange \/ Tick
    \/ \E l \in Libraries : Renews(l) \/ KeepFails(l)

Spec == Init /\ [][Next]_vars

(***************************************************************************)
(* What it is for.                                                         *)
(***************************************************************************)

\* Unless something was lost, every subscription Graph has is remembered.
NonePileUp ==
    ~lost => DOMAIN subs \subseteq IdsOf(file.subs) \cup IdsOf(run.done)
                                          \cup run.drop \cup IdsOf(run.had)

\* What a keep() remembers lives until it has had time to be called again
\* and again, whatever failed since.
NoneLapses ==
    age <= RENEW_BEFORE =>
        \A l \in DOMAIN file.subs :
            file.subs[l].id \in DOMAIN subs \cup file.gone

\* And it is called again, failing once at most, before that.
CalledInTime == failed < 2 => age <= MAX_WAIT + RETRY

AllAreTold == NonePileUp /\ NoneLapses /\ CalledInTime
=============================================================================
