------------------------------ MODULE Arrivals ------------------------------
(***************************************************************************)
(* What people hand to OpenHoard: uploads (apps/server uploads.ts) and mail *)
(* (mail-in.ts), recorded in a managed zone (core/catalog managed.ts,      *)
(* ingest.ts).                                                             *)
(*                                                                         *)
(* Recording a file is one transaction under its item's lock; an upload's  *)
(* body, a message's files, its audit and its mark in the mailbox are each *)
(* a step, with failures, stops of the server and other processes' runs    *)
(* between.  Ann uploads, by session or a client's token, and sends mail;  *)
(* Bob owns the mailbox.  Titles, types and places are left out.           *)
(***************************************************************************)
EXTENDS Naturals, FiniteSets

CONSTANTS
    Requests,        \* uploads that may be under way at once
    Pollers,         \* processes that read the mailbox
    NumMessages,
    NumParts,        \* files of a message; only the first can be trusted
    Listed,          \* the sender is in allowFrom: Bob may own what they send
    TriesMax,
    MaxFiles,        \* bounds: files, uploads begun, failures and stops of the
    MaxUploads,      \* server, changes of people, grants and zones
    MaxFaults,
    MaxChanges

VARIABLES
    member,          \* who is an active member
    granted,         \* the client's grant is live
    zone,
    files,           \* the n-th object made for a key, its owner and content
    box,             \* messages: seen, flagged; and what the audit says of them
    upload,
    run,             \* each process's run
    tries,           \* each process's count of failures
    bounds

vars == <<member, granted, zone, files, box, upload, run, tries, bounds>>

Messages == 1..NumMessages
Parts    == [m \in Messages |-> IF m > 1 THEN 0 ELSE NumParts]
MailKey(m, part) == <<"mail", m, part>>
\* A file by its content, and a page by its address, with what it holds.
Uploads  == {[key |-> <<"file", "c1">>, content |-> "c1"],
             [key |-> <<"page", "url">>, content |-> "c1"],
             [key |-> <<"page", "url">>, content |-> "c2"]}

Resting  == [pc |-> "idle", by |-> "none", key |-> <<>>, content |-> "none"]
Asleep   == [pc |-> "idle", msg |-> 0, part |-> 0, todo |-> {}]

Init ==
    /\ member = [u \in {"ann", "bob"} |-> TRUE]
    /\ granted = TRUE /\ zone = "none"
    /\ files = {}
    /\ box = [m \in Messages |-> [seen |-> FALSE, flagged |-> FALSE,
                                  allow |-> FALSE, deny |-> FALSE]]
    /\ upload = [q \in Requests |-> Resting]
    /\ run = [p \in Pollers |-> Asleep]
    /\ tries = [p \in Pollers |-> [m \in Messages |-> 0]]
    /\ bounds = [uploads |-> 0, faults |-> 0, changes |-> 0]

Counted(what, max) ==
    bounds[what] < max /\ bounds' = [bounds EXCEPT ![what] = @ + 1]

-----------------------------------------------------------------------------
(* Recording.                                                              *)

Of(key) == {f \in files : f.key = key}

\* The zone's name, free or a managed zone's (ensureZone()).
ZoneIsOurs == zone # "indexed"

\* Mutant: what is known of an item isn't looked up under its lock.
Ingested_Anew(key, owner, content) ==
    files \cup {[key |-> key, n |-> Cardinality(Of(key)), owner |-> owner,
                 content |-> content]}

\* ingest(): the item's object, with a new version if the content is new; or
\* another item's, where the object is someone else's (ingestManaged()).
Ingested(key, owner, content) ==
    LET known == {f \in Of(key) : f.n = 0 /\ f.owner = owner} IN
    IF known # {} THEN (files \ known) \cup
                       {[f EXCEPT !.content = content] : f \in known}
    ELSE files \cup {[key |-> key, n |-> Cardinality(Of(key)), owner |-> owner,
                      content |-> content]}

ingestManaged(key, owner, content) ==
    /\ ZoneIsOurs /\ zone' = "managed"
    /\ files' = Ingested(key, owner, content)
    /\ Cardinality(files') <= MaxFiles

-----------------------------------------------------------------------------
(* Uploads.                                                                *)

Uploaded(q, x) == upload' = [upload EXCEPT ![q] = x]

\* Let in, and nothing seen yet that would refuse it afterwards.
Arrive(q) ==
    /\ upload[q].pc = "idle"
    /\ Counted("uploads", MaxUploads)
    /\ member["ann"] /\ ZoneIsOurs
    /\ \E by \in {"session", "token"}, x \in Uploads :
          /\ by = "token" => granted
          /\ Uploaded(q, [pc |-> "body", by |-> by, key |-> x.key,
                          content |-> x.content])
    /\ UNCHANGED <<member, granted, zone, files, box, run, tries>>

\* Mutant: a member still; the token was looked at as the body began.
StillAllowed_Member(q) == member["ann"]

\* Looked at again in the transaction that records it.
StillAllowed(q) == member["ann"] /\ (upload[q].by = "token" => granted)

Record(q) ==
    /\ upload[q].pc = "body"
    /\ StillAllowed(q)
    /\ ingestManaged(upload[q].key, "ann", upload[q].content)
    /\ Uploaded(q, Resting)
    /\ UNCHANGED <<member, granted, box, run, tries, bounds>>

Refuse(q) ==
    /\ upload[q].pc = "body"
    /\ ~StillAllowed(q) \/ ~ZoneIsOurs
    /\ Uploaded(q, Resting)
    /\ UNCHANGED <<member, granted, zone, files, box, run, tries, bounds>>

\* The body stops arriving, or a database error stands after its retries.
Interrupted(q) ==
    /\ upload[q].pc = "body"
    /\ Counted("faults", MaxFaults)
    /\ Uploaded(q, Resting)
    /\ UNCHANGED <<member, granted, zone, files, box, run, tries>>

-----------------------------------------------------------------------------
(* Mail.                                                                   *)

Readable(m) == Parts[m] > 0
Runs(p, x)  == run' = [run EXCEPT ![p] = x]

\* The next of the run's messages, the oldest; one that somebody marked since
\* it was listed is there still.  No more of them: the run is over.
Onward(p, x) ==
    Runs(p, IF x.todo = {} THEN Asleep
            ELSE LET m == CHOOSE i \in x.todo : \A j \in x.todo : i <= j IN
                 [pc |-> "look", msg |-> m, part |-> 0, todo |-> x.todo \ {m}])

\* One run at a time in a process; only what is there is remembered as failing.
Turn(p) ==
    /\ run[p].pc = "idle"
    /\ LET unread == {m \in Messages : ~box[m].seen} IN
       /\ unread # {}
       /\ Onward(p, [Asleep EXCEPT !.todo = unread])
       /\ tries' = [tries EXCEPT ![p] = [m \in Messages |->
                      IF m \in unread THEN @[m] ELSE 0]]
    /\ UNCHANGED <<member, granted, zone, files, box, upload, bounds>>

\* Whose the sender's files are now, or why nobody's.
ownerOf == IF member["ann"] THEN "ann"
           ELSE IF Listed /\ member["bob"] THEN "bob" ELSE "nobody"

\* Audited as denied; the message is marked next.
Denied(p) ==
    /\ run[p].pc \in {"look", "files"}
    /\ LET m == run[p].msg IN
       /\ run[p].pc = "files" => run[p].part <= Parts[m]
       /\ \/ ownerOf = "nobody"
          \/ run[p].pc = "look" /\ (~Readable(m) \/ tries[p][m] >= TriesMax)
          \/ run[p].pc = "files" /\ ~ZoneIsOurs
       /\ box' = [box EXCEPT ![m].deny = TRUE]
    /\ Runs(p, [run[p] EXCEPT !.pc = "refused"])
    /\ UNCHANGED <<member, granted, zone, files, upload, tries, bounds>>

Begin(p) ==
    /\ run[p].pc = "look"
    /\ Readable(run[p].msg) /\ tries[p][run[p].msg] < TriesMax
    /\ ownerOf # "nobody"
    /\ Runs(p, [run[p] EXCEPT !.pc = "files", !.part = 1])
    /\ UNCHANGED <<member, granted, zone, files, box, upload, tries, bounds>>

\* A file of the message, named by its bytes, for whom it is now.
RecordFile(p) ==
    /\ run[p].pc = "files" /\ run[p].part <= Parts[run[p].msg]
    /\ ownerOf # "nobody"
    /\ ingestManaged(MailKey(run[p].msg, run[p].part), ownerOf, "c1")
    /\ Runs(p, [run[p] EXCEPT !.part = @ + 1])
    /\ UNCHANGED <<member, granted, box, upload, tries, bounds>>

\* Audited as taken, once all its files are there.
\* Mutant: as the first of them is.
Whole_First(p) == run[p].part > 1
Whole(p) == run[p].part > Parts[run[p].msg]

Taken(p) ==
    /\ run[p].pc = "files" /\ Whole(p)
    /\ box' = [box EXCEPT ![run[p].msg].allow = TRUE]
    /\ Runs(p, [run[p] EXCEPT !.pc = "taken"])
    /\ UNCHANGED <<member, granted, zone, files, upload, tries, bounds>>

\* Marked read, and flagged where it was refused.
Mark(p) ==
    /\ run[p].pc \in {"taken", "refused"}
    /\ box' = [box EXCEPT ![run[p].msg].seen = TRUE,
                          ![run[p].msg].flagged = @ \/ run[p].pc = "refused"]
    /\ tries' = [tries EXCEPT ![p][run[p].msg] = 0]
    /\ Onward(p, run[p])
    /\ UNCHANGED <<member, granted, zone, files, upload, bounds>>

\* The database or the store fails: it is left unread, and the run goes on.
Deferred(p) ==
    /\ run[p].pc \in {"look", "files"} /\ tries[p][run[p].msg] < TriesMax
    /\ Counted("faults", MaxFaults)
    /\ tries' = [tries EXCEPT ![p][run[p].msg] = @ + 1]
    /\ Onward(p, run[p])
    /\ UNCHANGED <<member, granted, zone, files, box, upload>>

\* The mailbox fails, and the run ends; or the server does, and forgets.
Dropped(p) ==
    /\ run[p].pc # "idle"
    /\ Counted("faults", MaxFaults)
    /\ Runs(p, Asleep)
    /\ tries' \in {tries, [tries EXCEPT ![p] = [m \in Messages |-> 0]]}
    /\ UNCHANGED <<member, granted, zone, files, box, upload>>

-----------------------------------------------------------------------------
(* The rest of the server.                                                 *)

Change ==
    /\ Counted("changes", MaxChanges)
    /\ \/ /\ \E u \in {"ann", "bob"} : member' = [member EXCEPT ![u] = ~@]
          /\ UNCHANGED <<granted, zone>>
       \/ granted' = FALSE /\ granted /\ UNCHANGED <<member, zone>>
       \/ zone = "none" /\ zone' = "indexed" /\ UNCHANGED <<member, granted>>
    /\ UNCHANGED <<files, box, upload, run, tries>>

Next ==
    \/ \E q \in Requests : Arrive(q) \/ Record(q) \/ Refuse(q) \/ Interrupted(q)
    \/ \E p \in Pollers : \/ Turn(p) \/ Denied(p) \/ Begin(p) \/ RecordFile(p)
                          \/ Taken(p) \/ Mark(p) \/ Deferred(p) \/ Dropped(p)
    \/ Change

Spec == Init /\ [][Next]_vars

-----------------------------------------------------------------------------
(* Properties.                                                             *)

\* The state has its types.
TypeOK ==
    /\ member \in [{"ann", "bob"} -> BOOLEAN] /\ granted \in BOOLEAN
    /\ zone \in {"none", "managed", "indexed"}
    /\ \A f \in files : f.owner \in {"ann", "bob"} /\ f.n \in 0..MaxFiles
    /\ \A p \in Pollers : run[p].msg \in 0..NumMessages
                          /\ run[p].todo \subseteq Messages
    /\ \A q \in Requests : upload[q].pc \in {"idle", "body"}

\* However often it is sent, read or retried, and by however many at once, a
\* file is one; a second for the same person only where the first is another's
\* (mail-in.ts: the same files, not twins).
OneFileEach == \A f, g \in files :
    f.key = g.key /\ f.owner = g.owner /\ f # g =>
        \E h \in files : h.key = f.key /\ h.n = 0 /\ h.owner # f.owner

\* No message is lost: one that is read has all its files and was audited as
\* taken, or is flagged and was audited as refused, whatever failed between.
MailIsHandled == \A m \in Messages :
    /\ box[m].seen => box[m].allow \/ box[m].deny
    /\ box[m].seen /\ ~box[m].flagged => box[m].allow
    /\ box[m].allow => \A n \in 1..Parts[m] : Of(MailKey(m, n)) # {}

ArrivesOnce == OneFileEach /\ MailIsHandled

\* Whatever ends while a body arrives or a message is read, nothing is recorded
\* for someone who is no member by then, nor by a client whose grant has ended
\* (uploads.ts: still allowed now, not only when the body began to arrive).
MayReceive(f) == member[f.owner]
ByGrant == \A q \in Requests :
    upload[q].by = "token" /\ upload'[q] # upload[q] /\ files' # files => granted
WhileAllowed == (\A f \in files' \ files : MayReceive(f)) /\ ByGrant
OnlyWhileAllowed == [][WhileAllowed]_vars
=============================================================================
