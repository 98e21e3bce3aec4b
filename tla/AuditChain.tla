----------------------------- MODULE AuditChain -----------------------------
(***************************************************************************)
(* A tenant's audit chain (core/audit store.ts, chain.ts): transactions    *)
(* that append under its advisory lock, and the readers that walk it page  *)
(* by page, each page a transaction of its own (pages.ts): the check of    *)
(* the chain, the audited export and the newest events (view.ts).          *)
(*                                                                         *)
(* An event is what it says; a hash is everything said up to it, so hashes *)
(* agree only where their histories do.  Someone with the database may     *)
(* alter a row or take out one that isn't the newest.                      *)
(***************************************************************************)
EXTENDS Naturals, Sequences, FiniteSetsExt, SequencesExt

CONSTANTS
    Writers,
    PageSize,
    MaxEvents,       \* bounds: events, and rows altered or taken out
    MaxDamage

VARIABLES
    rows,            \* audit.events
    truth,           \* what was ever appended, in order
    damaged,         \* the seqs of rows somebody altered or took out
    writer,
    reader

vars == <<rows, truth, damaged, writer, reader>>

Genesis == <<>>
NoHead  == [seq |-> 0, hash |-> Genesis]
Top     == IF rows = {} THEN NoHead
           ELSE LET r == CHOOSE x \in rows : \A y \in rows : y.seq <= x.seq IN
                [seq |-> r.seq, hash |-> r.hash]

\* appendEvent(): the event that follows a head.
Linked(head, what) ==
    [seq |-> head.seq + 1, what |-> what, prev |-> head.hash,
     hash |-> Append(head.hash, what)]

Resting == [pc |-> "idle", level |-> "none", head |-> NoHead]
Unread  == [pc |-> "idle", kind |-> "none", end |-> 0, at |-> 0, out |-> <<>>,
            count |-> 0, hash |-> Genesis, was |-> {}, whole |-> FALSE,
            told |-> FALSE]

Init ==
    /\ rows = {} /\ truth = <<>> /\ damaged = {}
    /\ writer = [w \in Writers |-> Resting]
    /\ reader = Unread

-----------------------------------------------------------------------------
(* Appending.                                                              *)

Writes(w, x) == writer' = [writer EXCEPT ![w] = x]
Act    == <<"act">>
Room   == Len(truth) < MaxEvents

\* A transaction that will append last; a serializable one reads as of now.
Begin(w) ==
    /\ writer[w].pc = "idle" /\ Room
    /\ \E level \in {"read committed", "serializable"} :
          Writes(w, [pc |-> "acting", level |-> level, head |-> Top])
    /\ UNCHANGED <<rows, truth, damaged, reader>>

\* Mutant: nothing is waited for.
LockIsFree_Never == TRUE

\* pg_advisory_xact_lock(): held until the transaction ends.
LockIsFree == \A w \in Writers : writer[w].pc \notin {"locked", "headed"}

Lock(w) ==
    /\ writer[w].pc = "acting" /\ LockIsFree
    /\ Writes(w, [writer[w] EXCEPT !.pc = "locked"])
    /\ UNCHANGED <<rows, truth, damaged, reader>>

\* Mutant: what was read before the lock is used after it.
HeadFor_Begun(w) == writer[w].head

\* The head as the transaction sees it: a statement of its own, after the lock.
HeadFor(w) == IF writer[w].level = "serializable" THEN writer[w].head ELSE Top

ReadHead(w) ==
    /\ writer[w].pc = "locked"
    /\ Writes(w, [writer[w] EXCEPT !.pc = "headed", !.head = HeadFor(w)])
    /\ UNCHANGED <<rows, truth, damaged, reader>>

\* Its seq is taken or, as check_link() sees it, it isn't the next link.
Extends(w) == writer[w].head = Top

Inserted(what, head) ==
    /\ rows' = rows \cup {Linked(head, what)}
    /\ truth' = Append(truth, what)

Insert(w) ==
    /\ writer[w].pc = "headed" /\ Room
    /\ Extends(w)
    /\ Inserted(Act, writer[w].head)
    /\ Writes(w, Resting)
    /\ UNCHANGED <<damaged, reader>>

\* A serializable transaction is told to run again, anything else that it failed.
Conflict(w) ==
    /\ writer[w].pc = "headed" /\ ~Extends(w)
    /\ Writes(w, IF writer[w].level = "serializable" THEN Resting
                 ELSE [writer[w] EXCEPT !.pc = "failed"])
    /\ UNCHANGED <<rows, truth, damaged, reader>>

\* Whatever it did fails, or its server does.
RollBack(w) ==
    /\ writer[w].pc \in {"acting", "locked", "headed"}
    /\ Writes(w, Resting)
    /\ UNCHANGED <<rows, truth, damaged, reader>>

Damage ==
    /\ Cardinality(damaged) < MaxDamage
    /\ \E r \in rows :
          /\ \/ rows' = (rows \ {r}) \cup {[r EXCEPT !.what = <<"altered">>]}
             \/ r.seq < Top.seq /\ rows' = rows \ {r}
          /\ damaged' = damaged \cup {r.seq}
    /\ UNCHANGED <<truth, writer, reader>>

-----------------------------------------------------------------------------
(* Reading.                                                                *)

Reads(x) == reader' = x /\ UNCHANGED <<rows, truth, damaged, writer>>
Acts(set) == {r \in set : r.what = Act}

\* chainEnd(), for what is walked up to it; the newest events have no end.
Start ==
    /\ reader.pc = "idle"
    /\ \E kind \in {"verify", "file", "api", "list"} :
          Reads([Unread EXCEPT !.pc = "walking", !.kind = kind, !.was = damaged,
                               !.end = Top.seq,
                               !.at = IF kind = "list" THEN Top.seq + 1 ELSE 0])

\* Mutant: to the end of the chain as it grows.
Ahead_Endless == {r \in rows : r.seq > reader.at}

\* The rows a walk has before it: those past where it is, up to its end.
Ahead == {r \in rows : r.seq > reader.at /\ r.seq <= reader.end}

\* Up to PageSize rows with the least seqs.
PageOf(set) ==
    LET all == SetToSortSeq(set, LAMBDA x, y : x.seq < y.seq)
    IN  SubSeq(all, 1, IF Len(all) < PageSize THEN Len(all) ELSE PageSize)

\* Over once the end or a short page is reached.
IsLast(page) == Len(page) < PageSize \/ page[Len(page)].seq >= reader.end

\* Mutant: the hash of an event is taken as it is stored.
Checks_Stored(row, seq, prev) == row.seq = seq /\ row.prev = prev

\* ChainVerifier.push(): next in order, linked to the last, and as hashed.
Checks(row, seq, prev) ==
    row.seq = seq /\ row.prev = prev /\ row.hash = Append(row.prev, row.what)

Checked(page) == {n \in 1..Len(page) : \A m \in 1..n :
    Checks(page[m], reader.count + m,
           IF m = 1 THEN reader.hash ELSE page[m - 1].hash)}

\* verifyAudit(): a page, up to its first problem.
VerifyPage ==
    /\ reader.pc = "walking" /\ reader.kind = "verify"
    /\ LET page == PageOf(Ahead)
           n    == Cardinality(Checked(page)) IN
       Reads([reader EXCEPT
           !.count = @ + n,
           !.hash  = IF n = 0 THEN @ ELSE page[n].hash,
           !.at    = IF page = <<>> THEN @ ELSE page[Len(page)].seq,
           !.pc    = IF n < Len(page) THEN "failed"
                     ELSE IF page = <<>> \/ IsLast(page) THEN "ok" ELSE "walking"])

SeqsOf(page) == [n \in 1..Len(page) |-> page[n].seq]

\* exportAudit(): a page of the events asked for goes to the sink.
ExportPage ==
    /\ reader.pc = "walking" /\ reader.kind \in {"file", "api"}
    /\ LET page == PageOf(Acts(Ahead)) IN
       Reads([reader EXCEPT
           !.out = @ \o SeqsOf(page),
           !.at  = IF page = <<>> THEN @ ELSE page[Len(page)].seq,
           !.pc  = IF page = <<>> \/ IsLast(page) THEN "out" ELSE "walking"])

\* Only its reader's going stops it; what got out is said to have.
SinkFails ==
    /\ reader.pc = "walking" /\ reader.kind \in {"file", "api"}
    /\ \E n \in 0..Len(reader.out) :
          Reads([reader EXCEPT !.pc = "cut", !.out = SubSeq(@, 1, n)])

\* Mutant: what is left goes out before the record for the API too.
HandedBefore_Always(kind) == TRUE

\* A file is closed before the record; the API keeps its last bytes back.
HandedBefore(kind) == kind = "file"

Finish ==
    /\ reader.pc = "out"
    /\ Reads([reader EXCEPT !.pc = "whole", !.whole = HandedBefore(reader.kind)])

Export(n, cut) == <<"export", n, cut>>

\* The record of an export: a transaction of its own.
RecordExport ==
    /\ reader.pc \in {"whole", "cut"} /\ LockIsFree
    /\ Inserted(Export(Len(reader.out), reader.pc = "cut"), Top)
    /\ reader' = [reader EXCEPT !.pc = IF @ = "cut" THEN "over" ELSE "recorded"]
    /\ UNCHANGED <<damaged, writer>>

\* It can't be recorded: the file is removed, the answer cut short, and the one
\* who took it told, or its server's log.
RecordFails ==
    /\ reader.pc \in {"whole", "cut"}
    /\ Reads([reader EXCEPT
           !.pc = "over", !.told = TRUE,
           !.whole = @ /\ reader.kind = "api"])

\* The last bytes, unless its reader has gone.
HandOver ==
    /\ reader.pc = "recorded"
    /\ \E arrives \in BOOLEAN :
          Reads([reader EXCEPT !.pc = "over", !.whole = @ \/ arrives])

\* listAudit(): the newest below the last page's oldest.
ListPage ==
    /\ reader.pc = "walking" /\ reader.kind = "list"
    /\ LET below == Acts({r \in rows : r.seq < reader.at})
           page  == SubSeq(SetToSortSeq(below, LAMBDA x, y : x.seq > y.seq), 1,
                           IF Cardinality(below) < PageSize
                           THEN Cardinality(below) ELSE PageSize) IN
       Reads([reader EXCEPT
           !.out = @ \o SeqsOf(page),
           !.at  = IF page = <<>> THEN @ ELSE page[Len(page)].seq,
           !.pc  = IF Cardinality(below) > PageSize THEN "walking" ELSE "listed"])

Next ==
    \/ \E w \in Writers : \/ Begin(w) \/ Lock(w) \/ ReadHead(w) \/ Insert(w)
                          \/ Conflict(w) \/ RollBack(w)
    \/ Damage \/ Start \/ VerifyPage \/ ExportPage \/ SinkFails \/ Finish
    \/ RecordExport \/ RecordFails \/ HandOver \/ ListPage

Spec == Init /\ [][Next]_vars

-----------------------------------------------------------------------------
(* Properties.                                                             *)

\* The state has its types.
TypeOK ==
    /\ \A r \in rows : /\ r.seq \in 1..(MaxEvents + 1)
                       /\ r.what[1] \in {"act", "export", "altered"}
    /\ damaged \subseteq 1..(MaxEvents + 1)
    /\ \A w \in Writers : writer[w].pc \in
          {"idle", "acting", "locked", "headed", "failed"}
    /\ reader.end \in 0..(MaxEvents + 1) /\ reader.whole \in BOOLEAN

\* Whatever appends at once, the chain is one line, each event linked to all
\* that was appended before it; and no append that reads committed state ever
\* fails for another (store.ts: the chain never forks).
NeverForks ==
    /\ \A r \in rows :
          /\ r.prev = SubSeq(truth, 1, r.seq - 1)
          /\ r.seq \notin damaged => r.what = truth[r.seq]
    /\ \A s \in 1..Len(truth) : s \notin damaged => \E r \in rows : r.seq = s
    /\ \A w \in Writers : writer[w].pc # "failed"

\* The check of a chain that goes on growing: it says ok only of the chain as
\* appended, and of all of it there was; damage there was when it began is
\* found, and what isn't damaged is never said to be.
VerifyIsRight ==
    /\ reader.pc \in {"ok", "failed"} =>
          reader.hash = SubSeq(truth, 1, reader.count)
    /\ reader.pc = "ok" =>
          reader.was = {} /\ (damaged = {} => reader.count = reader.end)
    /\ reader.pc = "failed" => damaged # {}

ActsUpTo(n) == {s \in 1..n : truth[s] = Act}

\* A walk gives each event there was once and in order, and none that came
\* after, its own record among them.
WalksAreExact ==
    damaged = {} =>
    /\ reader.pc \in {"out", "whole", "recorded"} =>
          reader.out = SetToSortSeq(ActsUpTo(reader.end), <)
    /\ reader.pc = "listed" =>
          reader.out = SetToSortSeq(ActsUpTo(reader.end), >)

\* Nobody keeps a whole export the log doesn't show with its number of events;
\* of one that was cut, the log shows what got out, or somebody was told.
ExportsShow ==
    reader.pc = "over" =>
    /\ reader.whole => \E n \in DOMAIN truth :
          truth[n] = Export(Len(reader.out), FALSE)
    /\ ~reader.told => \E n \in DOMAIN truth, cut \in BOOLEAN :
          truth[n] = Export(Len(reader.out), cut)

ReadersAreExact == VerifyIsRight /\ WalksAreExact /\ ExportsShow
=============================================================================
