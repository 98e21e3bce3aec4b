-------------------------- MODULE OneServiceProofs --------------------------
(***************************************************************************)
(* Theorems about the parts of OneService: the answers kept of principals  *)
(* (PrincipalCache) for every number of people, requests and entries, and  *)
(* every lifetime of an entry; the door of the SCIM endpoint (ScimDoor)    *)
(* for every number of requests, of addresses and of failures allowed;     *)
(* setting a server up (SetUp) for every number of commands and of faults; *)
(* and the clients of the OAuth endpoint, by who lets them in              *)
(* (ClientApproval), by the documents fetched of them (ClientLookup), and  *)
(* by what the browser extension keeps (BrowserClient), for every number   *)
(* of people, calls, saves, grants and tokens.                             *)
(***************************************************************************)
EXTENDS OneService, Integers, FiniteSetTheorems, TLAPS,
        WellFoundedInduction, SequenceTheorems

-----------------------------------------------------------------------------
(* The answers kept of principals.                                          *)

Claims     == {"grant", "group", "active"} \X Nat
Dbs        == [epoch : Nat, stopped : SUBSET Users, members : SUBSET Users,
               group : Nat, ends : [Users -> Nat]]
EntryRows  == [user : Users, epoch : Nat \ {0}, until : Nat,
               holds : SUBSET Claims]
ReaderRows == [pc : {"idle", "begun", "missed", "answered"},
               kind : {"none", "snapshot", "writing", "committed"},
               user : Users \cup {0}, view : Dbs \cup {{}}, moment : Nat,
               seen : EntryRows \cup {NoEntry}, answer : SUBSET Claims]

-----------------------------------------------------------------------------
(* Operators.                                                               *)

LEMMA CountedAreEnds ==
    ASSUME NEW d \in Dbs, NEW u \in Users, NEW at \in Nat
    PROVE  /\ Counted(d, u, at) \subseteq Nat
           /\ resolveWithExpiry(d, u, at) \in SUBSET Claims
  <1>1. d.ends[u] \in Nat /\ d.group \in Nat  BY DEF Dbs
  <1>2. Counted(d, u, at) \subseteq Nat  BY <1>1 DEF Counted
  <1> QED  BY <1>2 DEF resolveWithExpiry, Claims

\* What lapses between two moments is all that is different then.
LEMMA Lapses ==
    ASSUME NEW d \in Dbs, NEW u \in Users, NEW m \in Nat, NEW n \in Nat,
           m <= n
    PROVE  /\ resolveWithExpiry(d, u, n) \subseteq resolveWithExpiry(d, u, m)
           /\ (\A t \in Counted(d, u, m) : n < t)
                => resolveWithExpiry(d, u, m) = resolveWithExpiry(d, u, n)
  <1>1. d.ends[u] \in Nat /\ d.group \in Nat  BY DEF Dbs
  <1>2. Counted(d, u, n) \subseteq Counted(d, u, m)  BY <1>1 DEF Counted
  <1>3. ASSUME \A t \in Counted(d, u, m) : n < t
        PROVE  Counted(d, u, m) = Counted(d, u, n)
    BY <1>1, <1>2, <1>3 DEF Counted
  <1> QED  BY <1>2, <1>3 DEF resolveWithExpiry

LEMMA LeastExists ==
    ASSUME NEW S \in SUBSET Nat, S # {}
    PROVE  \E t \in S : \A s \in S : t <= s
  <1>1. IsWellFoundedOn(OpToRel(<, Nat), Nat)
    BY NatLessThanWellFounded
  <1>2. PICK t \in S : \A s \in S : ~(<<s, t>> \in OpToRel(<, Nat))
    BY <1>1, WFMin, Zenon
  <1>3. \A s \in S : s \in Nat /\ (~(s < t) => t <= s)
    OBVIOUS
  <1>4. \A s \in S : ~(s < t)
    BY <1>2 DEF OpToRel
  <1> QED  BY <1>3, <1>4

LEMMA ValidUntilIsLeast ==
    ASSUME NEW x \in ReaderRows, NEW d \in Dbs, x.user \in Users
    PROVE  /\ ValidUntil(x, d) \in Nat
           /\ \A t \in Counted(d, x.user, x.moment) : ValidUntil(x, d) <= t
  <1> DEFINE ends == Counted(d, x.user, x.moment) \cup {x.moment + Ttl}
  <1>1. x.moment \in Nat /\ Ttl \in Nat
    BY CacheAssumption DEF ReaderRows
  <1>2. ends \in SUBSET Nat /\ ends # {}
    BY <1>1, CountedAreEnds
  <1>3. \E t \in ends : \A s \in ends : t <= s  BY <1>2, LeastExists
  <1> HIDE DEF ends
  <1>4. ValidUntil(x, d) = CHOOSE t \in ends : \A s \in ends : t <= s
    BY DEF ValidUntil, ends
  <1>5. ValidUntil(x, d) \in ends /\ \A s \in ends : ValidUntil(x, d) <= s
    BY <1>3, <1>4
  <1> QED  BY <1>2, <1>5 DEF ends

-----------------------------------------------------------------------------
(* The entries.  What is in Without(u) was in entries, is of another person *)
(* and as often there.                                                      *)

OneOfEach(es) == \A i, j \in DOMAIN es : i # j => es[i].user # es[j].user

LEMMA WithoutKeepsOthers ==
    ASSUME NEW u \in Users, entries \in Seq(EntryRows), OneOfEach(entries)
    PROVE  /\ Without(u) \in Seq(EntryRows) /\ OneOfEach(Without(u))
           /\ \A i \in DOMAIN Without(u) :
                 /\ Without(u)[i].user # u
                 /\ \E j \in DOMAIN entries : Without(u)[i] = entries[j]
           /\ Len(Without(u)) <= Len(entries)
           /\ Kept(u) => Len(Without(u)) + 1 = Len(entries)
  <1> DEFINE w == Without(u)
             n == Len(entries)
  <1>1. CASE ~Kept(u)
    BY <1>1 DEF Without, Kept
  <1>2. CASE Kept(u)
    <2> DEFINE k == At(u)
    <2>1. k \in 1..n /\ entries[k].user = u
      BY <1>2 DEF Kept, At
    <2> HIDE DEF k
    <2>2. w = SubSeq(entries, 1, k - 1) \o SubSeq(entries, k + 1, n)
      BY <1>2 DEF Without, RemoveAt, k
    <2>3. n \in Nat
      OBVIOUS
    <2>4. /\ SubSeq(entries, 1, k - 1) \in Seq(EntryRows)
          /\ Len(SubSeq(entries, 1, k - 1)) = k - 1
          /\ \A i \in 1..(k - 1) : SubSeq(entries, 1, k - 1)[i] = entries[i]
      BY <2>1, <2>3
    <2>5. /\ SubSeq(entries, k + 1, n) \in Seq(EntryRows)
          /\ Len(SubSeq(entries, k + 1, n)) = n - k
          /\ \A i \in 1..(n - k) :
                SubSeq(entries, k + 1, n)[i] = entries[k + i]
      BY <2>1, <2>3
    <2>6. /\ w \in Seq(EntryRows) /\ Len(w) = n - 1
          /\ \A i \in 1..(n - 1) :
                w[i] = entries[IF i < k THEN i ELSE i + 1]
      <3> DEFINE a == SubSeq(entries, 1, k - 1)
                 b == SubSeq(entries, k + 1, n)
      <3>1. /\ a \in Seq(EntryRows) /\ Len(a) = k - 1
            /\ b \in Seq(EntryRows) /\ Len(b) = n - k
            /\ k \in 1..n /\ n \in Nat /\ w = a \o b
        BY <2>1, <2>2, <2>3, <2>4, <2>5
      <3>2. /\ \A i \in 1..(k - 1) : a[i] = entries[i]
            /\ \A i \in 1..(n - k) : b[i] = entries[k + i]
        BY <2>4, <2>5
      <3> HIDE DEF a, b, w
      <3>3. /\ a \o b \in Seq(EntryRows) /\ Len(a \o b) = Len(a) + Len(b)
            /\ \A i \in 1..(Len(a) + Len(b)) :
                  (a \o b)[i] = IF i <= Len(a) THEN a[i] ELSE b[i - Len(a)]
        BY <3>1, ConcatProperties
      <3>4. Len(a) + Len(b) = n - 1
        BY <3>1
      <3>5. ASSUME NEW i \in 1..(n - 1)
            PROVE  w[i] = entries[IF i < k THEN i ELSE i + 1]
        <4>1. CASE i < k
          <5>1. i \in 1..(k - 1) /\ i <= Len(a) /\ i \in 1..(Len(a) + Len(b))
            BY <3>1, <4>1
          <5> QED
            BY <3>1, <3>2, <3>3, <4>1, <5>1
        <4>2. CASE ~(i < k)
          <5>1. /\ i - Len(a) \in 1..(n - k) /\ k + (i - Len(a)) = i + 1
                /\ ~(i <= Len(a)) /\ i \in 1..(Len(a) + Len(b))
            BY <3>1, <4>2
          <5>2. b[i - Len(a)] = entries[i + 1]
            BY <3>2, <5>1
          <5> QED
            BY <3>1, <3>3, <4>2, <5>1, <5>2
        <4> QED
          BY <4>1, <4>2
      <3> QED
        BY <3>1, <3>3, <3>4, <3>5
    <2> HIDE DEF w
    <2>7. \A i \in 1..(n - 1) :
             \E j \in 1..n : j # k /\ w[i] = entries[j]
                             /\ j = IF i < k THEN i ELSE i + 1
      BY <2>1, <2>3, <2>6
    <2>8. DOMAIN w = 1..(n - 1) /\ DOMAIN entries = 1..n
      BY <2>3, <2>6
    <2>9. \A i \in DOMAIN w :
             w[i].user # u /\ \E j \in DOMAIN entries : w[i] = entries[j]
      BY <2>1, <2>7, <2>8 DEF OneOfEach
    <2>10. OneOfEach(w)
      <3> SUFFICES ASSUME NEW i \in 1..(n - 1), NEW j \in 1..(n - 1), i # j
                   PROVE  w[i].user # w[j].user
        BY <2>8 DEF OneOfEach
      <3>1. PICK a \in 1..n : w[i] = entries[a]
                              /\ a = IF i < k THEN i ELSE i + 1
        BY <2>7
      <3>2. PICK b \in 1..n : w[j] = entries[b]
                              /\ b = IF j < k THEN j ELSE j + 1
        BY <2>7
      <3>3. a # b
        BY <2>1, <2>3, <3>1, <3>2
      <3> QED
        BY <2>8, <3>1, <3>2, <3>3 DEF OneOfEach
    <2> QED
      BY <2>3, <2>6, <2>9, <2>10 DEF w
  <1> QED
    BY <1>1, <1>2

\* An entry goes last, and the first goes if there are too many.
LEMMA PutLast ==
    ASSUME NEW es \in Seq(EntryRows), OneOfEach(es), Len(es) <= MaxEntries,
           NEW e \in EntryRows, \A i \in DOMAIN es : es[i].user # e.user
    PROVE  /\ Append(es, e) \in Seq(EntryRows) /\ OneOfEach(Append(es, e))
           /\ Len(Append(es, e)) = Len(es) + 1
           /\ \A i \in DOMAIN Append(es, e) :
                 \/ Append(es, e)[i] = e
                 \/ \E j \in DOMAIN es : Append(es, e)[i] = es[j]
           /\ Recent(Append(es, e)) \in Seq(EntryRows)
           /\ OneOfEach(Recent(Append(es, e)))
           /\ Len(Recent(Append(es, e))) <= MaxEntries
           /\ \A i \in DOMAIN Recent(Append(es, e)) :
                 \/ Recent(Append(es, e))[i] = e
                 \/ \E j \in DOMAIN es : Recent(Append(es, e))[i] = es[j]
  <1> DEFINE a == Append(es, e)
             n == Len(es)
  <1>1. n \in Nat /\ MaxEntries \in Nat \ {0}
    BY CacheAssumption
  <1>2. /\ a \in Seq(EntryRows) /\ Len(a) = n + 1
        /\ \A i \in 1..n : a[i] = es[i]
        /\ a[n + 1] = e
    OBVIOUS
  <1> HIDE DEF a
  <1>3. DOMAIN a = 1..(n + 1) /\ DOMAIN es = 1..n
    BY <1>1, <1>2
  <1>4. OneOfEach(a)
    BY <1>1, <1>2, <1>3 DEF OneOfEach
  <1>5. \A i \in DOMAIN a : a[i] = e \/ \E j \in DOMAIN es : a[i] = es[j]
    BY <1>1, <1>2, <1>3
  <1>6. CASE Len(a) > MaxEntries
    <2>1. Recent(a) = Tail(a)
      BY <1>6 DEF Recent
    <2>2. /\ Tail(a) \in Seq(EntryRows) /\ Len(Tail(a)) = n
          /\ \A i \in 1..n : Tail(a)[i] = a[i + 1]
      BY <1>1, <1>2
    <2>3. DOMAIN Tail(a) = 1..n
      BY <1>1, <2>2
    <2>4. OneOfEach(Tail(a))
      BY <1>1, <1>3, <1>4, <2>2, <2>3 DEF OneOfEach
    <2>5. \A i \in DOMAIN Tail(a) :
             Tail(a)[i] = e \/ \E j \in DOMAIN es : Tail(a)[i] = es[j]
      BY <1>1, <1>3, <1>5, <2>2, <2>3
    <2> QED
      BY <1>2, <1>4, <1>5, <2>1, <2>2, <2>4, <2>5 DEF a
  <1>7. CASE ~(Len(a) > MaxEntries)
    <2>1. Recent(a) = a
      BY <1>7 DEF Recent
    <2>2. Len(a) <= MaxEntries
      BY <1>1, <1>2, <1>7
    <2> QED
      BY <1>2, <1>4, <1>5, <2>1, <2>2 DEF a
  <1> QED
    BY <1>6, <1>7

-----------------------------------------------------------------------------
(* The invariant.                                                           *)

Snapshot(x) == x.pc # "idle" /\ x.kind = "snapshot"

Typing ==
    /\ rows \in Dbs /\ rows.epoch <= changes + 1
    /\ now \in 0..MaxNow /\ changes \in 0..MaxChanges
    /\ entries \in Seq(EntryRows) /\ Len(entries) <= MaxEntries
    /\ OneOfEach(entries)
    /\ reader \in [Readers -> ReaderRows]
    /\ \A r \in Readers : reader[r].pc # "idle" =>
          reader[r].user \in Users /\ reader[r].view \in Dbs

\* An epoch is of one state of the rows, and the rows' is the latest.
OneEpoch ==
    /\ \A r \in Readers : Snapshot(reader[r]) =>
          /\ reader[r].view.epoch <= rows.epoch
          /\ reader[r].view.epoch = rows.epoch => reader[r].view = rows
    /\ \A r, q \in Readers :
          Snapshot(reader[r]) /\ Snapshot(reader[q]) =>
             (reader[r].view.epoch = reader[q].view.epoch
                => reader[r].view = reader[q].view)

\* An entry is what a state of the rows gave at some moment until now, and it
\* ends before anything lapses that it counts.
Gives(d, e, m) ==
    /\ e.holds = resolveWithExpiry(d, e.user, m)
    /\ \A t \in Counted(d, e.user, m) : e.until <= t
Sound(d, e, at) == d.epoch = e.epoch => \E m \in 0..at : Gives(d, e, m)

\* Whatever state has its epoch.
EntriesSound ==
    \A i \in DOMAIN entries :
        /\ entries[i].epoch <= rows.epoch
        /\ Sound(rows, entries[i], now)
        /\ \A r \in Readers : Snapshot(reader[r]) =>
              Sound(reader[r].view, entries[i], now)

ReadersExact ==
    \A r \in Readers :
        /\ reader[r].pc = "missed" => /\ Cacheable(reader[r])
                                      /\ reader[r].moment <= now
        /\ reader[r].pc = "answered" /\ reader[r].kind = "snapshot" =>
              /\ reader[r].moment <= now
              /\ reader[r].answer = resolveWithExpiry(reader[r].view,
                                       reader[r].user, reader[r].moment)

CacheInv == Typing /\ OneEpoch /\ EntriesSound /\ ReadersExact

-----------------------------------------------------------------------------
LEMMA Initially == Init => CacheInv
  <1> SUFFICES ASSUME Init PROVE CacheInv
    OBVIOUS
  <1>1. rows \in Dbs /\ rows.epoch = 0
    BY DEF Init, Dbs
  <1>2. now \in 0..MaxNow /\ changes \in 0..MaxChanges /\ MaxEntries \in Nat
    BY CacheAssumption DEF Init
  <1>3. /\ entries = <<>> /\ DOMAIN entries = {} /\ Len(entries) = 0
        /\ entries \in Seq(EntryRows)
    BY DEF Init
  <1>4. reader \in [Readers -> ReaderRows]
        /\ \A r \in Readers : reader[r].pc = "idle"
    BY DEF Init, Idle, ReaderRows
  <1>5. Typing
    BY <1>1, <1>2, <1>3, <1>4 DEF Typing, OneOfEach, Init
  <1>6. OneEpoch /\ ReadersExact
    BY <1>4 DEF OneEpoch, ReadersExact, Snapshot
  <1>7. EntriesSound
    BY <1>3 DEF EntriesSound
  <1> QED
    BY <1>5, <1>6, <1>7 DEF CacheInv

\* What a transaction does to the rows.
LEMMA ChangesAreTyped ==
    ASSUME Typing, NEW d \in Changed
    PROVE  /\ d \in Dbs /\ d.epoch = rows.epoch
           /\ Bumped(d) \in Dbs /\ Bumped(d).epoch > rows.epoch
           /\ Bumped(d).epoch <= changes + 2
  <1>1. /\ rows \in Dbs /\ rows.epoch \in Nat /\ changes \in Nat
        /\ rows.epoch <= changes + 1 /\ now \in Nat /\ MaxNow \in Nat
    BY CacheAssumption DEF Typing, Dbs
  <1>2. d \in Dbs /\ d.epoch = rows.epoch
    <2>1. CASE \E u \in Users :
             d = [rows EXCEPT !.members = (@ \cup {u}) \ (@ \cap {u})]
      BY <1>1, <2>1 DEF Dbs
    <2>2. CASE \E u \in Users :
             d = [rows EXCEPT !.stopped = (@ \cup {u}) \ (@ \cap {u})]
      BY <1>1, <2>2 DEF Dbs
    <2>3. CASE \E u \in Users, e \in {0, Never} \cup (now + 1)..MaxNow :
             d = [rows EXCEPT !.ends[u] = e]
      <3>1. PICK u \in Users, e \in {0, Never} \cup (now + 1)..MaxNow :
               d = [rows EXCEPT !.ends[u] = e]
        BY <2>3
      <3>2. e \in Nat
        BY <1>1 DEF Never
      <3> QED
        BY <1>1, <3>1, <3>2 DEF Dbs
    <2> QED
      BY <2>1, <2>2, <2>3 DEF Changed
  <1>3. Locked(d) \in Dbs /\ Locked(d).epoch = (IF d.epoch = 0 THEN 1
                                                ELSE d.epoch)
    BY <1>2 DEF Locked, Dbs
  <1>4. Bumped(d) \in Dbs /\ Bumped(d).epoch = Locked(d).epoch + 1
    BY <1>3 DEF Bumped, Dbs
  <1> QED
    BY <1>1, <1>2, <1>3, <1>4

LEMMA ChangeKeeps == CacheInv /\ Change => CacheInv'
  <1> SUFFICES ASSUME CacheInv, Change PROVE CacheInv'
    OBVIOUS
  <1>1. PICK d \in Changed : rows' = Bumped(d)
    BY DEF Change
  <1>2. /\ rows' \in Dbs /\ rows'.epoch > rows.epoch
        /\ rows'.epoch <= changes + 2 /\ changes \in Nat
        /\ rows.epoch \in Nat /\ rows'.epoch \in Nat
    BY <1>1, ChangesAreTyped DEF CacheInv, Typing, Dbs
  <1>3. /\ changes' = changes + 1 /\ changes' \in 0..MaxChanges
        /\ UNCHANGED <<now, entries, reader>>
    BY CacheAssumption DEF Change, CacheInv, Typing
  <1>4. Typing'
    BY <1>2, <1>3 DEF CacheInv, Typing
  <1>5. OneEpoch'
    <2>1. ASSUME NEW r \in Readers, Snapshot(reader[r])
          PROVE  reader[r].view.epoch < rows'.epoch
      <3>1. reader[r].view \in Dbs /\ reader[r].view.epoch <= rows.epoch
        BY <2>1 DEF CacheInv, Typing, OneEpoch, Snapshot
      <3> QED
        BY <1>2, <3>1 DEF Dbs
    <2>2. ASSUME NEW r \in Readers, Snapshot(reader[r])
          PROVE  reader[r].view.epoch <= rows'.epoch
                 /\ reader[r].view.epoch # rows'.epoch
      <3>1. reader[r].view.epoch \in Nat
        BY <2>2 DEF CacheInv, Typing, Snapshot, Dbs
      <3> QED
        BY <1>2, <2>1, <2>2, <3>1
    <2> QED
      BY <1>3, <2>2 DEF CacheInv, OneEpoch
  <1>6. EntriesSound'
    <2>1. ASSUME NEW i \in DOMAIN entries
          PROVE  entries[i].epoch <= rows'.epoch
                 /\ rows'.epoch # entries[i].epoch
      <3>1. entries[i] \in EntryRows
        BY <2>1 DEF CacheInv, Typing
      <3>2. entries[i].epoch \in Nat /\ entries[i].epoch <= rows.epoch
        BY <2>1, <3>1 DEF CacheInv, EntriesSound, EntryRows
      <3> QED
        BY <1>2, <3>2
    <2> QED
      BY <1>3, <2>1 DEF CacheInv, EntriesSound, Sound
  <1>7. ReadersExact'
    BY <1>3 DEF CacheInv, ReadersExact
  <1> QED
    BY <1>4, <1>5, <1>6, <1>7 DEF CacheInv

LEMMA TickKeeps == CacheInv /\ Tick => CacheInv'
  <1> SUFFICES ASSUME CacheInv, Tick PROVE CacheInv'
    OBVIOUS
  <1>1. /\ now \in Nat /\ now' = now + 1 /\ now' \in 0..MaxNow
        /\ UNCHANGED <<rows, entries, reader, changes>>
    BY CacheAssumption DEF Tick, CacheInv, Typing
  <1>2. Typing' /\ OneEpoch'
    BY <1>1 DEF CacheInv, Typing, OneEpoch
  <1>3. ASSUME NEW d, NEW e, Sound(d, e, now) PROVE Sound(d, e, now')
    <2>1. 0..now \subseteq 0..now'
      BY <1>1
    <2> QED
      BY <1>3, <2>1 DEF Sound
  <1>4. EntriesSound'
    BY <1>1, <1>3 DEF CacheInv, EntriesSound
  <1>5. ASSUME NEW r \in Readers, reader[r].moment <= now
        PROVE  reader[r].moment <= now'
    <2>1. reader[r].moment \in Nat
      BY DEF CacheInv, Typing, ReaderRows
    <2> QED
      BY <1>1, <1>5, <2>1
  <1>6. ReadersExact'
    BY <1>1, <1>5 DEF CacheInv, ReadersExact
  <1> QED
    BY <1>2, <1>4, <1>6 DEF CacheInv

LEMMA clearKeeps == CacheInv /\ clear => CacheInv'
  <1> SUFFICES ASSUME CacheInv, clear PROVE CacheInv'
    OBVIOUS
  <1>1. /\ entries' = <<>> /\ DOMAIN entries' = {} /\ Len(entries') = 0
        /\ entries' \in Seq(EntryRows) /\ MaxEntries \in Nat
        /\ UNCHANGED <<rows, now, reader, changes>>
    BY CacheAssumption DEF clear
  <1> QED
    BY <1>1
    DEF CacheInv, Typing, OneOfEach, OneEpoch, EntriesSound, ReadersExact
-----------------------------------------------------------------------------
(* A reader's step.                                                         *)

\* A reader sees the rows as they are, or goes on seeing what it saw.
Sees(r, y) ==
    Snapshot(y) => \/ y.view = rows
                   \/ Snapshot(reader[r]) /\ y.view = reader[r].view

LEMMA ReaderGoesOn ==
    ASSUME CacheInv, NEW r \in Readers, NEW y \in ReaderRows, Sees(r, y),
           y.pc # "idle" => y.user \in Users /\ y.view \in Dbs,
           reader' = [reader EXCEPT ![r] = y], UNCHANGED <<rows, now>>
    PROVE  /\ reader' \in [Readers -> ReaderRows]
           /\ \A q \in Readers : reader'[q].pc # "idle" =>
                 reader'[q].user \in Users /\ reader'[q].view \in Dbs
           /\ OneEpoch'
           /\ \A e : /\ Sound(rows, e, now)
                     /\ \A q \in Readers : Snapshot(reader[q]) =>
                           Sound(reader[q].view, e, now)
                 => /\ Sound(rows', e, now')
                    /\ \A q \in Readers : Snapshot(reader'[q]) =>
                          Sound(reader'[q].view, e, now')
  <1>1. /\ reader \in [Readers -> ReaderRows] /\ reader'[r] = y
        /\ \A q \in Readers : q # r => reader'[q] = reader[q]
    BY DEF CacheInv, Typing
  <1>2. /\ reader' \in [Readers -> ReaderRows]
        /\ \A q \in Readers : reader'[q].pc # "idle" =>
              reader'[q].user \in Users /\ reader'[q].view \in Dbs
    BY <1>1 DEF CacheInv, Typing
  <1>3. rows.epoch <= rows.epoch
    BY DEF CacheInv, Typing, Dbs
  <1>4. \A q \in Readers : Snapshot(reader'[q]) =>
           \/ reader'[q].view = rows
           \/ \E p \in Readers : Snapshot(reader[p])
                                 /\ reader'[q].view = reader[p].view
    BY <1>1 DEF Sees
  <1>5. OneEpoch'
    <2>1. ASSUME NEW q \in Readers, Snapshot(reader'[q])
          PROVE  /\ reader'[q].view.epoch <= rows.epoch
                 /\ reader'[q].view.epoch = rows.epoch
                       => reader'[q].view = rows
      BY <1>3, <1>4, <2>1 DEF CacheInv, OneEpoch
    <2>2. ASSUME NEW q \in Readers, NEW p \in Readers,
                 Snapshot(reader'[q]), Snapshot(reader'[p]),
                 reader'[q].view.epoch = reader'[p].view.epoch
          PROVE  reader'[q].view = reader'[p].view
      <3>1. CASE reader'[q].view = rows
        BY <2>1, <2>2, <3>1
      <3>2. CASE reader'[p].view = rows
        BY <2>1, <2>2, <3>2
      <3>3. CASE reader'[q].view # rows /\ reader'[p].view # rows
        <4>1. PICK a \in Readers : Snapshot(reader[a])
                                   /\ reader'[q].view = reader[a].view
          BY <1>4, <2>2, <3>3
        <4>2. PICK b \in Readers : Snapshot(reader[b])
                                   /\ reader'[p].view = reader[b].view
          BY <1>4, <2>2, <3>3
        <4> QED
          BY <2>2, <4>1, <4>2 DEF CacheInv, OneEpoch
      <3> QED
        BY <3>1, <3>2, <3>3
    <2> QED
      BY <2>1, <2>2 DEF OneEpoch
  <1> QED
    BY <1>2, <1>4, <1>5, Zenon

\* The others are as they were.
LEMMA OthersExact ==
    ASSUME CacheInv, NEW r \in Readers, NEW y \in ReaderRows,
           reader' = [reader EXCEPT ![r] = y], UNCHANGED <<rows, now>>,
           y.pc = "missed" => Cacheable(y) /\ y.moment <= now,
           y.pc = "answered" /\ y.kind = "snapshot" =>
              /\ y.moment <= now
              /\ y.answer = resolveWithExpiry(y.view, y.user, y.moment)
    PROVE  ReadersExact'
  <1>1. /\ reader'[r] = y
        /\ \A q \in Readers : q # r => reader'[q] = reader[q]
    BY DEF CacheInv, Typing
  <1> SUFFICES ASSUME NEW q \in Readers
      PROVE  /\ reader'[q].pc = "missed" => /\ Cacheable(reader'[q])
                                            /\ reader'[q].moment <= now
             /\ reader'[q].pc = "answered" /\ reader'[q].kind = "snapshot" =>
                   /\ reader'[q].moment <= now
                   /\ reader'[q].answer =
                         resolveWithExpiry(reader'[q].view, reader'[q].user,
                                           reader'[q].moment)
    BY DEF ReadersExact
  <1>2. CASE q = r
    BY <1>1, <1>2
  <1>3. CASE q # r
    BY <1>1, <1>3 DEF CacheInv, ReadersExact
  <1> QED
    BY <1>2, <1>3

\* A step that keeps nothing.
LEMMA NothingKept ==
    ASSUME CacheInv, NEW r \in Readers, NEW y \in ReaderRows, Sees(r, y),
           y.pc # "idle" => y.user \in Users /\ y.view \in Dbs,
           reader' = [reader EXCEPT ![r] = y],
           UNCHANGED <<rows, now, entries, changes>>,
           y.pc = "missed" => Cacheable(y) /\ y.moment <= now,
           y.pc # "answered"
    PROVE  CacheInv'
  <1>1. Typing' /\ OneEpoch'
    BY ReaderGoesOn DEF CacheInv, Typing
  <1>2. ReadersExact'
    BY OthersExact
  <1>3. EntriesSound'
    BY ReaderGoesOn DEF CacheInv, EntriesSound
  <1> QED
    BY <1>1, <1>2, <1>3 DEF CacheInv

LEMMA BeginKeeps ==
    ASSUME CacheInv, NEW r \in Readers, Begin(r)
    PROVE  CacheInv'
  <1>1. PICK u \in Users, kind \in {"snapshot", "writing", "committed"} :
           \E d \in IF kind = "writing"
                    THEN {Bumped(c) : c \in Changed \ {rows}} ELSE {rows} :
              reader' = [reader EXCEPT ![r] =
                 [Idle EXCEPT !.pc = "begun", !.kind = kind, !.user = u,
                              !.view = d]]
    BY DEF Begin
  <1>2. PICK d \in IF kind = "writing"
                   THEN {Bumped(c) : c \in Changed \ {rows}} ELSE {rows} :
              reader' = [reader EXCEPT ![r] =
                 [Idle EXCEPT !.pc = "begun", !.kind = kind, !.user = u,
                              !.view = d]]
    BY <1>1
  <1>3. d \in Dbs /\ (kind # "writing" => d = rows)
    BY ChangesAreTyped DEF CacheInv, Typing
  <1> DEFINE y == [Idle EXCEPT !.pc = "begun", !.kind = kind, !.user = u,
                               !.view = d]
  <1>4. /\ y \in ReaderRows /\ y.pc = "begun" /\ y.kind = kind
        /\ y.user = u /\ y.view = d
    BY <1>3 DEF ReaderRows, Idle
  <1>5. reader' = [reader EXCEPT ![r] = y]
    BY <1>2
  <1>6. UNCHANGED <<rows, now, entries, changes>>
    BY DEF Begin
  <1> HIDE DEF y
  <1>7. Sees(r, y)
    BY <1>3, <1>4 DEF Sees, Snapshot
  <1> QED
    BY <1>3, <1>4, <1>5, <1>6, <1>7, NothingKept
\* What is kept of someone is an entry, and theirs.
LEMMA KeptIsTheirs ==
    ASSUME Typing, NEW u \in Users, Kept(u)
    PROVE  /\ At(u) \in DOMAIN entries /\ EntryOf(u) = entries[At(u)]
           /\ EntryOf(u) \in EntryRows /\ EntryOf(u).user = u
  <1>1. At(u) \in DOMAIN entries /\ entries[At(u)].user = u
    BY DEF Kept, At
  <1>2. EntryOf(u) = entries[At(u)]
    BY DEF EntryOf
  <1>3. entries[At(u)] \in EntryRows
    BY <1>1 DEF Typing
  <1> QED
    BY <1>1, <1>2, <1>3

LEMMA BeganIsTyped ==
    ASSUME Typing, NEW r \in Readers, reader[r].pc # "idle"
    PROVE  /\ reader[r] \in ReaderRows /\ reader[r].user \in Users
           /\ reader[r].view \in Dbs /\ reader[r].moment \in Nat
           /\ now \in Nat
  BY DEF Typing, ReaderRows

\* What was gathered of a set of entries, each of them sound.
LEMMA EntriesStaySound ==
    ASSUME CacheInv, NEW r \in Readers, NEW y \in ReaderRows, Sees(r, y),
           y.pc # "idle" => y.user \in Users /\ y.view \in Dbs,
           reader' = [reader EXCEPT ![r] = y], UNCHANGED <<rows, now>>,
           \A i \in DOMAIN entries' :
              /\ entries'[i].epoch <= rows.epoch
              /\ Sound(rows, entries'[i], now)
              /\ \A q \in Readers : Snapshot(reader[q]) =>
                    Sound(reader[q].view, entries'[i], now)
    PROVE  EntriesSound'
  <1>1. \A e : /\ Sound(rows, e, now)
               /\ \A q \in Readers : Snapshot(reader[q]) =>
                     Sound(reader[q].view, e, now)
           => /\ Sound(rows', e, now')
              /\ \A q \in Readers : Snapshot(reader'[q]) =>
                    Sound(reader'[q].view, e, now')
    BY ReaderGoesOn
  <1> QED
    BY <1>1, Zenon DEF EntriesSound

LEMMA HitKeeps ==
    ASSUME CacheInv, NEW r \in Readers, Hit(r)
    PROVE  CacheInv'
  <1> DEFINE x == reader[r]
             e == EntryOf(x.user)
             y == [x EXCEPT !.pc = "answered", !.moment = now,
                            !.answer = e.holds, !.seen = NoEntry]
  <1>1. /\ x.pc = "begun" /\ Cacheable(x) /\ Holds(e, x)
        /\ reader' = [reader EXCEPT ![r] = y]
        /\ entries' = Append(Without(x.user), e)
        /\ UNCHANGED <<rows, now, changes>>
    BY DEF Hit, Answered
  <1>2. /\ x \in ReaderRows /\ x.user \in Users /\ x.view \in Dbs
        /\ now \in Nat /\ Typing
    BY <1>1, BeganIsTyped DEF CacheInv
  <1>3. Kept(x.user)
    BY <1>1 DEF Holds, EntryOf
  <1>4. /\ At(x.user) \in DOMAIN entries /\ e = entries[At(x.user)]
        /\ e \in EntryRows /\ e.user = x.user
    BY <1>2, <1>3, KeptIsTheirs
  <1>5. Snapshot(x) /\ e.epoch = x.view.epoch /\ now < e.until
    BY <1>1 DEF Snapshot, Cacheable, Holds
  <1>6. e.holds = resolveWithExpiry(x.view, x.user, now)
    <2>1. Sound(x.view, e, now)
      BY <1>4, <1>5 DEF CacheInv, EntriesSound
    <2>2. PICK m \in 0..now : Gives(x.view, e, m)
      BY <1>5, <2>1 DEF Sound
    <2>3. /\ m \in Nat /\ m <= now /\ Counted(x.view, x.user, m) \subseteq Nat
          /\ e.until \in Nat
      BY <1>2, <1>4, CountedAreEnds DEF EntryRows
    <2>4. \A t \in Counted(x.view, x.user, m) : e.until <= t
      BY <1>4, <2>2 DEF Gives
    <2>5. \A t \in Counted(x.view, x.user, m) : now < t
      BY <1>2, <1>5, <2>3, <2>4
    <2>6. resolveWithExpiry(x.view, x.user, m)
             = resolveWithExpiry(x.view, x.user, now)
      BY <1>2, <2>3, <2>5, Lapses
    <2> QED
      BY <1>4, <2>2, <2>6 DEF Gives
  <1>7. /\ y \in ReaderRows /\ y.pc = "answered" /\ y.kind = x.kind
        /\ y.user = x.user /\ y.view = x.view /\ y.moment = now
        /\ y.answer = e.holds
    <2>1. e.holds \in SUBSET Claims
      BY <1>4 DEF EntryRows
    <2> HIDE DEF e
    <2> QED
      BY <1>2, <2>1 DEF ReaderRows
  <1> HIDE DEF y
  <1>8. Sees(r, y)
    BY <1>5, <1>7 DEF Sees, Snapshot
  <1>9. ReadersExact'
    <2>1. now <= now
      BY <1>2
    <2> QED
      BY <1>1, <1>2, <1>6, <1>7, <2>1, OthersExact
  <1> HIDE DEF e, x
  <1>10. /\ entries' \in Seq(EntryRows) /\ OneOfEach(entries')
         /\ Len(entries') <= MaxEntries
         /\ \A i \in DOMAIN entries' :
               \E j \in DOMAIN entries : entries'[i] = entries[j]
    <2> DEFINE w == Without(x.user)
    <2>1. /\ w \in Seq(EntryRows) /\ OneOfEach(w)
          /\ \A i \in DOMAIN w :
                /\ w[i].user # x.user
                /\ \E j \in DOMAIN entries : w[i] = entries[j]
          /\ Len(w) + 1 = Len(entries) /\ Len(w) <= Len(entries)
      BY <1>2, <1>3, WithoutKeepsOthers DEF Typing
    <2> HIDE DEF w
    <2>2. Len(w) <= MaxEntries /\ Len(entries) <= MaxEntries
      <3>1. Len(w) \in Nat /\ Len(entries) \in Nat /\ MaxEntries \in Nat
        BY <1>2, <2>1, CacheAssumption DEF Typing
      <3> QED
        BY <1>2, <2>1, <3>1 DEF Typing
    <2>3. \A i \in DOMAIN w : w[i].user # e.user
      BY <1>4, <2>1
    <2>4. /\ Append(w, e) \in Seq(EntryRows) /\ OneOfEach(Append(w, e))
          /\ Len(Append(w, e)) = Len(w) + 1
          /\ \A i \in DOMAIN Append(w, e) :
                \/ Append(w, e)[i] = e
                \/ \E j \in DOMAIN w : Append(w, e)[i] = w[j]
      BY <1>4, <2>1, <2>2, <2>3, PutLast
    <2>5. entries' = Append(w, e)
      BY <1>1 DEF w
    <2>6. \A i \in DOMAIN entries' :
             \E j \in DOMAIN entries : entries'[i] = entries[j]
      BY <1>4, <2>1, <2>4, <2>5
    <2> QED
      BY <2>1, <2>2, <2>4, <2>5, <2>6
  <1>11. Typing' /\ OneEpoch'
    BY <1>1, <1>2, <1>7, <1>8, <1>10, ReaderGoesOn DEF Typing
  <1>12. EntriesSound'
    <2>1. \A i \in DOMAIN entries' :
             /\ entries'[i].epoch <= rows.epoch
             /\ Sound(rows, entries'[i], now)
             /\ \A q \in Readers : Snapshot(reader[q]) =>
                   Sound(reader[q].view, entries'[i], now)
      BY <1>10 DEF CacheInv, EntriesSound
    <2> QED
      BY <1>1, <1>2, <1>7, <1>8, <2>1, EntriesStaySound
  <1> QED
    BY <1>9, <1>11, <1>12 DEF CacheInv
LEMMA MissKeeps ==
    ASSUME CacheInv, NEW r \in Readers, Miss(r)
    PROVE  CacheInv'
  <1> DEFINE x == reader[r]
             e == EntryOf(x.user)
             y == [x EXCEPT !.pc = "missed", !.moment = now, !.seen = e]
  <1>1. /\ x.pc = "begun" /\ Cacheable(x)
        /\ reader' = [reader EXCEPT ![r] = y]
        /\ UNCHANGED <<rows, now, entries, changes>>
    BY DEF Miss, CacheInv, Typing, ReaderRows
  <1>2. /\ x \in ReaderRows /\ x.user \in Users /\ x.view \in Dbs
        /\ now \in Nat /\ Typing
    BY <1>1, BeganIsTyped DEF CacheInv
  <1>3. e \in EntryRows \cup {NoEntry}
    BY <1>2, KeptIsTheirs DEF EntryOf
  <1> HIDE DEF e
  <1>4. /\ y \in ReaderRows /\ y.pc = "missed" /\ y.kind = x.kind
        /\ y.user = x.user /\ y.view = x.view /\ y.moment = now
    BY <1>2, <1>3 DEF ReaderRows
  <1> HIDE DEF y
  <1>5. Sees(r, y) /\ Cacheable(y) /\ now <= now
    BY <1>1, <1>2, <1>4 DEF Sees, Snapshot, Cacheable
  <1> QED
    BY <1>1, <1>2, <1>4, <1>5, NothingKept

LEMMA OverKeeps ==
    ASSUME CacheInv, NEW r \in Readers, reader' = [reader EXCEPT ![r] = Idle],
           UNCHANGED <<rows, now, entries, changes>>
    PROVE  CacheInv'
  <1>1. Idle \in ReaderRows /\ Idle.pc = "idle"
    BY DEF Idle, ReaderRows
  <1>2. Sees(r, Idle)
    BY <1>1 DEF Sees, Snapshot
  <1> QED
    BY <1>1, <1>2, NothingKept

LEMMA ResolveKeeps ==
    ASSUME CacheInv, NEW r \in Readers, Resolve(r)
    PROVE  CacheInv'
  <1> DEFINE x == reader[r]
             holds == resolveWithExpiry(x.view, x.user, x.moment)
             until == ValidUntil(x, x.view)
             e == [user |-> x.user, holds |-> holds, epoch |-> x.view.epoch,
                   until |-> until]
             y == [x EXCEPT !.pc = "answered", !.moment = x.moment,
                            !.answer = holds, !.seen = NoEntry]
             w == Without(x.user)
  <1>1. x.pc = "missed" /\ Cacheable(x) /\ x.moment <= now
    BY DEF Resolve, CacheInv, ReadersExact
  <1>2. x.kind = "snapshot" /\ Snapshot(x) /\ x.view.epoch # 0
    BY <1>1 DEF Cacheable, Snapshot
  <1>3. /\ reader' = [reader EXCEPT ![r] = y]
        /\ entries' = Recent(Append(w, e)) \/ entries' = entries
        /\ UNCHANGED <<rows, now, changes>>
    BY <1>2 DEF Resolve, Answered
  <1>4. /\ x \in ReaderRows /\ x.user \in Users /\ x.view \in Dbs
        /\ x.moment \in Nat /\ now \in Nat /\ Typing
    BY <1>1, BeganIsTyped DEF CacheInv
  <1>5. holds \in SUBSET Claims /\ until \in Nat
        /\ \A t \in Counted(x.view, x.user, x.moment) : until <= t
    BY <1>4, CountedAreEnds, ValidUntilIsLeast
  <1>6. /\ y \in ReaderRows /\ y.pc = "answered" /\ y.kind = x.kind
        /\ y.user = x.user /\ y.view = x.view /\ y.moment = x.moment
        /\ y.answer = holds
    <2> HIDE DEF holds
    <2> QED
      BY <1>4, <1>5 DEF ReaderRows
  <1>7. /\ e \in EntryRows /\ e.user = x.user /\ e.epoch = x.view.epoch
        /\ Gives(x.view, e, x.moment)
    <2>1. x.view.epoch \in Nat \ {0}
      BY <1>2, <1>4 DEF Dbs
    <2>2. /\ e.user = x.user /\ e.epoch = x.view.epoch
          /\ e.holds = holds /\ e.until = until
      OBVIOUS
    <2>3. e \in EntryRows
      <3> HIDE DEF holds, until
      <3> QED
        BY <1>4, <1>5, <2>1 DEF EntryRows
    <2> QED
      BY <1>5, <2>2, <2>3 DEF Gives
  <1> HIDE DEF y
  <1>8. Sees(r, y)
    BY <1>2, <1>6 DEF Sees
  <1>9. ReadersExact'
    BY <1>1, <1>3, <1>4, <1>6, OthersExact
  <1> HIDE DEF e, holds, until, w
  <1>10. /\ e.epoch <= rows.epoch /\ Sound(rows, e, now)
         /\ \A q \in Readers : Snapshot(reader[q]) =>
               Sound(reader[q].view, e, now)
    <2>1. /\ e.epoch <= rows.epoch
          /\ e.epoch = rows.epoch => x.view = rows
          /\ \A q \in Readers : Snapshot(reader[q]) =>
                (reader[q].view.epoch = e.epoch => reader[q].view = x.view)
      BY <1>2, <1>7 DEF CacheInv, OneEpoch
    <2>2. x.moment \in 0..now
      BY <1>1, <1>4
    <2>3. \A d : (d.epoch = e.epoch => d = x.view) => Sound(d, e, now)
      BY <1>7, <2>2 DEF Sound
    <2>4. rows.epoch = e.epoch => rows = x.view
      BY <2>1
    <2> QED
      BY <2>1, <2>3, <2>4
  <1> HIDE DEF x
  <1>11. /\ entries' \in Seq(EntryRows) /\ OneOfEach(entries')
         /\ Len(entries') <= MaxEntries
         /\ \A i \in DOMAIN entries' :
               \/ entries'[i] = e
               \/ \E j \in DOMAIN entries : entries'[i] = entries[j]
    <2>1. CASE entries' = entries
      BY <1>4, <2>1 DEF Typing
    <2>2. CASE entries' = Recent(Append(w, e))
      <3>1. /\ w \in Seq(EntryRows) /\ OneOfEach(w)
            /\ \A i \in DOMAIN w :
                  /\ w[i].user # x.user
                  /\ \E j \in DOMAIN entries : w[i] = entries[j]
            /\ Len(w) <= Len(entries)
        BY <1>4, WithoutKeepsOthers DEF Typing, w
      <3>2. Len(w) <= MaxEntries
        <4>1. Len(w) \in Nat /\ Len(entries) \in Nat /\ MaxEntries \in Nat
          BY <1>4, <3>1, CacheAssumption DEF Typing
        <4> QED
          BY <1>4, <3>1, <4>1 DEF Typing
      <3>3. \A i \in DOMAIN w : w[i].user # e.user
        BY <1>7, <3>1
      <3>4. /\ Recent(Append(w, e)) \in Seq(EntryRows)
            /\ OneOfEach(Recent(Append(w, e)))
            /\ Len(Recent(Append(w, e))) <= MaxEntries
            /\ \A i \in DOMAIN Recent(Append(w, e)) :
                  \/ Recent(Append(w, e))[i] = e
                  \/ \E j \in DOMAIN w : Recent(Append(w, e))[i] = w[j]
        BY <1>7, <3>1, <3>2, <3>3, PutLast
      <3> QED
        BY <2>2, <3>1, <3>4
    <2> QED
      BY <1>3, <2>1, <2>2
  <1>12. Typing' /\ OneEpoch'
    BY <1>3, <1>4, <1>6, <1>8, <1>11, ReaderGoesOn DEF Typing
  <1>13. EntriesSound'
    <2>1. \A i \in DOMAIN entries' :
             /\ entries'[i].epoch <= rows.epoch
             /\ Sound(rows, entries'[i], now)
             /\ \A q \in Readers : Snapshot(reader[q]) =>
                   Sound(reader[q].view, entries'[i], now)
      BY <1>10, <1>11 DEF CacheInv, EntriesSound
    <2> QED
      BY <1>3, <1>4, <1>6, <1>8, <2>1, EntriesStaySound
  <1> QED
    BY <1>9, <1>12, <1>13 DEF CacheInv

-----------------------------------------------------------------------------
LEMMA CacheInvariant == Spec => []CacheInv
  <1>1. ASSUME CacheInv, [Next]_vars PROVE CacheInv'
    <2>1. CASE Change
      BY <1>1, <2>1, ChangeKeeps
    <2>2. CASE Tick
      BY <1>1, <2>2, TickKeeps
    <2>3. CASE clear
      BY <1>1, <2>3, clearKeeps
    <2>4. ASSUME NEW r \in Readers, Begin(r) PROVE CacheInv'
      BY <1>1, <2>4, BeginKeeps
    <2>5. ASSUME NEW r \in Readers, Hit(r) PROVE CacheInv'
      BY <1>1, <2>5, HitKeeps
    <2>6. ASSUME NEW r \in Readers, Miss(r) PROVE CacheInv'
      BY <1>1, <2>6, MissKeeps
    <2>7. ASSUME NEW r \in Readers, Bypass(r) PROVE CacheInv'
      BY <1>1, <2>7, OverKeeps DEF Bypass
    <2>8. ASSUME NEW r \in Readers, Resolve(r) PROVE CacheInv'
      BY <1>1, <2>8, ResolveKeeps
    <2>9. ASSUME NEW r \in Readers, End(r) PROVE CacheInv'
      BY <1>1, <2>9, OverKeeps DEF End
    <2>10. CASE UNCHANGED vars
      BY <1>1, <2>10 DEF vars, CacheInv, Typing, OneEpoch, EntriesSound,
                        ReadersExact
    <2> QED
      BY <1>1, <2>1, <2>2, <2>3, <2>4, <2>5, <2>6, <2>7, <2>8, <2>9, <2>10
      DEF Next
  <1> QED
    BY <1>1, Initially, PTL DEF Spec

\* The cache never holds more than it may, nor two entries of one person, and
\* no entry of an epoch the rows have not had (principal-cache.ts resolve()).
THEOREM CacheTyped == Spec => []TypeOK
  <1>1. CacheInv => TypeOK
    <2> SUFFICES ASSUME CacheInv PROVE TypeOK
      OBVIOUS
    <2>1. /\ rows.epoch \in Nat /\ changes \in 0..MaxChanges
          /\ rows.epoch <= changes + 1 /\ MaxChanges \in Nat
          /\ rows.members \subseteq Users /\ rows.stopped \subseteq Users
      BY CacheAssumption DEF CacheInv, Typing, Dbs
    <2>2. rows.epoch \in 0..(MaxChanges + 1)
      BY <2>1
    <2>3. ASSUME NEW i \in DOMAIN entries
          PROVE  entries[i].epoch \in 1..(MaxChanges + 1)
      <3>1. entries[i] \in EntryRows
        BY DEF CacheInv, Typing
      <3>2. entries[i].epoch \in Nat \ {0} /\ entries[i].epoch <= rows.epoch
        BY <3>1 DEF CacheInv, EntriesSound, EntryRows
      <3> QED
        BY <2>1, <3>2
    <2>4. \A r \in Readers :
             reader[r].pc \in {"idle", "begun", "missed", "answered"}
      BY DEF CacheInv, Typing, ReaderRows
    <2>5. /\ now \in 0..MaxNow /\ Len(entries) <= MaxEntries
          /\ OneOfEach(entries)
      BY DEF CacheInv, Typing
    <2> QED
      BY <2>1, <2>2, <2>3, <2>4, <2>5 DEF TypeOK, OneOfEach
  <1> QED
    BY <1>1, CacheInvariant, PTL

\* Whoever resolved it, in which transaction and however long ago, a request
\* in a snapshot is told what its snapshot holds: a committed change reaches
\* every request that begins after it, and no grant outlives its end
\* (principal-cache.ts resolve(); principals.ts resolveWithExpiry()).
THEOREM CacheStaysExact == Spec => []CacheIsExact
  <1>1. CacheInv => CacheIsExact
    <2> SUFFICES ASSUME CacheInv, NEW r \in Readers,
                        reader[r].pc = "answered",
                        reader[r].kind = "snapshot"
        PROVE  /\ reader[r].answer \subseteq resolveWithExpiry(
                     reader[r].view, reader[r].user, reader[r].moment)
               /\ resolveWithExpiry(reader[r].view, reader[r].user, now)
                     \subseteq reader[r].answer
      BY DEF CacheIsExact
    <2>1. /\ reader[r].user \in Users /\ reader[r].view \in Dbs
          /\ reader[r].moment \in Nat /\ now \in Nat
      BY BeganIsTyped DEF CacheInv
    <2>2. /\ reader[r].moment <= now
          /\ reader[r].answer = resolveWithExpiry(reader[r].view,
                                   reader[r].user, reader[r].moment)
      BY DEF CacheInv, ReadersExact
    <2> QED
      BY <2>1, <2>2, Lapses
  <1> QED
    BY <1>1, CacheInvariant, PTL

-----------------------------------------------------------------------------
(* The slots, by the names ScimDoor has for them.                           *)

token   == s1
counts  == s2
recent  == s3
summary == s4
request == s5
told    == s6

USE DEF token, counts, recent, summary, request, told

-----------------------------------------------------------------------------
(* The door of the SCIM endpoint.                                           *)

Codes    == {0, 200, 400, 401, 429, 500}
Callings ==
    [pc : {"idle", "looked", "checked", "reading", "working", "refused",
           "failed", "answered"},
     address : Networks, secret : {"good", "wrong", "unknown"},
     blocked : BOOLEAN, check : {"ok", "over", "unknown", "wrong-secret"},
     tries : Nat, good : BOOLEAN, wronged : BOOLEAN, acted : {0, 1},
     allow : {0, 1}, deny : {0, 1}, answer : Codes]

\* What a request carries is of the token it came with: only a token that is
\* live lets it in, and only one that is over turns the good secret away.
Carries(x, live) ==
    /\ ~x.wronged
    /\ x.pc \notin {"idle", "answered"} =>
          x.acted = 0 /\ x.allow = 0 /\ x.deny = 0
    /\ x.pc = "checked" =>
          /\ x.secret = "unknown" => x.check = "unknown"
          /\ x.check = "ok" => x.secret = "good"
          /\ x.check = "over" => ~live
          /\ x.secret = "good" /\ x.check /= "ok" => ~live
    /\ x.pc \in {"reading", "working", "refused"} => x.secret = "good"
    /\ x.pc = "working" => x.good
    /\ x.pc = "refused" => ~live
    /\ x.acted = 1 => x.good
    /\ x.pc = "answered" =>
          /\ x.acted = (IF x.answer = 200 THEN 1 ELSE 0)
          /\ x.allow = x.acted
          /\ x.deny = 1 \/ x.answer /= 400
          /\ x.deny = 0 \/ x.answer \in {400, 500}

\* Those whose refusal the log was told of under a key and is yet to be
\* counted; those who looked before it was blocked; and those let in.
Of(x, k) == k = x.address \/ (k = "token" /\ x.secret /= "unknown")
ToCount(x, k) ==
    \/ /\ x.pc = "checked" /\ Door!Records(x.check)
       /\ k = x.address \/ (k = "token" /\ x.check /= "wrong-secret")
    \/ x.pc = "refused" /\ Of(x, k)
Looked(x, k) == x.pc = "looked" /\ ~x.blocked /\ Of(x, k)
LetIn(x, k) ==
    /\ \/ x.pc = "checked" /\ x.check = "ok"
       \/ x.pc \in {"reading", "working"}
    /\ Of(x, k)

Counting(q, k) == {r \in DoorRequests : ToCount(q[r], k)}
Looking(q, k)  == {r \in DoorRequests : Looked(q[r], k)}
Within(q, k)   == {r \in DoorRequests : Looked(q[r], k) \/ LetIn(q[r], k)}

\* Until a key is blocked, each refusal told of it was counted or is to be;
\* then those still to tell are at most the others.
Bounded(q, c, t, live, k) ==
    /\ c < MaxFailures => t <= c + Cardinality(Counting(q, k))
    /\ live => t + Cardinality(Looking(q, k))
                 <= MaxFailures - 1 + Cardinality(DoorRequests)
    /\ ~live => t + Cardinality(Within(q, k))
                 <= MaxFailures - 1 + 2 * Cardinality(DoorRequests)

Live == token = "live"

Summaries ==
    [pending : Nat, writing : Nat, due : Nat, owed : Nat,
     state : {"open", "closing", "closed"}]

SummaryInOrder ==
    /\ summary \in Summaries
    /\ summary.owed = summary.pending + summary.writing + summary.due
    /\ summary.state = "open" => summary.due = 0

DoorTyped ==
    /\ token \in {"live", "over", "gone"} /\ recent \in BOOLEAN
    /\ request \in [DoorRequests -> Callings]
    /\ counts \in [Door!Keys -> 0..MaxFailures]
    /\ told \in [Door!Keys -> Nat]

DoorInv ==
    /\ DoorTyped /\ SummaryInOrder
    /\ \A r \in DoorRequests : Carries(request[r], Live)
    /\ \A k \in Door!Keys : Bounded(request, counts[k], told[k], Live, k)

-----------------------------------------------------------------------------
(* Counting.                                                                *)

LEMMA DoorFinite ==
    /\ IsFiniteSet(DoorRequests) /\ Cardinality(DoorRequests) \in Nat
    /\ \A S \in SUBSET DoorRequests :
          IsFiniteSet(S) /\ Cardinality(S) \in Nat
          /\ Cardinality(S) <= Cardinality(DoorRequests)
BY OneServiceAssumption, FS_Subset, FS_CardinalityType

\* Two sets that differ in one at most.
LEMMA ByOne ==
    ASSUME NEW S \in SUBSET DoorRequests, NEW T \in SUBSET DoorRequests,
           NEW r, S \ {r} = T \ {r}
    PROVE  /\ (r \in S <=> r \in T) => Cardinality(T) = Cardinality(S)
           /\ r \in S /\ r \notin T => Cardinality(T) = Cardinality(S) - 1
           /\ r \notin S /\ r \in T => Cardinality(T) = Cardinality(S) + 1
<1>1. IsFiniteSet(S) /\ IsFiniteSet(T)
  BY DoorFinite
<1>2. (r \in S <=> r \in T) => S = T
  OBVIOUS
<1>3. r \in S /\ r \notin T => T = S \ {r}
  OBVIOUS
<1>4. r \notin S /\ r \in T => T = S \cup {r}
  OBVIOUS
<1> QED BY <1>1, <1>2, <1>3, <1>4, FS_AddElement, FS_RemoveElement

LEMMA ApartIn ==
    ASSUME NEW S \in SUBSET DoorRequests, NEW T \in SUBSET DoorRequests,
           S \cap T = {}
    PROVE  Cardinality(S) + Cardinality(T) <= Cardinality(DoorRequests)
<1>1. IsFiniteSet(S) /\ IsFiniteSet(T)
  BY DoorFinite
<1>2. Cardinality(S \cup T) = Cardinality(S) + Cardinality(T)
  <2>1. Cardinality(S \cap T) = 0
    BY FS_EmptySet
  <2>2. Cardinality(S) \in Nat /\ Cardinality(T) \in Nat
    BY DoorFinite
  <2>3. Cardinality(S \cup T)
           = Cardinality(S) + Cardinality(T) - Cardinality(S \cap T)
    BY <1>1, FS_Union
  <2> QED BY <2>1, <2>2, <2>3
<1> QED BY <1>2, DoorFinite

\* As long as a key isn't blocked, the rest follows from what is counted.
LEMMA Unblocked ==
    ASSUME NEW q, NEW c \in 0..MaxFailures, NEW t \in Nat, NEW k,
           NEW live \in BOOLEAN, c < MaxFailures,
           t <= c + Cardinality(Counting(q, k))
    PROVE  Bounded(q, c, t, live, k)
<1> DEFINE n == Cardinality(DoorRequests)
<1>1. /\ Counting(q, k) \in SUBSET DoorRequests
      /\ Looking(q, k) \in SUBSET DoorRequests
      /\ Within(q, k) \in SUBSET DoorRequests
  BY DEF Counting, Looking, Within
<1>2. /\ Counting(q, k) \cap Looking(q, k) = {}
      /\ Counting(q, k) \cap Within(q, k) = {}
  BY DEF Counting, Looking, Within, ToCount, Looked, LetIn, Door!Records
<1>3. /\ Cardinality(Counting(q, k)) + Cardinality(Looking(q, k)) <= n
      /\ Cardinality(Counting(q, k)) + Cardinality(Within(q, k)) <= n
  BY <1>1, <1>2, ApartIn
<1>4. /\ n \in Nat /\ Cardinality(Counting(q, k)) \in Nat
      /\ Cardinality(Looking(q, k)) \in Nat
      /\ Cardinality(Within(q, k)) \in Nat
  BY <1>1, DoorFinite
<1>5. MaxFailures \in Nat
  BY OneServiceAssumption
<1> QED BY <1>3, <1>4, <1>5 DEF Bounded

\* One request goes on: what is told is told by one who looked or was let in
\* and is now to be counted.
LEMMA BoundedStays ==
    ASSUME NEW q \in [DoorRequests -> Callings], NEW r \in DoorRequests,
           NEW y, NEW k, NEW live \in BOOLEAN,
           NEW c \in 0..MaxFailures, NEW d \in 0..MaxFailures, c <= d,
           NEW t \in Nat, NEW u \in Nat,
           Bounded(q, c, t, live, k),
           \/ u = t
           \/ /\ u = t + 1 /\ ~ToCount(q[r], k) /\ ToCount(y, k)
              /\ Looked(q[r], k) \/ (~live /\ LetIn(q[r], k)),
           ToCount(q[r], k) /\ ~ToCount(y, k) => c < d \/ d = MaxFailures,
           Looked(y, k) => Looked(q[r], k) \/ d < MaxFailures,
           ~live /\ LetIn(y, k) => LetIn(q[r], k) \/ d < MaxFailures
    PROVE  Bounded([q EXCEPT ![r] = y], d, u, live, k)
<1> DEFINE p == [q EXCEPT ![r] = y]
           n == Cardinality(DoorRequests)
<1>1. /\ Counting(q, k) \in SUBSET DoorRequests
      /\ Looking(q, k) \in SUBSET DoorRequests
      /\ Within(q, k) \in SUBSET DoorRequests
      /\ Counting(p, k) \in SUBSET DoorRequests
      /\ Looking(p, k) \in SUBSET DoorRequests
      /\ Within(p, k) \in SUBSET DoorRequests
  BY DEF Counting, Looking, Within
<1>2. /\ Counting(q, k) \ {r} = Counting(p, k) \ {r}
      /\ Looking(q, k) \ {r} = Looking(p, k) \ {r}
      /\ Within(q, k) \ {r} = Within(p, k) \ {r}
  BY DEF Counting, Looking, Within
<1>3. /\ r \in Counting(q, k) <=> ToCount(q[r], k)
      /\ r \in Counting(p, k) <=> ToCount(y, k)
      /\ r \in Looking(q, k) <=> Looked(q[r], k)
      /\ r \in Looking(p, k) <=> Looked(y, k)
      /\ r \in Within(q, k) <=> Looked(q[r], k) \/ LetIn(q[r], k)
      /\ r \in Within(p, k) <=> Looked(y, k) \/ LetIn(y, k)
  BY DEF Counting, Looking, Within
<1>4. ToCount(y, k) => ~Looked(y, k) /\ ~LetIn(y, k)
  BY DEF ToCount, Looked, LetIn, Door!Records
<1> HIDE DEF p
<1>5. /\ n \in Nat
      /\ Cardinality(Counting(q, k)) \in Nat
      /\ Cardinality(Looking(q, k)) \in Nat
      /\ Cardinality(Within(q, k)) \in Nat
      /\ Cardinality(Counting(p, k)) \in Nat
      /\ Cardinality(Looking(p, k)) \in Nat
      /\ Cardinality(Within(p, k)) \in Nat
  BY <1>1, DoorFinite
<1>6. MaxFailures \in Nat
  BY OneServiceAssumption
<1>7. d < MaxFailures => u <= d + Cardinality(Counting(p, k))
  <2>1. /\ (ToCount(q[r], k) <=> ToCount(y, k)) =>
              Cardinality(Counting(p, k)) = Cardinality(Counting(q, k))
        /\ ToCount(q[r], k) /\ ~ToCount(y, k) =>
              Cardinality(Counting(p, k)) = Cardinality(Counting(q, k)) - 1
        /\ ~ToCount(q[r], k) /\ ToCount(y, k) =>
              Cardinality(Counting(p, k)) = Cardinality(Counting(q, k)) + 1
    BY <1>1, <1>2, <1>3, ByOne
  <2>2. d < MaxFailures => t <= c + Cardinality(Counting(q, k))
    BY <1>6 DEF Bounded
  <2> QED BY <1>5, <1>6, <2>1, <2>2
<1>8. CASE d < MaxFailures
  BY <1>7, <1>8, Unblocked DEF p
<1>9. CASE ~(d < MaxFailures)
  <2>1. /\ (Looked(q[r], k) <=> Looked(y, k)) =>
              Cardinality(Looking(p, k)) = Cardinality(Looking(q, k))
        /\ Looked(q[r], k) /\ ~Looked(y, k) =>
              Cardinality(Looking(p, k)) = Cardinality(Looking(q, k)) - 1
    BY <1>1, <1>2, <1>3, ByOne
  <2>2. live => u + Cardinality(Looking(p, k)) <= MaxFailures - 1 + n
    BY <1>4, <1>5, <1>6, <1>9, <2>1 DEF Bounded
  <2>3. LET a == Looked(q[r], k) \/ LetIn(q[r], k)
            b == Looked(y, k) \/ LetIn(y, k) IN
        /\ (a <=> b) =>
              Cardinality(Within(p, k)) = Cardinality(Within(q, k))
        /\ a /\ ~b =>
              Cardinality(Within(p, k)) = Cardinality(Within(q, k)) - 1
    BY <1>1, <1>2, <1>3, ByOne
  <2>4. ~live => u + Cardinality(Within(p, k)) <= MaxFailures - 1 + 2 * n
    BY <1>4, <1>5, <1>6, <1>9, <2>3 DEF Bounded
  <2> QED BY <1>9, <2>2, <2>4 DEF Bounded, p
<1> QED BY <1>8, <1>9

LEMMA TalliesGo ==
    ASSUME DoorInv, NEW r \in DoorRequests, NEW y,
           request' = [request EXCEPT ![r] = y], token' = token,
           DoorTyped', NEW k \in Door!Keys, counts[k] <= counts'[k],
           \/ told'[k] = told[k]
           \/ /\ told'[k] = told[k] + 1
              /\ ~ToCount(request[r], k) /\ ToCount(y, k)
              /\ Looked(request[r], k) \/ (~Live /\ LetIn(request[r], k)),
           ToCount(request[r], k) /\ ~ToCount(y, k) =>
              counts[k] < counts'[k] \/ counts'[k] = MaxFailures,
           Looked(y, k) => Looked(request[r], k) \/ counts'[k] < MaxFailures,
           ~Live /\ LetIn(y, k) =>
              LetIn(request[r], k) \/ counts'[k] < MaxFailures
    PROVE  Bounded(request, counts[k], told[k], Live, k)'
<1>1. /\ request \in [DoorRequests -> Callings]
      /\ counts[k] \in 0..MaxFailures /\ counts'[k] \in 0..MaxFailures
      /\ told[k] \in Nat /\ told'[k] \in Nat
  BY DEF DoorInv, DoorTyped, Door!Keys
<1>2. Bounded(request, counts[k], told[k], Live, k)
  BY DEF DoorInv
<1>3. Live \in BOOLEAN /\ Live' = Live
  BY DEF Live
<1>4. Bounded([request EXCEPT ![r] = y], counts'[k], told'[k], Live, k)
  BY <1>1, <1>2, <1>3, BoundedStays
<1> QED BY <1>3, <1>4 DEF Bounded, Counting, Looking, Within

\* What a step of a request from x to y may count and tell under a key.
Tallies(x, y, k) ==
    /\ counts[k] <= counts'[k]
    /\ \/ told'[k] = told[k]
       \/ /\ told'[k] = told[k] + 1
          /\ ~ToCount(x, k) /\ ToCount(y, k)
          /\ Looked(x, k) \/ (~Live /\ LetIn(x, k))
    /\ ToCount(x, k) /\ ~ToCount(y, k) =>
          counts[k] < counts'[k] \/ counts'[k] = MaxFailures
    /\ Looked(y, k) => Looked(x, k) \/ counts'[k] < MaxFailures
    /\ ~Live /\ LetIn(y, k) => LetIn(x, k) \/ counts'[k] < MaxFailures

\* A request goes on.
LEMMA DoorGoes ==
    ASSUME DoorInv, NEW r \in DoorRequests, NEW y \in Callings,
           request' = [request EXCEPT ![r] = y], token' = token,
           Carries(y, Live), SummaryInOrder', recent' \in BOOLEAN,
           counts' \in [Door!Keys -> 0..MaxFailures],
           told' \in [Door!Keys -> Nat],
           \A k \in Door!Keys : Tallies(request[r], y, k)
    PROVE  DoorInv'
<1>1. DoorTyped'
  BY DEF DoorInv, DoorTyped, Door!Keys
<1>2. \A p \in DoorRequests : Carries(request'[p], Live')
  <2>1. Live' = Live
    BY DEF Live
  <2> QED BY <2>1 DEF DoorInv, DoorTyped
<1>3. \A k \in Door!Keys :
         Bounded(request, counts[k], told[k], Live, k)'
  BY <1>1, TalliesGo DEF Tallies
<1>4. Door!Keys' = Door!Keys
  BY DEF Door!Keys
<1> QED BY <1>1, <1>2, <1>3, <1>4 DEF DoorInv

LEMMA IdleIs ==
    /\ Door!Idle \in Callings
    /\ Door!Idle.pc = "idle" /\ ~Door!Idle.wronged
    /\ Door!Idle.acted = 0 /\ Door!Idle.allow = 0 /\ Door!Idle.deny = 0
<1>1. (CHOOSE a \in Networks : TRUE) \in Networks
  BY OneServiceAssumption
<1> QED BY <1>1 DEF Door!Idle, Callings, Codes

LEMMA DoorBegins == Door!Init => DoorInv
<1> SUFFICES ASSUME Door!Init PROVE DoorInv
  OBVIOUS
<1>1. MaxFailures \in Nat \ {0}
  BY OneServiceAssumption
<1>2. DoorTyped
  <2>1. 0 \in 0..MaxFailures
    BY <1>1
  <2>2. /\ counts \in [Door!Keys -> 0..MaxFailures]
        /\ told \in [Door!Keys -> Nat]
    BY <2>1 DEF Door!Init
  <2>3. request \in [DoorRequests -> Callings]
    BY IdleIs DEF Door!Init
  <2> QED BY <2>2, <2>3 DEF Door!Init, DoorTyped
<1>3. SummaryInOrder
  BY DEF Door!Init, SummaryInOrder, Summaries
<1>4. \A r \in DoorRequests : Carries(request[r], Live)
  <2>1. Carries(Door!Idle, Live)
    BY IdleIs DEF Carries
  <2> QED BY <2>1 DEF Door!Init
<1>5. ASSUME NEW k \in Door!Keys
      PROVE  Bounded(request, counts[k], told[k], Live, k)
  <2>1. counts[k] = 0 /\ told[k] = 0
    BY DEF Door!Init
  <2>2. Cardinality(Counting(request, k)) \in Nat
    BY DoorFinite DEF Counting
  <2>3. Live \in BOOLEAN
    BY DEF Live
  <2> QED BY <1>1, <2>1, <2>2, <2>3, Unblocked
<1> QED BY <1>2, <1>3, <1>4, <1>5 DEF DoorInv

\* Where neither the requests nor what is counted changes.
LEMMA RestStays ==
    ASSUME DoorInv, SummaryInOrder', recent' \in BOOLEAN,
           UNCHANGED <<token, counts, request, told>>
    PROVE  DoorInv'
<1>1. DoorTyped'
  BY DEF DoorInv, DoorTyped, Door!Keys
<1>2. \A r \in DoorRequests : Carries(request[r], Live)'
  BY DEF DoorInv, Carries, Live
<1>3. \A k \in Door!Keys' :
         Bounded(request, counts[k], told[k], Live, k)'
  BY DEF DoorInv, Door!Keys, Bounded, Live, Counting, Looking, Within
<1> QED BY <1>1, <1>2, <1>3 DEF DoorInv

\* Those who were let in may tell of one refusal more each, once it is over.
LEMMA TokenEndsKeeps ==
    ASSUME DoorInv, Door!TokenEnds
    PROVE  DoorInv'
<1> DEFINE n == Cardinality(DoorRequests)
<1>1. /\ Live /\ ~Live'
      /\ token' = "over" /\ UNCHANGED <<counts, request, told>>
  BY DEF Door!TokenEnds, Live
<1>2. DoorTyped' /\ SummaryInOrder'
  BY <1>1 DEF DoorInv, DoorTyped, SummaryInOrder, Door!TokenEnds, Door!Keys
<1>3. \A r \in DoorRequests : Carries(request[r], Live)'
  BY <1>1 DEF DoorInv, Carries
<1>4. ASSUME NEW k \in Door!Keys'
      PROVE  Bounded(request, counts[k], told[k], Live, k)'
  <2>1. k \in Door!Keys
    BY <1>4 DEF Door!Keys
  <2>2. Bounded(request, counts[k], told[k], Live, k)
    BY <2>1 DEF DoorInv
  <2> DEFINE looking == Looking(request, k)
             others == Within(request, k) \ Looking(request, k)
  <2>3. /\ looking \in SUBSET DoorRequests
        /\ others \in SUBSET DoorRequests
        /\ Within(request, k) = looking \cup others
        /\ looking \cap others = {}
    BY DEF Looking, Within
  <2> HIDE DEF looking, others
  <2>4. /\ IsFiniteSet(looking) /\ IsFiniteSet(others)
        /\ Cardinality(looking) \in Nat /\ Cardinality(others) \in Nat
        /\ Cardinality(others) <= n /\ n \in Nat
    BY <2>3, DoorFinite
  <2>5. Cardinality(looking \cup others)
           = Cardinality(looking) + Cardinality(others)
    <3>1. Cardinality(looking \cup others)
             = Cardinality(looking) + Cardinality(others)
                  - Cardinality(looking \cap others)
      BY <2>4, FS_Union
    <3>2. Cardinality(looking \cap others) = 0
      BY <2>3, FS_EmptySet
    <3> QED BY <2>4, <3>1, <3>2
  <2>6. told[k] + Cardinality(looking) <= MaxFailures - 1 + n
    BY <1>1, <2>2 DEF Bounded, looking
  <2>7. told[k] \in Nat /\ MaxFailures \in Nat
    BY <2>1, OneServiceAssumption DEF DoorInv, DoorTyped
  <2>8. told[k] + Cardinality(Within(request, k)) <= MaxFailures - 1 + 2 * n
    BY <2>3, <2>4, <2>5, <2>6, <2>7
  <2>9. Bounded(request, counts[k], told[k], FALSE, k)
    BY <2>2, <2>8 DEF Bounded
  <2> QED BY <1>1, <2>9 DEF Bounded, Counting, Looking, Within
<1> QED BY <1>2, <1>3, <1>4 DEF DoorInv

LEMMA PruneKeeps ==
    ASSUME DoorInv, Door!Prune
    PROVE  DoorInv'
<1>1. /\ ~Live /\ ~Live'
      /\ token' = "gone" /\ UNCHANGED <<counts, request, told>>
  BY DEF Door!Prune, Live
<1>2. DoorTyped' /\ SummaryInOrder'
  BY <1>1 DEF DoorInv, DoorTyped, SummaryInOrder, Door!Prune, Door!Keys
<1>3. \A r \in DoorRequests : Carries(request[r], Live)'
  BY <1>1 DEF DoorInv, Carries
<1>4. \A k \in Door!Keys' :
         Bounded(request, counts[k], told[k], Live, k)'
  BY <1>1 DEF DoorInv, Door!Keys, Bounded, Counting, Looking, Within
<1> QED BY <1>2, <1>3, <1>4 DEF DoorInv

LEMMA WindowKeeps ==
    ASSUME DoorInv, NEW w \in Door!Keys, Door!WindowEnds(w)
    PROVE  DoorInv'
<1>1. UNCHANGED <<token, recent, summary, request>>
  BY DEF Door!WindowEnds
<1>2. Live' = Live /\ Live \in BOOLEAN
  BY <1>1 DEF Live
<1>3. MaxFailures \in Nat \ {0}
  BY OneServiceAssumption
<1>4. /\ DoorTyped
      /\ counts' = [counts EXCEPT ![w] = 0]
      /\ told' = [told EXCEPT ![w] = 0]
  BY DEF DoorInv, Door!WindowEnds
<1>5. DoorTyped' /\ SummaryInOrder'
  BY <1>1, <1>3, <1>4 DEF DoorInv, DoorTyped, SummaryInOrder, Door!Keys
<1>6. \A r \in DoorRequests : Carries(request[r], Live)'
  BY <1>1, <1>2 DEF DoorInv, Carries
<1>7. ASSUME NEW k \in Door!Keys'
      PROVE  Bounded(request, counts[k], told[k], Live, k)'
  <2>1. k \in Door!Keys
    BY <1>7 DEF Door!Keys
  <2>2. Bounded(request, counts'[k], told'[k], Live, k)
    <3>1. CASE k = w
      <4>1. counts'[k] = 0 /\ told'[k] = 0
        BY <1>4, <2>1, <3>1 DEF DoorTyped
      <4>2. Cardinality(Counting(request, k)) \in Nat
        BY DoorFinite DEF Counting
      <4> QED BY <1>2, <1>3, <4>1, <4>2, Unblocked
    <3>2. CASE k /= w
      BY <1>4, <2>1, <3>2 DEF DoorInv, DoorTyped
    <3> QED BY <3>1, <3>2
  <2> QED BY <1>1, <1>2, <2>2 DEF Bounded, Counting, Looking, Within
<1> QED BY <1>5, <1>6, <1>7 DEF DoorInv

LEMMA SummaryKeeps ==
    ASSUME DoorInv,
           \/ Door!Forgotten \/ Door!SummaryIsDue \/ Door!SummaryIsWritten
           \/ Door!Close \/ Door!DueIsWritten \/ Door!Closed
    PROVE  DoorInv'
<1>0. SummaryInOrder /\ recent \in BOOLEAN
  BY DEF DoorInv, DoorTyped
<1>1. UNCHANGED <<token, counts, request, told>> /\ recent' \in BOOLEAN
  BY <1>0 DEF Door!Forgotten, Door!SummaryIsDue, Door!SummaryIsWritten,
     Door!Close, Door!DueIsWritten, Door!Closed
<1>2. SummaryInOrder'
  <2>1. CASE Door!Forgotten
    BY <1>0, <2>1 DEF Door!Forgotten, SummaryInOrder
  <2>2. CASE Door!SummaryIsDue
    <3>1. summary' = [summary EXCEPT !.writing = summary.pending,
                                     !.pending = 0]
      BY <2>2 DEF Door!SummaryIsDue, Door!Taken
    <3>2. /\ summary'.pending = 0 /\ summary'.writing = summary.pending
          /\ summary'.due = summary.due /\ summary'.owed = summary.owed
          /\ summary'.state = summary.state
      BY <1>0, <3>1 DEF SummaryInOrder, Summaries
    <3>3. summary' \in Summaries
      BY <1>0, <3>1 DEF SummaryInOrder, Summaries
    <3> QED BY <1>0, <2>2, <3>2, <3>3
      DEF Door!SummaryIsDue, SummaryInOrder, Summaries
  <2>3. CASE Door!SummaryIsWritten
    <3>1. PICK s : s = [summary EXCEPT !.writing = 0]
      OBVIOUS
    <3>2. summary' = [s EXCEPT !.owed = @ - summary.writing]
      BY <2>3, <3>1 DEF Door!SummaryIsWritten, Door!FlushEnds, Door!Flushed
    <3>3. /\ summary'.pending = summary.pending /\ summary'.writing = 0
          /\ summary'.due = summary.due /\ summary'.state = summary.state
          /\ summary'.owed = summary.owed - summary.writing
      BY <1>0, <3>1, <3>2 DEF SummaryInOrder, Summaries
    <3>4. summary.owed - summary.writing \in Nat
      BY <1>0 DEF SummaryInOrder, Summaries
    <3>5. summary' \in Summaries
      BY <1>0, <3>1, <3>2, <3>4 DEF SummaryInOrder, Summaries
    <3> QED BY <1>0, <3>3, <3>5 DEF SummaryInOrder, Summaries
  <2>4. CASE Door!Close
    <3>1. summary' = [summary EXCEPT !.state = "closing",
                        !.due = summary.pending, !.pending = 0]
      BY <2>4 DEF Door!Close, Door!DueAtClose
    <3>2. /\ summary'.pending = 0 /\ summary'.due = summary.pending
          /\ summary'.writing = summary.writing
          /\ summary'.owed = summary.owed /\ summary'.state = "closing"
      BY <1>0, <3>1 DEF SummaryInOrder, Summaries
    <3>3. summary' \in Summaries
      BY <1>0, <3>1 DEF SummaryInOrder, Summaries
    <3>4. summary.due = 0
      BY <1>0, <2>4 DEF Door!Close, SummaryInOrder
    <3> QED BY <1>0, <3>2, <3>3, <3>4 DEF SummaryInOrder, Summaries
  <2>5. CASE Door!DueIsWritten
    <3>1. PICK s : s = [summary EXCEPT !.due = 0]
      OBVIOUS
    <3>2. summary' = [s EXCEPT !.owed = @ - summary.due]
      BY <2>5, <3>1 DEF Door!DueIsWritten, Door!FlushEnds, Door!Flushed
    <3>3. /\ summary'.pending = summary.pending /\ summary'.due = 0
          /\ summary'.writing = summary.writing
          /\ summary'.state = summary.state
          /\ summary'.owed = summary.owed - summary.due
      BY <1>0, <3>1, <3>2 DEF SummaryInOrder, Summaries
    <3>4. summary.owed - summary.due \in Nat
      BY <1>0 DEF SummaryInOrder, Summaries
    <3>5. summary' \in Summaries
      BY <1>0, <3>1, <3>2, <3>4 DEF SummaryInOrder, Summaries
    <3> QED BY <1>0, <3>3, <3>5 DEF SummaryInOrder, Summaries
  <2>6. CASE Door!Closed
    <3>1. summary' = [summary EXCEPT !.state = "closed"]
      BY <2>6 DEF Door!Closed
    <3>2. /\ summary'.pending = summary.pending
          /\ summary'.writing = summary.writing
          /\ summary'.due = summary.due /\ summary'.owed = summary.owed
          /\ summary'.state = "closed"
      BY <1>0, <3>1 DEF SummaryInOrder, Summaries
    <3>3. summary' \in Summaries
      BY <1>0, <3>1 DEF SummaryInOrder, Summaries
    <3> QED BY <1>0, <3>2, <3>3 DEF SummaryInOrder, Summaries
  <2> QED BY <2>1, <2>2, <2>3, <2>4, <2>5, <2>6
<1> QED BY <1>1, <1>2, RestStays

-----------------------------------------------------------------------------
(* A request's steps.                                                       *)

Ended(status, turned, good, acted, allow, deny) ==
    [Door!Idle EXCEPT !.pc = "answered", !.answer = status,
       !.wronged = turned, !.good = good, !.acted = acted,
       !.allow = allow, !.deny = deny]

LEMMA EndedIs ==
    ASSUME NEW status \in Codes, NEW turned \in BOOLEAN,
           NEW good \in BOOLEAN, NEW acted \in {0, 1}, NEW allow \in {0, 1},
           NEW deny \in {0, 1}
    PROVE  LET y == Ended(status, turned, good, acted, allow, deny) IN
           /\ y \in Callings /\ y.pc = "answered" /\ y.answer = status
           /\ y.wronged = turned /\ y.good = good
           /\ y.acted = acted /\ y.allow = allow /\ y.deny = deny
BY IdleIs DEF Ended, Callings

\* One that ends is answered, and was turned away by its limit or its token
\* only if the token was over.
MayEnd(x, status, live) ==
    /\ x \in Callings /\ status \in Codes \ {0}
    /\ ~(x.secret = "good" /\ live /\ status \in {401, 429})
    /\ x.acted = 1 => x.good
    /\ x.acted = (IF status = 200 THEN 1 ELSE 0) /\ x.allow = x.acted
    /\ x.deny = 1 \/ status /= 400
    /\ x.deny = 0 \/ status \in {400, 500}

LEMMA EndsAs ==
    ASSUME NEW r \in DoorRequests, NEW x, NEW status,
           MayEnd(x, status, Live), Door!Ends(r, x, status)
    PROVE  \E y \in Callings : /\ request' = [request EXCEPT ![r] = y]
                               /\ y.pc = "answered" /\ Carries(y, Live)
<1> DEFINE turned == /\ x.secret = "good" /\ token = "live"
                     /\ status \in {401, 429}
           good == x.good \/ x.acted = 0
           y == Ended(status, turned, good, x.acted, x.allow, x.deny)
<1>1. request' = [request EXCEPT ![r] = y]
  BY DEF Door!Ends, Door!Goes, Ended
<1>2. turned = FALSE
  BY DEF MayEnd, Live
<1>3. /\ y \in Callings /\ y.pc = "answered" /\ y.answer = status
      /\ y.wronged = turned /\ y.good = good
      /\ y.acted = x.acted /\ y.allow = x.allow /\ y.deny = x.deny
  <2>1. good \in BOOLEAN /\ turned \in BOOLEAN
    OBVIOUS
  <2>2. /\ x.acted \in {0, 1} /\ x.allow \in {0, 1} /\ x.deny \in {0, 1}
        /\ status \in Codes
    BY DEF MayEnd, Callings
  <2> HIDE DEF good, turned
  <2> QED BY <2>1, <2>2, EndedIs
<1> HIDE DEF y
<1>4. Carries(y, Live)
  <2>1. x.acted = 1 => good
    BY DEF MayEnd
  <2> HIDE DEF good
  <2>2. y.acted = 1 => y.good
    BY <1>3, <2>1
  <2> HIDE DEF turned
  <2>3. ~y.wronged
    BY <1>2, <1>3
  <2> QED BY <1>3, <2>2, <2>3 DEF Carries, MayEnd
<1> HIDE DEF good, turned
<1> QED BY <1>1, <1>3, <1>4

LEMMA EndsKeep ==
    ASSUME DoorInv, NEW r \in DoorRequests, NEW x, NEW status,
           MayEnd(x, status, Live), Door!Ends(r, x, status),
           SummaryInOrder', recent' \in BOOLEAN, UNCHANGED <<token, told>>,
           counts' \in [Door!Keys -> 0..MaxFailures],
           \A k \in Door!Keys :
              /\ counts[k] <= counts'[k]
              /\ ToCount(request[r], k) =>
                    counts[k] < counts'[k] \/ counts'[k] = MaxFailures
    PROVE  DoorInv'
<1>1. PICK y \in Callings : /\ request' = [request EXCEPT ![r] = y]
                            /\ y.pc = "answered" /\ Carries(y, Live)
  BY EndsAs
<1>2. \A k \in Door!Keys : ~ToCount(y, k) /\ ~Looked(y, k) /\ ~LetIn(y, k)
  BY <1>1 DEF ToCount, Looked, LetIn
<1>3. \A k \in Door!Keys : Tallies(request[r], y, k)
  BY <1>2 DEF Tallies
<1>4. token' = token /\ told' \in [Door!Keys -> Nat]
  BY DEF DoorInv, DoorTyped
<1> QED BY <1>1, <1>3, <1>4, DoorGoes

\* What is counted never falls, and rises to where it blocks.
LEMMA CountsRise ==
    ASSUME DoorInv, NEW ks, counts' = Door!CountedFor(ks)
    PROVE  /\ counts' \in [Door!Keys -> 0..MaxFailures]
           /\ \A k \in Door!Keys :
                 /\ counts[k] <= counts'[k]
                 /\ k \in ks => counts[k] < counts'[k]
                                \/ counts'[k] = MaxFailures
<1>1. counts \in [Door!Keys -> 0..MaxFailures] /\ MaxFailures \in Nat
  BY OneServiceAssumption DEF DoorInv, DoorTyped
<1>2. \A k \in Door!Keys :
         /\ Door!Failed(k) \in 0..MaxFailures
         /\ counts[k] <= Door!Failed(k)
         /\ counts[k] < Door!Failed(k) \/ Door!Failed(k) = MaxFailures
  BY <1>1 DEF Door!Failed
<1> QED BY <1>1, <1>2 DEF Door!CountedFor

\* A request as it is.
LEMMA RequestIs ==
    ASSUME DoorInv, NEW r \in DoorRequests
    PROVE  /\ request[r] \in Callings /\ Carries(request[r], Live)
           /\ counts \in [Door!Keys -> 0..MaxFailures]
           /\ \A k \in Door!Keys : counts[k] <= counts[k]
           /\ told \in [Door!Keys -> Nat] /\ recent \in BOOLEAN
           /\ SummaryInOrder
<1>1. \A n \in 0..MaxFailures : n <= n
  BY OneServiceAssumption
<1> QED BY <1>1 DEF DoorInv, DoorTyped

\* A token that is live is refused to nobody who has its secret.
LEMMA CheckedIs ==
    ASSUME DoorInv, NEW secret \in Door!Secrets
    PROVE  LET check == Door!Checked(secret) IN
           /\ check \in {"ok", "over", "unknown", "wrong-secret"}
           /\ secret = "unknown" => check = "unknown"
           /\ check = "ok" => secret = "good" /\ Live
           /\ check = "over" => ~Live
           /\ secret = "good" /\ check /= "ok" => ~Live
BY DEF DoorInv, DoorTyped, Door!Checked, Door!Secrets, Live

LEMMA CheckTokenKeeps ==
    ASSUME DoorInv, NEW r \in DoorRequests, Door!CheckToken(r)
    PROVE  DoorInv'
<1> DEFINE x == request[r]
           check == Door!Checked(x.secret)
<1>0. /\ x \in Callings /\ Carries(x, Live) /\ x.pc = "looked"
      /\ UNCHANGED <<token, counts, recent, summary>>
      /\ SummaryInOrder' /\ recent' \in BOOLEAN
      /\ counts' \in [Door!Keys -> 0..MaxFailures]
      /\ \A k \in Door!Keys : counts[k] <= counts'[k]
  BY RequestIs DEF Door!CheckToken, Door!At, SummaryInOrder
<1>1. /\ check \in {"ok", "over", "unknown", "wrong-secret"}
      /\ x.secret = "unknown" => check = "unknown"
      /\ check = "ok" => x.secret = "good" /\ Live
      /\ check = "over" => ~Live
      /\ x.secret = "good" /\ check /= "ok" => ~Live
  <2>1. x.secret \in Door!Secrets
    BY <1>0 DEF Callings, Door!Secrets
  <2> QED BY <2>1, CheckedIs
<1>2. \A k \in Door!Keys : ~ToCount(x, k) /\ ~LetIn(x, k)
  BY <1>0 DEF ToCount, LetIn
<1>3. CASE x.blocked /\ ~Door!Quiet(check)
  <2>1. Door!Ends(r, x, 429) /\ UNCHANGED told
    BY <1>3 DEF Door!CheckToken
  <2>2. ~(x.secret = "good" /\ Live)
    BY <1>1, <1>3 DEF Door!Quiet
  <2> QED BY <1>0, <1>2, <2>1, <2>2, EndsKeep DEF MayEnd, Carries, Codes
<1>4. CASE ~(x.blocked /\ ~Door!Quiet(check))
  <2> DEFINE y == [x EXCEPT !.pc = "checked", !.check = check,
                            !.blocked = FALSE]
             tells(k) == /\ Door!Records(check)
                         /\ k = x.address
                            \/ (k = "token" /\ check /= "wrong-secret")
  <2>1. request' = [request EXCEPT ![r] = y] /\ told' = Door!ToldOf(x, check)
    BY <1>4 DEF Door!CheckToken, Door!Goes
  <2>2. \A k \in Door!Keys :
           told'[k] = IF tells(k) THEN told[k] + 1 ELSE told[k]
    BY <2>1, RequestIs DEF Door!ToldOf
  <2>3. told' \in [Door!Keys -> Nat]
    BY <2>1, RequestIs DEF Door!ToldOf
  <2> HIDE DEF check
  <2>4. /\ y \in Callings /\ y.pc = "checked" /\ y.check = check
        /\ y.secret = x.secret /\ y.address = x.address
        /\ y.wronged = x.wronged /\ y.acted = x.acted
        /\ y.allow = x.allow /\ y.deny = x.deny /\ y.good = x.good
    BY <1>0, <1>1 DEF Callings
  <2> HIDE DEF y
  <2>5. Carries(y, Live)
    BY <1>0, <1>1, <2>4 DEF Carries
  <2>6. ASSUME NEW k \in Door!Keys
        PROVE  /\ ~Looked(y, k) /\ (ToCount(y, k) <=> tells(k))
               /\ tells(k) => Looked(x, k)
               /\ LetIn(y, k) => Live
    <3>1. tells(k) => check \notin {"ok", "unknown"}
      BY DEF Door!Records
    <3>2. tells(k) => ~x.blocked
      BY <1>0, <1>4, <3>1 DEF Door!Quiet, Callings
    <3>3. tells(k) => Of(x, k)
      BY <1>1, <3>1 DEF Of
    <3> QED BY <1>0, <1>1, <2>4, <3>2, <3>3 DEF Looked, ToCount, LetIn
  <2> HIDE DEF tells
  <2>7. \A k \in Door!Keys : Tallies(x, y, k)
    BY <1>0, <1>2, <2>2, <2>6 DEF Tallies
  <2> QED BY <1>0, <2>1, <2>3, <2>4, <2>5, <2>7, DoorGoes
<1> QED BY <1>3, <1>4

\* What a step that tells nothing leaves to show.
LEMMA GoesQuietly ==
    ASSUME DoorInv, NEW r \in DoorRequests, NEW y \in Callings,
           request' = [request EXCEPT ![r] = y],
           Carries(y, Live), recent' \in BOOLEAN,
           UNCHANGED <<token, counts, summary, told>>,
           \A k \in Door!Keys :
              /\ ToCount(request[r], k) => ToCount(y, k)
              /\ Looked(y, k) => counts[k] < MaxFailures
              /\ ~Live /\ LetIn(y, k) => LetIn(request[r], k)
    PROVE  DoorInv'
<1>1. \A k \in Door!Keys : Tallies(request[r], y, k)
  BY RequestIs DEF Tallies
<1>2. /\ counts' \in [Door!Keys -> 0..MaxFailures]
      /\ told' \in [Door!Keys -> Nat] /\ SummaryInOrder'
  BY RequestIs DEF SummaryInOrder
<1>3. token' = token
  OBVIOUS
<1> QED BY <1>1, <1>2, <1>3, DoorGoes, Zenon

LEMMA ArriveKeeps ==
    ASSUME DoorInv, NEW r \in DoorRequests, NEW a \in Networks,
           NEW secret \in Door!Secrets, Door!Arrive(r, a, secret)
    PROVE  DoorInv'
<1> DEFINE blocked == \E k \in Door!LooksAt(a, secret) : Door!Blocked(k)
           y == [Door!Idle EXCEPT !.pc = "looked", !.address = a,
                                  !.secret = secret, !.blocked = blocked]
<1>1. /\ request' = [request EXCEPT ![r] = y]
      /\ request[r].pc \in {"idle", "answered"}
      /\ UNCHANGED <<token, counts, recent, summary, told>>
  BY DEF Door!Arrive, Door!Goes
<1>2. blocked \in BOOLEAN
  OBVIOUS
<1>3. ASSUME ~blocked, NEW k \in Door!Keys,
             k = a \/ (k = "token" /\ secret /= "unknown")
      PROVE  counts[k] < MaxFailures
  <2>1. counts[k] /= MaxFailures
    BY <1>3 DEF Door!LooksAt, Door!Blocked
  <2>2. counts[k] \in 0..MaxFailures /\ MaxFailures \in Nat
    BY RequestIs, OneServiceAssumption
  <2> QED BY <2>1, <2>2
<1> HIDE DEF blocked
<1>4. /\ y \in Callings /\ y.pc = "looked" /\ y.address = a
      /\ y.secret = secret /\ y.blocked = blocked /\ ~y.wronged
      /\ y.acted = 0 /\ y.allow = 0 /\ y.deny = 0
  BY <1>2, IdleIs DEF Callings, Door!Secrets
<1> HIDE DEF y
<1>5. Carries(y, Live)
  BY <1>4 DEF Carries
<1>6. ASSUME NEW k \in Door!Keys
      PROVE  /\ ~ToCount(request[r], k) /\ ~LetIn(y, k)
             /\ Looked(y, k) => counts[k] < MaxFailures
  BY <1>1, <1>3, <1>4 DEF ToCount, LetIn, Looked, Of
<1>7. recent' \in BOOLEAN
  BY <1>1, RequestIs
<1> QED BY <1>1, <1>4, <1>5, <1>6, <1>7, GoesQuietly

LEMMA CheckFailsKeeps ==
    ASSUME DoorInv, NEW r \in DoorRequests, Door!CheckFails(r)
    PROVE  DoorInv'
<1>1. /\ Door!Ends(r, request[r], 500) /\ request[r].pc = "looked"
      /\ UNCHANGED <<token, counts, recent, summary, told>>
  BY DEF Door!CheckFails, Door!At
<1>2. SummaryInOrder' /\ recent' \in BOOLEAN
      /\ counts' \in [Door!Keys -> 0..MaxFailures]
      /\ \A k \in Door!Keys : counts[k] <= counts'[k]
  BY <1>1, RequestIs DEF SummaryInOrder
<1>3. \A k \in Door!Keys : ~ToCount(request[r], k)
  BY <1>1 DEF ToCount
<1> QED BY <1>1, <1>2, <1>3, RequestIs, EndsKeep DEF MayEnd, Carries, Codes

LEMMA AdmitKeeps ==
    ASSUME DoorInv, NEW r \in DoorRequests, Door!Admit(r)
    PROVE  DoorInv'
<1> DEFINE x == request[r]
           y == [x EXCEPT !.pc = "reading"]
<1>1. /\ request' = [request EXCEPT ![r] = y] /\ recent' = TRUE
      /\ x.pc = "checked" /\ x.check = "ok"
      /\ UNCHANGED <<token, counts, summary, told>>
  BY DEF Door!Admit, Door!Goes, Door!At
<1>2. x \in Callings /\ Carries(x, Live)
  BY RequestIs
<1>3. /\ y \in Callings /\ y.pc = "reading" /\ y.secret = x.secret
      /\ y.address = x.address /\ y.wronged = x.wronged
      /\ y.acted = x.acted /\ y.allow = x.allow /\ y.deny = x.deny
      /\ y.good = x.good
  BY <1>2 DEF Callings
<1> HIDE DEF y
<1>4. Carries(y, Live)
  BY <1>1, <1>2, <1>3 DEF Carries
<1>5. ASSUME NEW k \in Door!Keys
      PROVE  ~ToCount(x, k) /\ ~Looked(y, k) /\ (LetIn(y, k) => LetIn(x, k))
  BY <1>1, <1>3 DEF ToCount, Looked, LetIn, Of, Door!Records
<1> QED BY <1>1, <1>3, <1>4, <1>5, GoesQuietly

LEMMA RefuseKeeps ==
    ASSUME DoorInv, NEW r \in DoorRequests, Door!Refuse(r)
    PROVE  DoorInv'
<1> DEFINE x == request[r]
           used == Door!StillUsed(x.check)
           ks == Door!CountsTo(x, used)
<1>1. /\ Door!Ends(r, x, 401) /\ x.pc = "checked" /\ Door!Records(x.check)
      /\ counts' = Door!CountedFor(ks) /\ recent' = used
      /\ UNCHANGED <<token, summary, told>>
  BY DEF Door!Refuse, Door!At
<1>2. /\ x \in Callings /\ Carries(x, Live)
      /\ SummaryInOrder /\ recent \in BOOLEAN
  BY RequestIs
<1>3. used \in BOOLEAN /\ (x.check = "over" => ~used)
  BY <1>2 DEF Door!StillUsed
<1>4. ASSUME NEW k \in Door!Keys, ToCount(x, k)
      PROVE  k \in ks
  <2>1. x.check \in {"over", "wrong-secret"}
    BY <1>1, <1>2 DEF Door!Records, Callings
  <2> QED BY <1>1, <1>3, <1>4, <2>1 DEF ToCount, Door!CountsTo
<1>5. ~(x.secret = "good" /\ Live)
  BY <1>1, <1>2 DEF Carries, Door!Records
<1>6. SummaryInOrder' /\ recent' \in BOOLEAN
  BY <1>1, <1>2, <1>3 DEF SummaryInOrder
<1> HIDE DEF ks, used
<1>7. /\ counts' \in [Door!Keys -> 0..MaxFailures]
      /\ \A k \in Door!Keys :
            /\ counts[k] <= counts'[k]
            /\ ToCount(x, k) =>
                  counts[k] < counts'[k] \/ counts'[k] = MaxFailures
  BY <1>1, <1>4, CountsRise
<1> QED BY <1>1, <1>2, <1>5, <1>6, <1>7, EndsKeep DEF MayEnd, Carries, Codes

LEMMA RefuseUnknownKeeps ==
    ASSUME DoorInv, NEW r \in DoorRequests, Door!RefuseUnknown(r)
    PROVE  DoorInv'
<1> DEFINE x == request[r]
           ks == {x.address, "tenant"}
<1>1. /\ Door!Ends(r, x, 401) /\ x.pc = "checked" /\ x.check = "unknown"
      /\ counts' = Door!CountedFor(ks) /\ summary' = Door!Noted
      /\ UNCHANGED <<token, recent, told>>
  BY DEF Door!RefuseUnknown, Door!At
<1>2. /\ x \in Callings /\ Carries(x, Live)
      /\ SummaryInOrder /\ recent \in BOOLEAN
  BY RequestIs
<1>3. \A k \in Door!Keys : ~ToCount(x, k)
  BY <1>1 DEF ToCount, Door!Records
<1>4. ~(x.secret = "good" /\ Live)
  BY <1>1, <1>2 DEF Carries
<1>5. SummaryInOrder'
  <2>1. CASE summary.state /= "open"
    BY <1>1, <1>2, <2>1 DEF Door!Noted, SummaryInOrder
  <2>2. CASE summary.state = "open"
    <3>1. summary' = [summary EXCEPT !.owed = @ + 1, !.pending = @ + 1]
      BY <1>1, <2>2 DEF Door!Noted
    <3>2. /\ summary'.pending = summary.pending + 1
          /\ summary'.owed = summary.owed + 1
          /\ summary'.writing = summary.writing
          /\ summary'.due = summary.due /\ summary'.state = summary.state
      BY <1>2, <3>1 DEF SummaryInOrder, Summaries
    <3>3. summary.owed + 1 \in Nat /\ summary.pending + 1 \in Nat
      BY <1>2 DEF SummaryInOrder, Summaries
    <3>4. summary' \in Summaries
      BY <1>2, <3>1, <3>3 DEF SummaryInOrder, Summaries
    <3> QED BY <1>2, <3>2, <3>4 DEF SummaryInOrder, Summaries
  <2> QED BY <2>1, <2>2
<1>6. recent' \in BOOLEAN
  BY <1>1, <1>2
<1> HIDE DEF ks
<1>7. /\ counts' \in [Door!Keys -> 0..MaxFailures]
      /\ \A k \in Door!Keys : counts[k] <= counts'[k]
  BY <1>1, CountsRise
<1> QED BY <1>1, <1>2, <1>3, <1>4, <1>5, <1>6, <1>7, EndsKeep
  DEF MayEnd, Carries, Codes

LEMMA BeginWorkKeeps ==
    ASSUME DoorInv, NEW r \in DoorRequests, Door!BeginWork(r)
    PROVE  DoorInv'
<1> DEFINE x == request[r]
           check == Door!Checked(x.secret)
           next == IF check = "ok" THEN "working" ELSE "refused"
           y == [x EXCEPT !.tries = @ + 1, !.good = token = "live",
                          !.pc = next]
           tells(k) == Door!Records(check) /\ (k = x.address \/ k = "token")
<1>1. /\ x.pc = "reading" /\ told' = Door!ToldOf(x, check)
      /\ request' = [request EXCEPT ![r] = y]
      /\ UNCHANGED <<token, counts, recent, summary>>
  BY DEF Door!BeginWork, Door!Goes, Door!At, Door!Rechecked
<1>2. x \in Callings /\ Carries(x, Live) /\ x.secret = "good"
  BY <1>1, RequestIs DEF Carries
<1>3. /\ check \in {"ok", "over", "unknown"}
      /\ check = "ok" <=> Live
  BY <1>2 DEF Door!Checked, DoorInv, DoorTyped, Live
<1>4. \A k \in Door!Keys :
         told'[k] = IF tells(k) THEN told[k] + 1 ELSE told[k]
  BY <1>1, <1>3, RequestIs DEF Door!ToldOf
<1>5. told' \in [Door!Keys -> Nat]
  BY <1>1, RequestIs DEF Door!ToldOf
<1> HIDE DEF check
<1>6. /\ y \in Callings /\ y.pc = next /\ y.good = Live
      /\ y.secret = "good" /\ y.address = x.address
      /\ y.wronged = x.wronged /\ y.acted = x.acted
      /\ y.allow = x.allow /\ y.deny = x.deny
  <2>1. next \in {"working", "refused"}
    OBVIOUS
  <2>2. PICK live \in BOOLEAN : live = Live
    BY DEF Live
  <2>3. y = [x EXCEPT !.tries = @ + 1, !.good = live, !.pc = next]
    BY <2>2 DEF Live
  <2> HIDE DEF next, y
  <2>4. x.tries + 1 \in Nat
    BY <1>2 DEF Callings
  <2> QED BY <1>2, <2>1, <2>2, <2>3, <2>4 DEF Callings
<1> HIDE DEF y
<1>7. Carries(y, Live)
  BY <1>1, <1>2, <1>3, <1>6 DEF Carries
<1>8. ASSUME NEW k \in Door!Keys
      PROVE  /\ ~ToCount(x, k) /\ ~Looked(y, k) /\ ~Looked(x, k)
             /\ tells(k) => ToCount(y, k) /\ ~Live /\ LetIn(x, k)
             /\ LetIn(y, k) => Live
  <2>1. tells(k) => ~Live /\ y.pc = "refused"
    BY <1>3, <1>6 DEF Door!Records
  <2>2. tells(k) => Of(x, k) /\ Of(y, k)
    BY <1>2, <1>6 DEF Of
  <2> QED BY <1>1, <1>3, <1>6, <2>1, <2>2 DEF ToCount, Looked, LetIn
<1> HIDE DEF tells
<1>9. \A k \in Door!Keys : Tallies(x, y, k)
  BY <1>1, <1>4, <1>8, RequestIs DEF Tallies
<1>10. /\ SummaryInOrder' /\ recent' \in BOOLEAN /\ token' = token
       /\ counts' \in [Door!Keys -> 0..MaxFailures]
  BY <1>1, RequestIs DEF SummaryInOrder
<1> QED BY <1>1, <1>5, <1>6, <1>7, <1>9, <1>10, DoorGoes

\* What ends a request that counts nothing.
LEMMA EndsQuietly ==
    ASSUME DoorInv, NEW r \in DoorRequests, NEW x, NEW status,
           MayEnd(x, status, Live), Door!Ends(r, x, status),
           request[r].pc \in {"working", "failed"},
           UNCHANGED <<token, counts, recent, summary, told>>
    PROVE  DoorInv'
<1>1. /\ SummaryInOrder' /\ recent' \in BOOLEAN
      /\ counts' \in [Door!Keys -> 0..MaxFailures]
      /\ \A k \in Door!Keys : counts[k] <= counts'[k]
  BY RequestIs DEF SummaryInOrder
<1>2. \A k \in Door!Keys : ~ToCount(request[r], k)
  BY DEF ToCount
<1> QED BY <1>1, <1>2, EndsKeep

LEMMA WorkEndsKeeps ==
    ASSUME DoorInv, NEW r \in DoorRequests,
           \/ Door!WorkDone(r) \/ Door!WorkRefused(r) \/ Door!TellFailure(r)
    PROVE  DoorInv'
<1> DEFINE x == request[r]
<1>1. x \in Callings /\ Carries(x, Live)
  BY RequestIs
<1>2. CASE Door!WorkDone(r)
  <2> DEFINE z == [x EXCEPT !.acted = 1, !.allow = @ + 1]
  <2>1. /\ Door!Ends(r, z, 200) /\ x.pc = "working"
        /\ UNCHANGED <<token, counts, recent, summary, told>>
    BY <1>2 DEF Door!WorkDone, Door!At
  <2>2. /\ x.acted = 0 /\ x.allow = 0 /\ x.deny = 0 /\ x.good
    BY <1>1, <2>1 DEF Carries
  <2>3. /\ z \in Callings /\ z.acted = 1 /\ z.allow = 1 /\ z.deny = 0
        /\ z.good = x.good
    <3>1. z = [x EXCEPT !.acted = 1, !.allow = 1]
      BY <1>1, <2>2 DEF Callings
    <3> HIDE DEF z
    <3> QED BY <1>1, <2>2, <3>1 DEF Callings
  <2> HIDE DEF z
  <2>4. MayEnd(z, 200, Live)
    BY <2>2, <2>3 DEF MayEnd, Codes
  <2> QED BY <2>1, <2>4, EndsQuietly
<1>3. ASSUME NEW status \in {400, 500},
             Door!Ends(r, [x EXCEPT !.deny = @ + 1], status),
             x.pc \in {"working", "failed"},
             UNCHANGED <<token, counts, recent, summary, told>>
      PROVE  DoorInv'
  <2> DEFINE z == [x EXCEPT !.deny = @ + 1]
  <2>1. x.acted = 0 /\ x.allow = 0 /\ x.deny = 0
    BY <1>1, <1>3 DEF Carries
  <2>2. z \in Callings /\ z.acted = 0 /\ z.allow = 0 /\ z.deny = 1
    BY <1>1, <2>1 DEF Callings
  <2> HIDE DEF z
  <2>3. MayEnd(z, status, Live)
    BY <1>3, <2>2 DEF MayEnd, Codes
  <2>4. Door!Ends(r, z, status)
    BY <1>3 DEF z
  <2> QED BY <1>3, <2>3, <2>4, EndsQuietly
<1>4. CASE Door!WorkRefused(r)
  BY <1>3, <1>4 DEF Door!WorkRefused, Door!At, Door!Undone
<1>5. CASE Door!TellFailure(r)
  <2>1. /\ x.pc = "failed"
        /\ UNCHANGED <<token, counts, recent, summary, told>>
        /\ \/ Door!Ends(r, [x EXCEPT !.deny = @ + 1], 500)
           \/ Door!Ends(r, x, 500)
    BY <1>5 DEF Door!TellFailure, Door!At
  <2>2. MayEnd(x, 500, Live)
    BY <1>1, <2>1 DEF MayEnd, Carries, Codes
  <2> QED BY <1>3, <2>1, <2>2, EndsQuietly
<1> QED BY <1>2, <1>4, <1>5

\* Rolled back, it begins again or has failed.
LEMMA RolledBackKeeps ==
    ASSUME DoorInv, NEW r \in DoorRequests,
           \/ Door!WorkConflicts(r) \/ Door!WorkBreaks(r)
    PROVE  DoorInv'
<1> DEFINE x == request[r]
<1>1. x \in Callings /\ Carries(x, Live)
  BY RequestIs
<1>2. PICK next \in {"reading", "failed"} :
         /\ request' = [request EXCEPT ![r] = [x EXCEPT !.pc = next]]
         /\ x.pc = "working"
         /\ UNCHANGED <<token, counts, recent, summary, told>>
  <2>1. CASE Door!WorkConflicts(r)
    BY <2>1 DEF Door!WorkConflicts, Door!Goes, Door!At, Door!RolledBack
  <2>2. CASE Door!WorkBreaks(r)
    BY <2>2 DEF Door!WorkBreaks, Door!Goes, Door!At, Door!RolledBack
  <2> QED BY <2>1, <2>2
<1> DEFINE y == [x EXCEPT !.pc = next]
<1>3. /\ y \in Callings /\ y.pc = next /\ y.secret = x.secret
      /\ y.address = x.address /\ y.wronged = x.wronged
      /\ y.acted = x.acted /\ y.allow = x.allow /\ y.deny = x.deny
      /\ y.good = x.good
  BY <1>1 DEF Callings
<1>4. request' = [request EXCEPT ![r] = y]
  BY <1>2
<1> HIDE DEF y
<1>5. Carries(y, Live)
  BY <1>1, <1>2, <1>3 DEF Carries
<1>6. ASSUME NEW k \in Door!Keys
      PROVE  ~ToCount(x, k) /\ ~Looked(y, k) /\ (LetIn(y, k) => LetIn(x, k))
  BY <1>2, <1>3 DEF ToCount, Looked, LetIn, Of
<1>7. recent' \in BOOLEAN
  BY <1>2, RequestIs
<1> QED BY <1>2, <1>3, <1>4, <1>5, <1>6, <1>7, GoesQuietly

LEMMA RefuseWorkKeeps ==
    ASSUME DoorInv, NEW r \in DoorRequests, Door!RefuseWork(r)
    PROVE  DoorInv'
<1> DEFINE x == request[r]
           ks == {x.address, "token"}
<1>1. /\ Door!Ends(r, x, 401) /\ x.pc = "refused" /\ recent' = FALSE
      /\ counts' = Door!CountedFor(ks)
      /\ UNCHANGED <<token, summary, told>>
  BY DEF Door!RefuseWork, Door!At
<1>2. x \in Callings /\ Carries(x, Live) /\ SummaryInOrder'
  BY <1>1, RequestIs DEF SummaryInOrder
<1>3. \A k \in Door!Keys : ToCount(x, k) => k \in ks
  BY <1>1 DEF ToCount, Of
<1> HIDE DEF ks
<1>4. /\ counts' \in [Door!Keys -> 0..MaxFailures]
      /\ \A k \in Door!Keys :
            /\ counts[k] <= counts'[k]
            /\ ToCount(x, k) =>
                  counts[k] < counts'[k] \/ counts'[k] = MaxFailures
  BY <1>1, <1>3, CountsRise
<1>5. MayEnd(x, 401, Live)
  BY <1>1, <1>2 DEF MayEnd, Carries, Codes
<1> QED BY <1>1, <1>2, <1>4, <1>5, EndsKeep

LEMMA DoorStep ==
    ASSUME DoorInv, [Door!Next]_(Door!vars)
    PROVE  DoorInv'
<1>1. ASSUME NEW r \in DoorRequests, Door!Step(r)
      PROVE  DoorInv'
  BY <1>1, CheckTokenKeeps, CheckFailsKeeps, AdmitKeeps, RefuseKeeps,
     RefuseUnknownKeeps, BeginWorkKeeps, WorkEndsKeeps, RolledBackKeeps,
     RefuseWorkKeeps DEF Door!Step
<1>2. ASSUME NEW k \in Door!Keys, Door!WindowEnds(k)
      PROVE  DoorInv'
  BY <1>2, WindowKeeps
<1>3. ASSUME NEW r \in DoorRequests, NEW a \in Networks,
             NEW secret \in Door!Secrets, Door!Arrive(r, a, secret)
      PROVE  DoorInv'
  BY <1>3, ArriveKeeps
<1>4. CASE UNCHANGED Door!vars
  <2>1. UNCHANGED <<token, counts, recent, summary, request, told>>
    BY <1>4 DEF Door!vars
  <2> QED BY <2>1, RestStays DEF DoorInv, DoorTyped, SummaryInOrder
<1> QED BY <1>1, <1>2, <1>3, <1>4, TokenEndsKeeps, PruneKeeps, SummaryKeeps
    DEF Door!Next

LEMMA DoorHolds ==
    ASSUME DoorInv
    PROVE  /\ Door!TypeOK /\ Door!NeverLockedOut /\ Door!GuessesAreBounded
           /\ Door!EachInOneSummary /\ Door!WorkIsRecorded
<1>1. Door!TypeOK
  <2>1. DoorTyped /\ SummaryInOrder /\ MaxFailures \in Nat
    BY OneServiceAssumption DEF DoorInv
  <2> QED BY <2>1
    DEF Door!TypeOK, DoorTyped, SummaryInOrder, Summaries, Callings
<1>2. Door!NeverLockedOut
  BY DEF DoorInv, Carries, Door!NeverLockedOut
<1>3. Door!EachInOneSummary
  BY DEF DoorInv, SummaryInOrder, Door!EachInOneSummary
<1>4. Door!WorkIsRecorded
  BY DEF DoorInv, Carries, Door!WorkIsRecorded
<1>5. Door!GuessesAreBounded
  <2> SUFFICES ASSUME NEW k \in Door!Keys
               PROVE  told[k] < MaxFailures + Cardinality(DoorRequests)
                                   * (IF token = "live" THEN 1 ELSE 2)
    <3>1. Door!Cardinality(DoorRequests) = Cardinality(DoorRequests)
      BY Zenon DEF Door!Cardinality, Cardinality
    <3> QED BY <3>1 DEF Door!GuessesAreBounded
  <2> DEFINE n == Cardinality(DoorRequests)
  <2>1. told[k] \in Nat /\ n \in Nat /\ MaxFailures \in Nat
    BY DoorFinite, OneServiceAssumption DEF DoorInv, DoorTyped
  <2>2. /\ Cardinality(Looking(request, k)) \in Nat
        /\ Cardinality(Within(request, k)) \in Nat
    BY DoorFinite DEF Looking, Within
  <2>3. /\ Live => told[k] <= MaxFailures - 1 + n
        /\ ~Live => told[k] <= MaxFailures - 1 + 2 * n
    BY <2>1, <2>2 DEF DoorInv, Bounded
  <2> QED BY <2>1, <2>3 DEF Live
<1> QED BY <1>1, <1>2, <1>3, <1>4, <1>5

-----------------------------------------------------------------------------
(* Setting a server up.  The slots, by the names SetUp has for them.        *)

db     == s1
log    == s2
lock   == s3
config == s4
claude == s5
run    == s6
runs   == s7
faults == s8
cut    == s9
added  == s10

USE DEF db, log, lock, config, claude, run, runs, faults, cut, added

\* The commands that take a tenant's id for themselves.
Makers == {"solo", "team", "admin", "serve"}

\* A tenant an init --solo made, and one an init --team did.
WholeAs(t, i) ==
    t.id = i /\ t.pack /\ t.people = {t.name} /\ t.admins = t.people
SoloWhole(i) == \E t \in db : WholeAs(t, i)
HasToken(i)  == \E t \in db : t.id = i /\ t.token

\* A command's own id is no tenant's yet.
Waits(c) ==
    /\ c.cmd \in Makers
    /\ \/ c.at \in {"open", "look"}
       \/ c.cmd = "team" /\ c.at \in {"write", "make"}

HasOpened(at) == at \notin {"idle", "open"}

\* What each command goes through.
InOrder(c) ==
    /\ c.at = "idle" <=> c.cmd = "none"
    /\ c.at = "idle" => c = Making!Idle
    /\ c.cmd = "solo" => c.at \in {"open", "look", "setUp", "write", "load"}
    /\ c.cmd = "team" => c.at \in {"open", "look", "write", "make"}
    /\ c.cmd = "admin" => c.at \in {"open", "look"}
    /\ c.cmd = "serve" => c.at \in {"open", "up"}
    /\ c.cmd = "connect" =>
          c.at \in {"open", "look", "claude", "approve", "link", "record"}
    /\ c.cmd \in {"solo", "admin"} => c.who \in Persons
    /\ c.cmd /= "connect" => c.wrote = {}

InTime(c) == c.tenant <= runs /\ (c.at /= "idle" => c.tenant >= 1)

Shaped ==
    \A p \in Programs :
        /\ InOrder(run[p]) /\ InTime(run[p])
        /\ HasOpened(run[p].at) <=> lock = p

\* No tenant has another's id; one with people or a token is the only such.
DbInOrder ==
    /\ \A t, u \in db : t.id = u.id => t = u
    /\ \A t \in db :
        /\ t.id <= runs /\ (t.token => t.name = "team")
        /\ t.people /= {} => t.name \in Persons
    /\ \A t \in db : t.admins \subseteq t.people
    /\ Making!OneEach

NewOnes ==
    \A p \in Programs : Waits(run[p]) =>
        /\ \A t \in db : t.id /= run[p].tenant
        /\ \A q \in Programs \ {p} :
              run[q].cmd \in Makers => run[q].tenant /= run[p].tenant

\* How far an init has come.
Phase(p) ==
    /\ Making!At(p, "solo", "setUp") =>
          \/ db = {}
          \/ \E t \in db : /\ db = {t} /\ t.id = run[p].tenant
                           /\ Making!Theirs(t, run[p].who)
    /\ run[p].cmd = "solo" /\ run[p].at \in {"write", "load"} =>
          SoloWhole(run[p].tenant)
    /\ Making!At(p, "solo", "load") \/ Making!At(p, "team", "make") =>
          config = Making!Ours(p)
    /\ run[p].cmd = "team" /\ run[p].at \in {"write", "make"} => db = {}
Phases == \A p \in Programs : Phase(p)

ConfigInOrder ==
    /\ config.by = "none" => config = Making!None
    /\ config.by = "solo" => SoloWhole(config.tenant)
    /\ config.by = "team" =>
          /\ config.trust = "none"
          /\ \/ Making!Making \/ config.tenant \in cut
             \/ HasToken(config.tenant)

LogInOrder ==
    \A i \in log :
        /\ SoloWhole(i)
        /\ i \in cut \/ (config.tenant = i /\ config.trust = "commercial")

Written == \E p \in Programs : "config" \in run[p].wrote

Approved ==
    config.trust = "commercial" /\ config.tenant \notin cut /\ ~Written =>
        config.tenant \in log /\ claude.ours

\* A connect writes what it read, and can put it back.
ReadBy(c) ==
    /\ c.raw.by = "solo" /\ c.raw.tenant = c.tenant /\ SoloWhole(c.tenant)
    /\ c.raw.trust = "commercial" /\ c.tenant \notin cut => c.text.ours
    /\ c.text.others = added
WroteClaude(c) ==
    /\ c.at \in {"open", "look", "claude"} => c.wrote = {}
    /\ c.at = "approve" => "config" \notin c.wrote
    /\ c.at \in {"approve", "link", "record"} => claude.ours
    /\ "claude" \in c.wrote =>
          claude.ours /\ ~c.text.ours /\ claude.others = c.text.others
    /\ "claude" \notin c.wrote => claude = c.text
WroteConfig(c) ==
    /\ "config" \in c.wrote =>
          /\ c.raw.trust = "none"
          /\ config = [by |-> "solo", tenant |-> c.tenant,
                       trust |-> "commercial"]
          /\ c.previous.trust = "none" /\ c.previous.by /= "team"
          /\ c.previous.by = "none" => c.previous = Making!None
          /\ c.previous.by = "solo" => SoloWhole(c.previous.tenant)
          /\ log \subseteq cut
    /\ "config" \notin c.wrote =>
          /\ c.raw.trust = "commercial" => config = c.raw
          /\ c.raw.trust = "none" =>
                config.trust = "none" /\ config.by /= "team"
Connects(c) == ReadBy(c) /\ WroteClaude(c) /\ WroteConfig(c)
OneConnects ==
    \A p, q \in Programs :
        run[p].cmd = "connect" /\ run[q].cmd = "connect" => p = q
ConnectsInOrder ==
    /\ \A p \in Programs : run[p].cmd = "connect" => Connects(run[p])
    /\ OneConnects
    /\ claude.others = added

SetUpInv ==
    /\ Making!TypeOK /\ Shaped /\ DbInOrder /\ NewOnes /\ Phases
    /\ ConfigInOrder /\ LogInOrder /\ Approved /\ ConnectsInOrder

-----------------------------------------------------------------------------
(* One program goes on to c; what the files hold of others stays.           *)

Turns(p, c) ==
    /\ c \in Making!Runs /\ run' \in [Programs -> Making!Runs]
    /\ run'[p] = c
    /\ \A q \in Programs \ {p} : run'[q] = run[q]
Locks(p, c) ==
    /\ lock' \in Programs \cup {Making!Free}
    /\ HasOpened(c.at) <=> lock' = p
    /\ \A q \in Programs \ {p} : lock' = q <=> lock = q
Steady ==
    \A i \in Nat :
        /\ SoloWhole(i) => SoloWhole(i)'
        /\ HasToken(i) => HasToken(i)'

\* Only a maker takes an id for a tenant, and only its own.
Names(p, c) ==
    /\ \A t \in db' : \/ \E u \in db : u.id = t.id
                      \/ t.id = run[p].tenant /\ run[p].cmd \in Makers
    /\ Waits(c) =>
          Waits(run[p]) /\ c.tenant = run[p].tenant /\ db' = db
    /\ c.cmd \in Makers =>
          /\ run[p].cmd \in Makers
          /\ c.tenant = run[p].tenant \/ \E u \in db : u.id = c.tenant

LEMMA RowIs ==
    ASSUME NEW c, c \in Making!Runs
    PROVE  /\ c.at \in Making!Steps /\ c.who \in Persons \cup {"team"}
           /\ c.cmd \in {"none", "solo", "team", "admin", "connect", "serve"}
           /\ c.tenant \in 0..MaxRuns /\ c.raw \in Making!Configs
           /\ c.text \in Making!ClaudeConfigs
           /\ c.previous \in Making!Configs
           /\ c.wrote \in SUBSET {"claude", "config"}
BY DEF Making!Runs

LEMMA SameSteady == ASSUME db \subseteq db' PROVE Steady
BY DEF Steady, SoloWhole, HasToken

LEMMA ShapedStays ==
    ASSUME Making!TypeOK, Shaped, NEW p \in Programs, NEW c, Turns(p, c),
           Locks(p, c), runs' = runs, InOrder(c), InTime(c)
    PROVE  Shaped'
<1>1. InOrder(run[p])' /\ InTime(run[p])'
  BY DEF Turns, InTime
<1>2. ASSUME NEW q \in Programs \ {p}
      PROVE  /\ InOrder(run[q])' /\ InTime(run[q])'
             /\ HasOpened(run[q].at)' <=> lock' = q
  <2>1. run'[q] = run[q] /\ (lock' = q <=> lock = q)
    BY <1>2 DEF Turns, Locks
  <2> QED BY <1>2, <2>1 DEF Shaped, InTime
<1>3. HasOpened(run[p].at)' <=> lock' = p
  BY DEF Turns, Locks
<1> QED BY <1>1, <1>2, <1>3 DEF Shaped

LEMMA NewStays ==
    ASSUME SetUpInv, NEW p \in Programs, NEW c, Turns(p, c),
           Names(p, c)
    PROVE  NewOnes'
<1>1. ASSUME NEW q \in Programs, Waits(run'[q]), NEW t \in db'
      PROVE  t.id /= run'[q].tenant
  <2>1. CASE q = p
    BY <1>1, <2>1 DEF Names, Turns, SetUpInv, NewOnes
  <2>2. CASE q /= p
    BY <1>1, <2>2 DEF Names, Turns, SetUpInv, NewOnes
  <2> QED BY <2>1, <2>2
<1>2. ASSUME NEW q \in Programs, Waits(run'[q]), NEW z \in Programs \ {q},
             run'[z].cmd \in Makers
      PROVE  run'[z].tenant /= run'[q].tenant
  <2>1. CASE q = p
    BY <1>2, <2>1 DEF Names, Turns, SetUpInv, NewOnes
  <2>2. CASE q /= p /\ z = p
    BY <1>2, <2>2 DEF Names, Turns, SetUpInv, NewOnes
  <2>3. CASE q /= p /\ z /= p
    BY <1>2, <2>3 DEF Names, Turns, SetUpInv, NewOnes
  <2> QED BY <2>1, <2>2, <2>3
<1> QED BY <1>1, <1>2 DEF NewOnes

\* While one has the database open, no other has come anywhere.
LEMMA PhasesStay ==
    ASSUME SetUpInv, NEW p \in Programs, NEW c, Turns(p, c),
           lock = p \/ (db' = db /\ config' = config), Phase(p)'
    PROVE  Phases'
<1>1. ASSUME NEW q \in Programs \ {p} PROVE Phase(q)'
  <2>1. run'[q] = run[q]
    BY <1>1 DEF Turns
  <2>2. CASE lock = p
    <3>1. ~HasOpened(run[q].at)
      BY <1>1, <2>2 DEF SetUpInv, Shaped
    <3> QED BY <2>1, <3>1 DEF Phase, HasOpened, Making!At
  <2>3. CASE db' = db /\ config' = config
    BY <1>1, <2>1, <2>3 DEF SetUpInv, Phases, Phase, SoloWhole, Making!At,
       Making!Ours
  <2> QED BY <2>2, <2>3
<1> QED BY <1>1 DEF Phases

\* An init changes config.json beside a connect only by taking its own away.
ConfigKeeps ==
    \/ config' = config
    \/ /\ config.trust = "none" /\ config'.trust = "none"
       /\ config'.by /= "team" \/ db = {}

LEMMA ConnectsStay ==
    ASSUME SetUpInv, NEW p \in Programs, NEW c, Turns(p, c), Steady,
           run[p].cmd /= "connect", c.cmd /= "connect", cut \subseteq cut',
           claude' = claude, added' = added, log' = log, ConfigKeeps
    PROVE  ConnectsInOrder'
<1>1. ASSUME NEW q \in Programs, run'[q].cmd = "connect"
      PROVE  Connects(run[q])'
  <2> DEFINE x == run[q]
  <2>1. q /= p /\ run'[q] = x /\ x.cmd = "connect"
    BY <1>1 DEF Turns
  <2>2. Connects(x)
    BY <2>1 DEF SetUpInv, ConnectsInOrder
  <2>3. x \in Making!Runs
    BY DEF SetUpInv, Making!TypeOK
  <2>4. x.tenant \in Nat /\ x.previous.tenant \in Nat
    BY <2>3, RowIs, OneServiceAssumption DEF Making!Configs
  <2> HIDE DEF x
  <2>5. ReadBy(x)'
    BY <2>1, <2>2, <2>4 DEF Connects, ReadBy, Steady, x
  <2>6. WroteClaude(x)'
    BY <2>1, <2>2 DEF Connects, WroteClaude, x
  <2>7. db /= {}
    BY <2>2 DEF Connects, ReadBy, SoloWhole
  <2>8. WroteConfig(x)'
    <3>1. CASE "config" \in x.wrote
      <4>1. config.trust = "commercial"
        BY <2>2, <3>1 DEF Connects, WroteConfig
      <4>2. config' = config
        BY <4>1 DEF ConfigKeeps
      <4> QED BY <2>1, <2>2, <2>4, <3>1, <4>2
          DEF Connects, WroteConfig, Steady, x
    <3>2. CASE "config" \notin x.wrote
      BY <2>1, <2>2, <2>7, <3>2
      DEF Connects, WroteConfig, ConfigKeeps, x
    <3> QED BY <3>1, <3>2
  <2> QED BY <2>5, <2>6, <2>8 DEF Connects, x
<1>2. OneConnects'
  BY DEF Turns, SetUpInv, ConnectsInOrder, OneConnects
<1>3. claude'.others = added'
  BY DEF SetUpInv, ConnectsInOrder
<1> QED BY <1>1, <1>2, <1>3 DEF ConnectsInOrder

LEMMA LogStays ==
    ASSUME SetUpInv, Steady, cut \subseteq cut', log' = log, ConfigKeeps
    PROVE  LogInOrder'
<1>1. ASSUME NEW i \in log'
      PROVE  /\ SoloWhole(i)'
             /\ i \in cut' \/ (config'.tenant = i
                                /\ config'.trust = "commercial")
  <2>1. i \in Nat
    BY <1>1, OneServiceAssumption
    DEF SetUpInv, Making!TypeOK, Making!TenantIds
  <2> QED BY <1>1, <2>1 DEF SetUpInv, LogInOrder, Steady, ConfigKeeps
<1> QED BY <1>1 DEF LogInOrder

LEMMA ApprovedStays ==
    ASSUME SetUpInv, NEW p \in Programs, NEW c, Turns(p, c),
           run[p].cmd /= "connect", InOrder(c), c.cmd /= "connect",
           cut \subseteq cut', claude' = claude, log' = log, ConfigKeeps
    PROVE  Approved'
<1>1. Written => Written'
  <2>1. "config" \notin run[p].wrote
    BY DEF SetUpInv, Shaped, InOrder
  <2> QED BY <2>1 DEF Turns, Written
<1> QED BY <1>1 DEF SetUpInv, Approved, ConfigKeeps

\* What is common to the steps of a command that isn't connect.
MakerStep(p, c) ==
    /\ p \in Programs /\ Turns(p, c) /\ Locks(p, c) /\ Steady
    /\ run[p].cmd /= "connect" /\ c.cmd /= "connect"
    /\ InOrder(c) /\ InTime(c) /\ Names(p, c)
    /\ cut \subseteq cut' /\ ConfigKeeps
    /\ UNCHANGED <<claude, added, log, runs>>
    /\ lock = p \/ (db' = db /\ config' = config)

LEMMA MakerGoes ==
    ASSUME SetUpInv, NEW p, NEW c, MakerStep(p, c), Making!TypeOK', Phase(p)',
           DbInOrder', ConfigInOrder'
    PROVE  SetUpInv'
<1> p \in Programs /\ Turns(p, c) /\ Locks(p, c) /\ Steady
  BY DEF MakerStep
<1>1. Shaped'
  BY ShapedStays DEF MakerStep, SetUpInv
<1>2. NewOnes'
  BY NewStays DEF MakerStep
<1>3. Phases'
  BY PhasesStay DEF MakerStep
<1>4. LogInOrder'
  BY LogStays DEF MakerStep
<1>5. Approved'
  BY ApprovedStays DEF MakerStep
<1>6. ConnectsInOrder'
  BY ConnectsStay DEF MakerStep
<1> QED BY <1>1, <1>2, <1>3, <1>4, <1>5, <1>6 DEF SetUpInv

-----------------------------------------------------------------------------
(* How a command goes on.                                                   *)

Moved(r, at) == [r EXCEPT !.at = at]

LEMMA MovedIs ==
    ASSUME NEW r \in Making!Runs, NEW at \in Making!Steps
    PROVE  LET c == Moved(r, at)
           IN  /\ c \in Making!Runs /\ c.at = at /\ c.cmd = r.cmd
               /\ c.who = r.who /\ c.tenant = r.tenant /\ c.raw = r.raw
               /\ c.text = r.text /\ c.previous = r.previous
               /\ c.wrote = r.wrote
BY DEF Moved, Making!Runs

LEMMA IdlesAre ==
    LET c == Making!Idle
    IN  /\ c \in Making!Runs /\ c.at = "idle" /\ c.cmd = "none"
        /\ c.tenant = 0 /\ c.wrote = {} /\ ~HasOpened(c.at) /\ ~Waits(c)
        /\ c.cmd \notin Makers
BY OneServiceAssumption DEF Making!Idle, Making!Runs, Making!Configs,
   Making!None, Making!NoText, Making!ClaudeConfigs, Making!Steps,
   HasOpened, Waits, Makers

LEMMA RowsTurn ==
    ASSUME SetUpInv, NEW p \in Programs, NEW c \in Making!Runs,
           run' = [run EXCEPT ![p] = c]
    PROVE  Turns(p, c)
BY DEF SetUpInv, Making!TypeOK, Turns

LEMMA OverGoes ==
    ASSUME SetUpInv, NEW p \in Programs, Making!Over(p), runs' = runs
    PROVE  /\ Turns(p, Making!Idle) /\ Locks(p, Making!Idle)
           /\ InOrder(Making!Idle) /\ InTime(Making!Idle)
<1>1. Making!Idle \in Making!Runs
  BY IdlesAre
<1>2. run' = [run EXCEPT ![p] = Making!Idle]
  BY DEF Making!Over
<1>3. Turns(p, Making!Idle)
  BY <1>1, <1>2, RowsTurn
<1>4. Locks(p, Making!Idle)
  <2>1. lock' = IF lock = p THEN Making!Free ELSE lock
    BY DEF Making!Over
  <2>2. Making!Free \notin Programs /\ lock \in Programs \cup {Making!Free}
    BY OneServiceAssumption DEF Making!Free, SetUpInv, Making!TypeOK
  <2>3. ~HasOpened(Making!Idle.at)
    BY IdlesAre
  <2> QED BY <2>1, <2>2, <2>3 DEF Locks
<1>5. InTime(Making!Idle)
  BY IdlesAre, OneServiceAssumption DEF InTime, SetUpInv, Making!TypeOK
<1>6. InOrder(Making!Idle)
  BY IdlesAre DEF InOrder, Making!Idle
<1> QED BY <1>3, <1>4, <1>5, <1>6

\* One that has the database open, or opens it, goes on, and keeps it.
LEMMA ToGoes ==
    ASSUME SetUpInv, NEW p \in Programs, NEW at \in Making!Steps,
           HasOpened(at), Making!To(p, at), lock' = p,
           lock \in {p, Making!Free}
    PROVE  LET c == Moved(run[p], at)
           IN  Turns(p, c) /\ Locks(p, c)
<1> DEFINE c == Moved(run[p], at)
<1>1. run[p] \in Making!Runs
  BY DEF SetUpInv, Making!TypeOK
<1>2. c \in Making!Runs /\ c.at = at
  BY <1>1, MovedIs
<1>3. run' = [run EXCEPT ![p] = c]
  BY DEF Making!To, Moved
<1>4. Turns(p, c)
  BY <1>2, <1>3, RowsTurn
<1>5. Making!Free \notin Programs
  BY OneServiceAssumption DEF Making!Free
<1>6. Locks(p, c)
  BY <1>2, <1>5 DEF Locks
<1> QED BY <1>4, <1>6

\* A maker goes on, and no more is written.
Quiet == UNCHANGED <<db, log, config, claude, runs, added>>
Bounds == faults' \in 0..MaxSetUpFaults /\ cut' \subseteq Making!TenantIds

LEMMA QuietTyped ==
    ASSUME SetUpInv, NEW p, NEW c, Turns(p, c), Locks(p, c), Quiet, Bounds
    PROVE  Making!TypeOK'
BY DEF SetUpInv, Making!TypeOK, Quiet, Bounds, Turns, Locks

LEMMA ConfigStays ==
    ASSUME SetUpInv, NEW p \in Programs, NEW c, Turns(p, c), Steady,
           cut \subseteq cut', config' = config,
           Making!At(p, "team", "make") =>
               \/ c.cmd = "team" /\ c.at = "make"
               \/ run[p].tenant \in cut'
    PROVE  ConfigInOrder'
<1>1. Making!Making => Making!Making' \/ config.tenant \in cut'
  <2>1. ASSUME NEW q \in Programs, Making!At(q, "team", "make")
        PROVE  Making!Making' \/ config.tenant \in cut'
    <3>1. CASE q = p /\ run[p].tenant \in cut'
      <4>1. config = Making!Ours(p)
        BY <2>1, <3>1 DEF SetUpInv, Phases, Phase
      <4> QED BY <3>1, <4>1 DEF Making!Ours
    <3>2. CASE q = p /\ c.cmd = "team" /\ c.at = "make"
      BY <3>2 DEF Turns, Making!Making, Making!At
    <3>3. CASE q /= p
      BY <2>1, <3>3 DEF Turns, Making!Making, Making!At
    <3> QED BY <2>1, <3>1, <3>2, <3>3
  <2> QED BY <2>1 DEF Making!Making
<1>2. config' = config /\ config.tenant \in Nat
  BY OneServiceAssumption
  DEF SetUpInv, Making!TypeOK, Making!Configs
<1> QED BY <1>1, <1>2 DEF SetUpInv, ConfigInOrder, Steady

LEMMA QuietKeeps ==
    ASSUME SetUpInv, NEW p \in Programs, NEW c, Turns(p, c), Locks(p, c),
           Quiet, Bounds, cut \subseteq cut', run[p].cmd /= "connect",
           c.cmd /= "connect", InOrder(c), InTime(c), Names(p, c), Phase(p)',
           Making!At(p, "team", "make") =>
               \/ c.cmd = "team" /\ c.at = "make"
               \/ run[p].tenant \in cut'
    PROVE  SetUpInv'
<1>1. Making!TypeOK'
  BY QuietTyped
<1>2. Steady
  BY SameSteady DEF Quiet
<1>3. MakerStep(p, c)
  BY <1>2 DEF MakerStep, Quiet, ConfigKeeps
<1>4. DbInOrder'
  BY DEF SetUpInv, DbInOrder, Quiet, Making!OneEach
<1>5. ConfigInOrder'
  BY <1>2, ConfigStays DEF Quiet
<1> QED BY <1>1, <1>3, <1>4, <1>5, MakerGoes

\* One that isn't a connect is over, and has changed nothing by that.
LEMMA QuietlyOver ==
    ASSUME SetUpInv, NEW p \in Programs, Making!Over(p), Quiet, Bounds,
           cut \subseteq cut', run[p].cmd /= "connect",
           Making!At(p, "team", "make") => run[p].tenant \in cut'
    PROVE  SetUpInv'
<1> DEFINE c == Making!Idle
<1>1. /\ Turns(p, c) /\ Locks(p, c) /\ InOrder(c) /\ InTime(c)
  BY OverGoes DEF Quiet
<1>2. c.cmd = "none" /\ ~Waits(c) /\ c.cmd \notin Makers
  BY IdlesAre
<1> HIDE DEF c
<1>3. Names(p, c)
  BY <1>2 DEF Names, Quiet
<1>4. Phase(p)'
  BY <1>1, <1>2 DEF Turns, Phase, Making!At
<1> QED BY <1>1, <1>2, <1>3, <1>4, QuietKeeps

LEMMA QuietlyOn ==
    ASSUME SetUpInv, NEW p \in Programs, NEW at \in Making!Steps,
           run[p].at /= "idle", HasOpened(at), Making!To(p, at), lock' = p,
           lock \in {p, Making!Free}, Quiet, UNCHANGED <<faults, cut>>,
           run[p].cmd /= "connect", InOrder(Moved(run[p], at)),
           Waits(Moved(run[p], at)) => Waits(run[p]), Phase(p)',
           ~Making!At(p, "team", "make")
    PROVE  SetUpInv'
<1> DEFINE c == Moved(run[p], at)
<1>1. Turns(p, c) /\ Locks(p, c)
  BY ToGoes
<1>2. run[p] \in Making!Runs
  BY DEF SetUpInv, Making!TypeOK
<1>3. c.cmd = run[p].cmd /\ c.tenant = run[p].tenant
  BY <1>2, MovedIs
<1> HIDE DEF c
<1>4. InTime(c)
  <2>1. InTime(run[p])
    BY DEF SetUpInv, Shaped
  <2> QED BY <1>3, <2>1 DEF InTime
<1>5. Names(p, c)
  BY <1>3 DEF Names, Quiet, c
<1>6. Bounds
  BY DEF Bounds, SetUpInv, Making!TypeOK
<1>7. InOrder(c)
  BY DEF c
<1> QED BY <1>1, <1>3, <1>4, <1>5, <1>6, <1>7, QuietKeeps

-----------------------------------------------------------------------------
(* What each init, the server and an admin's command do.                    *)

LEMMA OpenKeeps ==
    ASSUME SetUpInv, NEW p \in Programs, Making!Open(p),
           run[p].cmd /= "connect"
    PROVE  SetUpInv'
<1>1. Quiet /\ UNCHANGED <<faults, cut>> /\ Bounds
  BY DEF Making!Open, Quiet, Bounds, SetUpInv, Making!TypeOK
<1>2. run[p].at = "open" /\ ~Making!At(p, "team", "make")
  BY DEF Making!Open, Making!At
<1>3. run[p] \in Making!Runs /\ InOrder(run[p])
  BY DEF SetUpInv, Making!TypeOK, Shaped
<1>4. CASE lock = Making!Free
  <2>1. PICK at \in {"up", "look"} :
          /\ Making!To(p, at) /\ lock' = p
          /\ at = "up" <=> run[p].cmd = "serve"
    BY <1>4 DEF Making!Open
  <2>2. at \in Making!Steps /\ HasOpened(at)
    BY DEF Making!Steps, HasOpened
  <2> DEFINE c == Moved(run[p], at)
  <2>3. /\ c.at = at /\ c.cmd = run[p].cmd /\ c.who = run[p].who
        /\ c.wrote = run[p].wrote
    BY <1>3, <2>2, MovedIs
  <2>4. Turns(p, c)
    BY <1>4, <2>1, <2>2, ToGoes
  <2> HIDE DEF c
  <2>5. run[p].cmd /= "none"
    BY <1>2, <1>3 DEF InOrder
  <2>6. InOrder(c)
    BY <1>2, <1>3, <2>1, <2>3, <2>5 DEF InOrder
  <2>7. Waits(c) => Waits(run[p])
    BY <1>2, <2>1, <2>3 DEF Waits
  <2>8. Phase(p)'
    BY <2>1, <2>3, <2>4 DEF Turns, Phase, Making!At
  <2> QED BY <1>1, <1>2, <1>4, <2>1, <2>2, <2>6, <2>7, <2>8, QuietlyOn DEF c
<1>5. CASE lock /= Making!Free
  BY <1>1, <1>2, <1>5, QuietlyOver DEF Making!Open
<1> QED BY <1>4, <1>5

LEMMA ServeKeeps ==
    ASSUME SetUpInv, NEW p \in Programs, Making!Serve(p)
    PROVE  SetUpInv'
<1>1. Quiet /\ UNCHANGED <<faults, cut>> /\ Bounds
  BY DEF Making!Serve, Quiet, Bounds, SetUpInv, Making!TypeOK
<1> QED BY <1>1, QuietlyOver DEF Making!Serve, Making!At

LEMMA CrashOfMaker ==
    ASSUME SetUpInv, NEW p \in Programs, Making!Crash(p),
           run[p].cmd /= "connect"
    PROVE  SetUpInv'
<1>1. Quiet
  BY DEF Making!Crash, Quiet
<1>2. faults' \in 0..MaxSetUpFaults
  BY OneServiceAssumption
  DEF Making!Crash, Making!Fails, SetUpInv, Making!TypeOK
<1>3. run[p].tenant \in Making!TenantIds
  <2>1. run[p] \in Making!Runs /\ InTime(run[p]) /\ run[p].at /= "idle"
    BY DEF SetUpInv, Making!TypeOK, Shaped, Making!Crash
  <2>2. run[p].tenant \in 0..MaxRuns
    BY <2>1, RowIs
  <2> QED BY <2>1, <2>2, OneServiceAssumption DEF InTime, Making!TenantIds
<1>4. cut' \subseteq Making!TenantIds /\ cut \subseteq cut'
  BY <1>3 DEF Making!Crash, SetUpInv, Making!TypeOK
<1>5. Making!At(p, "team", "make") => run[p].tenant \in cut'
  BY DEF Making!Crash
<1> QED BY <1>1, <1>2, <1>4, <1>5, QuietlyOver DEF Making!Crash, Bounds

\* One that has the database open writes: it is over with that, or goes on.
Takes(p) ==
    \A t \in db' : \/ \E u \in db : u.id = t.id
                   \/ t.id = run[p].tenant /\ run[p].cmd \in Makers
MakerWrites(p) ==
    /\ lock = p /\ run[p].cmd /= "connect"
    /\ UNCHANGED <<log, claude, runs, added, cut>>
    /\ faults' \in 0..MaxSetUpFaults
    /\ db' \in SUBSET Making!Tenants /\ config' \in Making!Configs
    /\ Steady /\ ConfigKeeps /\ Takes(p)

LEMMA WritesTyped ==
    ASSUME SetUpInv, NEW p, NEW c, MakerWrites(p), Turns(p, c), Locks(p, c)
    PROVE  Making!TypeOK'
BY DEF SetUpInv, Making!TypeOK, MakerWrites, Turns, Locks

LEMMA WritesLast ==
    ASSUME SetUpInv, NEW p \in Programs, Making!Over(p), MakerWrites(p),
           DbInOrder', ConfigInOrder'
    PROVE  SetUpInv'
<1> DEFINE c == Making!Idle
<1>1. /\ Turns(p, c) /\ Locks(p, c) /\ InOrder(c) /\ InTime(c)
  BY OverGoes DEF MakerWrites
<1>2. c.cmd = "none" /\ ~Waits(c) /\ c.cmd \notin Makers
  BY IdlesAre
<1> HIDE DEF c
<1>3. Names(p, c)
  BY <1>2 DEF Names, MakerWrites, Takes
<1>4. Phase(p)'
  BY <1>1, <1>2 DEF Turns, Phase, Making!At
<1>5. MakerStep(p, c)
  BY <1>1, <1>2, <1>3 DEF MakerStep, MakerWrites
<1>6. Making!TypeOK'
  BY <1>1, WritesTyped
<1> QED BY <1>4, <1>5, <1>6, MakerGoes

LEMMA WritesOn ==
    ASSUME SetUpInv, NEW p \in Programs, NEW at \in Making!Steps,
           HasOpened(at), Making!To(p, at), lock' = lock, MakerWrites(p),
           InOrder(Moved(run[p], at)),
           Waits(Moved(run[p], at)) => Waits(run[p]) /\ db' = db,
           Phase(p)', DbInOrder', ConfigInOrder'
    PROVE  SetUpInv'
<1> DEFINE c == Moved(run[p], at)
<1>1. Turns(p, c) /\ Locks(p, c)
  BY ToGoes DEF MakerWrites
<1>2. run[p] \in Making!Runs /\ InTime(run[p]) /\ run[p].at /= "idle"
  BY DEF SetUpInv, Making!TypeOK, Shaped, MakerWrites, HasOpened
<1>3. c.cmd = run[p].cmd /\ c.tenant = run[p].tenant
  BY <1>2, MovedIs
<1>4. InOrder(c)
  OBVIOUS
<1>5. Waits(c) => Waits(run[p]) /\ db' = db
  OBVIOUS
<1> HIDE DEF c
<1>6. InTime(c)
  BY <1>2, <1>3 DEF InTime
<1>7. Names(p, c)
  BY <1>3, <1>5 DEF Names, MakerWrites, Takes
<1>8. MakerStep(p, c)
  BY <1>1, <1>3, <1>4, <1>6, <1>7 DEF MakerStep, MakerWrites
<1>9. Making!TypeOK'
  BY <1>1, WritesTyped
<1> QED BY <1>8, <1>9, MakerGoes

LEMMA OwnId ==
    ASSUME SetUpInv, NEW p \in Programs, run[p].at /= "idle"
    PROVE  /\ run[p] \in Making!Runs /\ InOrder(run[p])
           /\ run[p].tenant \in Making!TenantIds /\ run[p].tenant <= runs
<1>1. run[p] \in Making!Runs /\ InTime(run[p]) /\ InOrder(run[p])
  BY DEF SetUpInv, Making!TypeOK, Shaped
<1>2. run[p].tenant \in 0..MaxRuns
  BY <1>1, RowIs
<1> QED BY <1>1, <1>2, OneServiceAssumption DEF InTime, Making!TenantIds

LEMMA HoldsLock ==
    ASSUME SetUpInv, NEW p \in Programs, run[p].at \notin {"idle", "open"}
    PROVE  lock = p
BY DEF SetUpInv, Shaped, HasOpened

LEMMA tenantCreateKeeps ==
    ASSUME SetUpInv, NEW p \in Programs, Making!tenantCreate(p)
    PROVE  SetUpInv'
<1> DEFINE i == run[p].tenant
           e == Making!Empty(i, run[p].who, FALSE)
<1>1. /\ run[p].cmd = "admin" /\ run[p].at = "look"
      /\ Making!Over(p) /\ db' = db \cup {e}
      /\ UNCHANGED <<log, config, claude, runs, faults, cut, added>>
  BY DEF Making!tenantCreate, Making!At
<1>2. i \in Making!TenantIds /\ i <= runs /\ run[p].who \in Persons
  BY <1>1, OwnId DEF InOrder
<1>3. /\ e \in Making!Tenants /\ e.id = i /\ e.name = run[p].who
      /\ e.people = {} /\ e.admins = {} /\ ~e.token
  <2>1. run[p].who \in Persons \cup {"team"}
    BY <1>2
  <2> HIDE DEF i
  <2> QED BY <1>2, <2>1 DEF Making!Empty, Making!Tenants
<1>4. \A t \in db : t.id /= i
  BY <1>1 DEF SetUpInv, NewOnes, Waits, Makers
<1> HIDE DEF e
<1>5. Steady
  BY <1>1, SameSteady
<1>6. MakerWrites(p)
  <2>1. lock = p
    BY <1>1, HoldsLock
  <2>2. Takes(p)
    BY <1>1, <1>3 DEF Takes, Makers
  <2>3. /\ db' \in SUBSET Making!Tenants /\ config' \in Making!Configs
        /\ faults' \in 0..MaxSetUpFaults
    BY <1>1, <1>3 DEF SetUpInv, Making!TypeOK
  <2> QED BY <1>1, <1>5, <2>1, <2>2, <2>3 DEF MakerWrites, ConfigKeeps
<1>7. DbInOrder'
  <2>1. Making!OneEach'
    <3>1. ASSUME NEW t \in db'
          PROVE  /\ t.people \subseteq {t.name}
                 /\ t.people /= {} \/ t.token
                       => \A u \in db' \ {t} : u.people = {} /\ ~u.token
      BY <1>1, <1>3, <3>1 DEF SetUpInv, DbInOrder, Making!OneEach
    <3> QED BY <3>1 DEF Making!OneEach
  <2> QED BY <1>1, <1>2, <1>3, <1>4, <2>1 DEF SetUpInv, DbInOrder
<1>8. ConfigInOrder'
  <2>1. Turns(p, Making!Idle)
    BY <1>1, OverGoes
  <2> QED BY <1>1, <1>5, <2>1, ConfigStays DEF Making!At
<1> QED BY <1>1, <1>6, <1>7, <1>8, WritesLast

LEMMA TenantsSame ==
    ASSUME SetUpInv, db' = db, runs' = runs PROVE DbInOrder'
BY DEF SetUpInv, DbInOrder, Making!OneEach

\* init --solo.
Found(r, i) == [r EXCEPT !.at = "setUp", !.tenant = i]

LEMMA FoundIs ==
    ASSUME NEW r \in Making!Runs, NEW i \in Making!TenantIds
    PROVE  LET c == Found(r, i)
           IN  /\ c \in Making!Runs /\ c.at = "setUp" /\ c.cmd = r.cmd
               /\ c.who = r.who /\ c.tenant = i /\ c.wrote = r.wrote
<1>1. i \in 0..MaxRuns
  BY OneServiceAssumption DEF Making!TenantIds
<1> QED BY <1>1 DEF Found, Making!Runs, Making!Steps

LEMMA LookKeeps ==
    ASSUME SetUpInv, NEW p \in Programs, Making!Look(p)
    PROVE  SetUpInv'
<1>1. run[p].cmd = "solo" /\ run[p].at = "look"
  BY DEF Making!Look, Making!At
<1>2. Quiet /\ UNCHANGED <<faults, cut>> /\ Bounds
  BY DEF Making!Look, Quiet, Bounds, SetUpInv, Making!TypeOK
<1>3. run[p] \in Making!Runs /\ lock = p /\ InOrder(run[p])
  BY <1>1, OwnId, HoldsLock
<1>4. CASE /\ db = {} /\ Making!To(p, "setUp") /\ lock' = lock
  <2> DEFINE c == Moved(run[p], "setUp")
  <2>1. "setUp" \in Making!Steps /\ HasOpened("setUp")
    BY DEF Making!Steps, HasOpened
  <2>2. /\ c.at = "setUp" /\ c.cmd = "solo" /\ c.who = run[p].who
        /\ c.wrote = run[p].wrote
    BY <1>1, <1>3, <2>1, MovedIs
  <2>3. Turns(p, c)
    BY <1>3, <1>4, <2>1, ToGoes
  <2> HIDE DEF c
  <2>4. InOrder(c) /\ ~Waits(c)
    BY <1>1, <1>3, <2>2 DEF InOrder, Waits
  <2>5. Phase(p)'
    BY <1>2, <1>4, <2>2, <2>3 DEF Quiet, Turns, Phase, Making!At
  <2> QED BY <1>1, <1>2, <1>3, <1>4, <2>1, <2>4, <2>5, QuietlyOn
      DEF c, Making!At
<1>5. ASSUME NEW t \in db, db = {t}, Making!Theirs(t, run[p].who),
             run' = [run EXCEPT ![p].at = "setUp", ![p].tenant = t.id],
             lock' = lock
      PROVE  SetUpInv'
  <2> DEFINE c == Found(run[p], t.id)
  <2>1. t.id \in Making!TenantIds /\ t.id <= runs /\ t.id >= 1
    <3>1. t \in Making!Tenants
      BY DEF SetUpInv, Making!TypeOK
    <3> QED BY <3>1, OneServiceAssumption
        DEF SetUpInv, DbInOrder, Making!Tenants, Making!TenantIds
  <2>2. /\ c \in Making!Runs /\ c.at = "setUp" /\ c.cmd = "solo"
        /\ c.who = run[p].who /\ c.tenant = t.id /\ c.wrote = run[p].wrote
    BY <1>1, <1>3, <2>1, FoundIs
  <2>3. run' = [run EXCEPT ![p] = c]
    BY <1>5 DEF Found
  <2> HIDE DEF c
  <2>4. Turns(p, c)
    BY <2>2, <2>3, RowsTurn
  <2>5. Locks(p, c)
    BY <1>3, <1>5, <2>2 DEF Locks, HasOpened
  <2>6. InOrder(c) /\ ~Waits(c) /\ InTime(c)
    BY <1>1, <1>3, <2>1, <2>2 DEF InOrder, Waits, InTime
  <2>7. Names(p, c)
    BY <1>1, <1>2, <2>2, <2>6 DEF Names, Quiet, Makers
  <2>8. Phase(p)'
    BY <1>2, <1>5, <2>2, <2>4
    DEF Quiet, Turns, Phase, Making!At, Making!Theirs
  <2> QED BY <1>1, <1>2, <2>2, <2>4, <2>5, <2>6, <2>7, <2>8, QuietKeeps
      DEF Making!At
<1>6. CASE Making!Over(p)
  BY <1>1, <1>2, <1>6, QuietlyOver DEF Making!At
<1> QED BY <1>4, <1>5, <1>6 DEF Making!Look

LEMMA TenantIs ==
    ASSUME DbInOrder, NEW t \in db, NEW i, t.id = i
    PROVE  Making!Exists(i) /\ Making!Tenant(i) = t
BY DEF DbInOrder, Making!Exists, Making!Tenant

\* The tenant as setUp() leaves it, whether it was there or not.
LEMMA WholeIs ==
    ASSUME SetUpInv, NEW i \in Making!TenantIds, NEW n \in Persons,
           \/ db = {}
           \/ \E t \in db : db = {t} /\ t.id = i /\ Making!Theirs(t, n)
    PROVE  LET w == Making!Whole(i, n)
           IN  /\ w \in Making!Tenants /\ WholeAs(w, i) /\ w.name = n
               /\ ~w.token
<1> DEFINE w == Making!Whole(i, n)
<1>1. CASE db = {}
  <2>1. ~Making!Exists(i)
    BY <1>1 DEF Making!Exists
  <2>2. w = [id |-> i, name |-> n, people |-> {n}, admins |-> {n},
             pack |-> TRUE, token |-> FALSE]
    BY <2>1 DEF Making!Whole
  <2> QED BY <2>2 DEF Making!Tenants, WholeAs
<1>2. ASSUME NEW t \in db, db = {t}, t.id = i, Making!Theirs(t, n)
      PROVE  /\ w \in Making!Tenants /\ WholeAs(w, i) /\ w.name = n
             /\ ~w.token
  <2>1. Making!Exists(i) /\ Making!Tenant(i) = t
    BY <1>2, TenantIs DEF SetUpInv
  <2>2. w = [t EXCEPT !.people = @ \cup {n}, !.admins = @ \cup {n},
                      !.pack = TRUE]
    BY <2>1 DEF Making!Whole
  <2>3. /\ t \in Making!Tenants /\ t.admins \subseteq t.people
        /\ t.token => t.name = "team"
    BY DEF SetUpInv, Making!TypeOK, DbInOrder
  <2>4. t.name = n /\ t.people \subseteq {n}
    BY <1>2 DEF Making!Theirs
  <2>5. ~t.token
    BY <2>3, <2>4, OneServiceAssumption
  <2> HIDE DEF w
  <2>6. /\ w \in Making!Tenants /\ w.id = t.id /\ w.name = t.name
        /\ w.people = t.people \cup {n} /\ w.admins = t.admins \cup {n}
        /\ w.pack /\ w.token = t.token
    BY <2>2, <2>3 DEF Making!Tenants
  <2> QED BY <1>2, <2>3, <2>4, <2>5, <2>6 DEF WholeAs
<1> QED BY <1>1, <1>2

LEMMA setUpKeeps ==
    ASSUME SetUpInv, NEW p \in Programs, Making!setUp(p)
    PROVE  SetUpInv'
<1> DEFINE i == run[p].tenant
           n == run[p].who
           w == Making!Whole(i, n)
<1>1. /\ run[p].cmd = "solo" /\ run[p].at = "setUp"
      /\ UNCHANGED <<log, config, claude, runs, cut, added>>
  BY DEF Making!setUp, Making!At
<1>2. /\ run[p] \in Making!Runs /\ lock = p /\ InOrder(run[p])
      /\ i \in Making!TenantIds /\ i <= runs /\ n \in Persons
  BY <1>1, OwnId, HoldsLock DEF InOrder
<1>3. CASE db' = {w} /\ Making!To(p, "write") /\ UNCHANGED <<lock, faults>>
  <2> DEFINE c == Moved(run[p], "write")
  <2>1. \/ db = {}
        \/ \E t \in db : db = {t} /\ t.id = i /\ Making!Theirs(t, n)
    BY <1>1 DEF SetUpInv, Phases, Phase, Making!At
  <2>2. /\ w \in Making!Tenants /\ WholeAs(w, i) /\ w.name = n /\ ~w.token
    BY <1>2, <2>1, WholeIs
  <2>3. db' = {w}
    BY <1>3
  <2>4. "write" \in Making!Steps /\ HasOpened("write")
    BY DEF Making!Steps, HasOpened
  <2>5. /\ c.at = "write" /\ c.cmd = "solo" /\ c.who = n /\ c.tenant = i
        /\ c.wrote = run[p].wrote
    BY <1>1, <1>2, <2>4, MovedIs
  <2>6. Turns(p, c)
    BY <1>2, <1>3, <2>4, ToGoes
  <2> HIDE DEF c, w
  <2>7. Steady
    <3>1. \A t \in db : t.id = i /\ ~t.token
      BY <2>1, OneServiceAssumption, <1>2
      DEF SetUpInv, DbInOrder, Making!Theirs
    <3> QED BY <2>2, <2>3, <3>1 DEF Steady, SoloWhole, HasToken, WholeAs
  <2>8. InOrder(c) /\ ~Waits(c)
    BY <1>1, <1>2, <2>5 DEF InOrder, Waits
  <2>9. Phase(p)'
    <3>1. \E t \in db' : WholeAs(t, i)
      BY <2>2, <2>3
    <3>2. run'[p].tenant = i /\ run'[p].cmd = "solo" /\ run'[p].at = "write"
      BY <2>5, <2>6 DEF Turns
    <3> QED BY <3>1, <3>2 DEF Phase, Making!At, SoloWhole
  <2>10. MakerWrites(p)
    <3>1. Takes(p)
      BY <1>1, <2>2, <2>3 DEF Takes, WholeAs, Makers
    <3>2. /\ db' \in SUBSET Making!Tenants /\ config' \in Making!Configs
          /\ faults' \in 0..MaxSetUpFaults
      BY <1>1, <1>3, <2>2, <2>3 DEF SetUpInv, Making!TypeOK
    <3> QED BY <1>1, <1>2, <2>7, <3>1, <3>2 DEF MakerWrites, ConfigKeeps
  <2>11. DbInOrder'
    <3>1. Making!OneEach'
      BY <2>2, <2>3 DEF Making!OneEach, WholeAs
    <3> QED BY <1>1, <1>2, <2>2, <2>3, <3>1 DEF DbInOrder, WholeAs
  <2>12. ConfigInOrder'
    BY <1>1, <2>6, <2>7, ConfigStays DEF Making!At
  <2> QED BY <1>3, <2>4, <2>8, <2>9, <2>10, <2>11, <2>12, WritesOn DEF c
<1>4. CASE Making!Over(p) /\ Making!Fails /\ db' = db
  <2>1. Quiet /\ Bounds
    BY <1>1, <1>4, OneServiceAssumption
    DEF Quiet, Bounds, SetUpInv, Making!TypeOK, Making!Fails
  <2> QED BY <1>1, <1>4, <2>1, QuietlyOver DEF Making!At
<1> QED BY <1>3, <1>4 DEF Making!setUp

\* config.json as an init writes it, or takes it away.
LEMMA OursIs ==
    ASSUME SetUpInv, NEW p \in Programs, run[p].cmd \in {"solo", "team"},
           run[p].at /= "idle"
    PROVE  LET o == Making!Ours(p)
           IN  /\ o \in Making!Configs /\ o.by = run[p].cmd
               /\ o.tenant = run[p].tenant /\ o.trust = "none"
<1>1. run[p].tenant \in 0..MaxRuns
  BY OwnId, RowIs
<1> QED BY <1>1 DEF Making!Ours, Making!Configs

LEMMA NoneIs ==
    /\ Making!None \in Making!Configs /\ Making!None.by = "none"
    /\ Making!None.trust = "none"
BY OneServiceAssumption DEF Making!None, Making!Configs

LEMMA WriteKeeps ==
    ASSUME SetUpInv, NEW p \in Programs, Making!Write(p)
    PROVE  SetUpInv'
<1>1. /\ run[p].cmd = "solo" /\ run[p].at = "write"
      /\ UNCHANGED <<db, log, claude, runs, cut, added>>
  BY DEF Making!Write, Making!At
<1>2. /\ run[p] \in Making!Runs /\ lock = p /\ InOrder(run[p])
  BY <1>1, OwnId, HoldsLock
<1>3. CASE /\ Making!Created(p) /\ Making!To(p, "load")
           /\ UNCHANGED <<lock, faults>>
  <2> DEFINE c == Moved(run[p], "load")
             o == Making!Ours(p)
  <2>1. "load" \in Making!Steps /\ HasOpened("load")
    BY DEF Making!Steps, HasOpened
  <2>2. /\ c.at = "load" /\ c.cmd = "solo" /\ c.who = run[p].who
        /\ c.tenant = run[p].tenant /\ c.wrote = run[p].wrote
    BY <1>1, <1>2, <2>1, MovedIs
  <2>3. Turns(p, c)
    BY <1>2, <1>3, <2>1, ToGoes
  <2> HIDE DEF c
  <2>4. InOrder(c) /\ ~Waits(c)
    BY <1>1, <1>2, <2>2 DEF InOrder, Waits
  <2>5. config = Making!None /\ config' = o
    BY <1>3 DEF Making!Created
  <2>6. /\ o \in Making!Configs /\ o.by = "solo"
        /\ o.tenant = run[p].tenant /\ o.trust = "none"
    BY <1>1, OursIs
  <2>7. SoloWhole(run[p].tenant)
    BY <1>1 DEF SetUpInv, Phases, Phase
  <2>8. Phase(p)'
    <3>1. run'[p].tenant = run[p].tenant /\ run'[p].cmd = run[p].cmd
          /\ run'[p].cmd = "solo" /\ run'[p].at = "load"
      BY <1>1, <2>2, <2>3 DEF Turns
    <3> QED BY <1>1, <2>5, <2>7, <3>1
        DEF Phase, Making!At, SoloWhole, Making!Ours
  <2> HIDE DEF o
  <2>9. MakerWrites(p)
    <3>1. Takes(p) /\ Steady
      BY <1>1, SameSteady DEF Takes
    <3>2. /\ db' \in SUBSET Making!Tenants /\ faults' \in 0..MaxSetUpFaults
      BY <1>1, <1>3 DEF SetUpInv, Making!TypeOK
    <3>3. ConfigKeeps /\ config' \in Making!Configs
      BY <2>5, <2>6, NoneIs DEF ConfigKeeps
    <3> QED BY <1>1, <1>2, <3>1, <3>2, <3>3 DEF MakerWrites
  <2>10. DbInOrder'
    BY <1>1, TenantsSame
  <2>11. ConfigInOrder'
    BY <1>1, <2>5, <2>6, <2>7 DEF ConfigInOrder, SoloWhole
  <2> QED BY <1>3, <2>1, <2>4, <2>8, <2>9, <2>10, <2>11, WritesOn DEF c
<1>4. CASE Making!Over(p) /\ config' = config
           /\ (faults' = faults \/ Making!Fails)
  <2>1. Quiet /\ Bounds
    BY <1>1, <1>4, OneServiceAssumption
    DEF Quiet, Bounds, SetUpInv, Making!TypeOK, Making!Fails
  <2> QED BY <1>1, <1>4, <2>1, QuietlyOver DEF Making!At
<1> QED BY <1>3, <1>4 DEF Making!Write

LEMMA LoadKeeps ==
    ASSUME SetUpInv, NEW p \in Programs, Making!Load(p)
    PROVE  SetUpInv'
<1>1. /\ run[p].cmd = "solo" /\ run[p].at = "load" /\ Making!Over(p)
      /\ UNCHANGED <<db, log, claude, runs, cut, added>>
  BY DEF Making!Load, Making!At
<1>2. CASE UNCHANGED <<config, faults>>
  <2>1. Quiet /\ Bounds
    BY <1>1, <1>2 DEF Quiet, Bounds, SetUpInv, Making!TypeOK
  <2> QED BY <1>1, <2>1, QuietlyOver DEF Making!At
<1>3. CASE Making!Fails /\ config' = Making!None
  <2>1. config.trust = "none"
    BY <1>1, OursIs DEF SetUpInv, Phases, Phase, Making!At
  <2>2. MakerWrites(p)
    <3>1. Takes(p) /\ Steady
      BY <1>1, SameSteady DEF Takes
    <3>2. /\ db' \in SUBSET Making!Tenants /\ faults' \in 0..MaxSetUpFaults
      BY <1>1, <1>3, OneServiceAssumption
      DEF SetUpInv, Making!TypeOK, Making!Fails
    <3>3. ConfigKeeps /\ config' \in Making!Configs
      BY <1>3, <2>1, NoneIs DEF ConfigKeeps
    <3>4. lock = p
      BY <1>1, HoldsLock
    <3> QED BY <1>1, <3>1, <3>2, <3>3, <3>4 DEF MakerWrites
  <2>3. DbInOrder'
    BY <1>1, TenantsSame
  <2>4. ConfigInOrder'
    BY <1>3, NoneIs DEF ConfigInOrder, Making!None
  <2> QED BY <1>1, <2>2, <2>3, <2>4, WritesLast
<1> QED BY <1>2, <1>3 DEF Making!Load

\* init --team.
LEMMA LookEmptyKeeps ==
    ASSUME SetUpInv, NEW p \in Programs, Making!LookEmpty(p)
    PROVE  SetUpInv'
<1>1. run[p].cmd = "team" /\ run[p].at = "look"
  BY DEF Making!LookEmpty, Making!At
<1>2. Quiet /\ UNCHANGED <<faults, cut>> /\ Bounds
  BY DEF Making!LookEmpty, Quiet, Bounds, SetUpInv, Making!TypeOK
<1>3. run[p] \in Making!Runs /\ lock = p /\ InOrder(run[p])
  BY <1>1, OwnId, HoldsLock
<1>4. CASE /\ db = {} /\ Making!To(p, "write") /\ lock' = lock
  <2> DEFINE c == Moved(run[p], "write")
  <2>1. "write" \in Making!Steps /\ HasOpened("write")
    BY DEF Making!Steps, HasOpened
  <2>2. /\ c.at = "write" /\ c.cmd = "team" /\ c.wrote = run[p].wrote
    BY <1>1, <1>3, <2>1, MovedIs
  <2>3. Turns(p, c)
    BY <1>3, <1>4, <2>1, ToGoes
  <2> HIDE DEF c
  <2>4. InOrder(c) /\ Waits(run[p])
    BY <1>1, <1>3, <2>2 DEF InOrder, Waits, Makers
  <2>5. Phase(p)'
    BY <1>2, <1>4, <2>2, <2>3 DEF Quiet, Turns, Phase, Making!At
  <2> QED BY <1>1, <1>2, <1>3, <1>4, <2>1, <2>4, <2>5, QuietlyOn
      DEF c, Making!At
<1>5. CASE Making!Over(p)
  BY <1>1, <1>2, <1>5, QuietlyOver DEF Making!At
<1> QED BY <1>4, <1>5 DEF Making!LookEmpty

LEMMA WriteFirstKeeps ==
    ASSUME SetUpInv, NEW p \in Programs, Making!WriteFirst(p)
    PROVE  SetUpInv'
<1>1. /\ run[p].cmd = "team" /\ run[p].at = "write"
      /\ UNCHANGED <<db, log, claude, runs, cut, added>>
  BY DEF Making!WriteFirst, Making!At
<1>2. /\ run[p] \in Making!Runs /\ lock = p /\ InOrder(run[p])
  BY <1>1, OwnId, HoldsLock
<1>3. CASE /\ Making!Created(p) /\ Making!To(p, "make")
           /\ UNCHANGED <<lock, faults>>
  <2> DEFINE c == Moved(run[p], "make")
             o == Making!Ours(p)
  <2>1. "make" \in Making!Steps /\ HasOpened("make")
    BY DEF Making!Steps, HasOpened
  <2>2. /\ c.at = "make" /\ c.cmd = "team"
        /\ c.tenant = run[p].tenant /\ c.wrote = run[p].wrote
    BY <1>1, <1>2, <2>1, MovedIs
  <2>3. Turns(p, c)
    BY <1>2, <1>3, <2>1, ToGoes
  <2> HIDE DEF c
  <2>4. InOrder(c) /\ Waits(run[p])
    BY <1>1, <1>2, <2>2 DEF InOrder, Waits, Makers
  <2>5. config = Making!None /\ config' = o
    BY <1>3 DEF Making!Created
  <2>6. /\ o \in Making!Configs /\ o.by = "team"
        /\ o.tenant = run[p].tenant /\ o.trust = "none"
    BY <1>1, OursIs
  <2>7. db = {}
    BY <1>1 DEF SetUpInv, Phases, Phase
  <2>8. /\ run'[p].tenant = run[p].tenant /\ run'[p].cmd = run[p].cmd
        /\ run'[p].cmd = "team" /\ run'[p].at = "make"
    BY <1>1, <2>2, <2>3 DEF Turns
  <2>9. Phase(p)'
    BY <1>1, <2>5, <2>7, <2>8 DEF Phase, Making!At, Making!Ours
  <2> HIDE DEF o
  <2>10. MakerWrites(p)
    <3>1. Takes(p) /\ Steady
      BY <1>1, SameSteady DEF Takes
    <3>2. /\ db' \in SUBSET Making!Tenants /\ faults' \in 0..MaxSetUpFaults
      BY <1>1, <1>3 DEF SetUpInv, Making!TypeOK
    <3>3. ConfigKeeps /\ config' \in Making!Configs
      BY <2>5, <2>6, <2>7, NoneIs DEF ConfigKeeps
    <3> QED BY <1>1, <1>2, <3>1, <3>2, <3>3 DEF MakerWrites
  <2>11. DbInOrder'
    BY <1>1, TenantsSame
  <2>12. ConfigInOrder'
    <3>1. Making!Making'
      BY <2>8 DEF Making!Making, Making!At
    <3> QED BY <2>5, <2>6, <3>1 DEF ConfigInOrder
  <2> QED BY <1>1, <1>3, <2>1, <2>4, <2>9, <2>10, <2>11, <2>12, WritesOn
      DEF c
<1>4. CASE Making!Over(p) /\ config' = config
           /\ (faults' = faults \/ Making!Fails)
  <2>1. Quiet /\ Bounds
    BY <1>1, <1>4, OneServiceAssumption
    DEF Quiet, Bounds, SetUpInv, Making!TypeOK, Making!Fails
  <2> QED BY <1>1, <1>4, <2>1, QuietlyOver DEF Making!At
<1> QED BY <1>3, <1>4 DEF Making!WriteFirst

LEMMA MakeKeeps ==
    ASSUME SetUpInv, NEW p \in Programs, Making!Make(p)
    PROVE  SetUpInv'
<1> DEFINE i == run[p].tenant
           e == Making!Empty(i, "team", TRUE)
<1>1. /\ run[p].cmd = "team" /\ run[p].at = "make" /\ Making!Over(p)
      /\ UNCHANGED <<log, claude, runs, cut, added>>
  BY DEF Making!Make, Making!At
<1>2. i \in Making!TenantIds /\ i <= runs /\ lock = p
  BY <1>1, OwnId, HoldsLock
<1>3. db = {} /\ config = Making!Ours(p)
  BY <1>1 DEF SetUpInv, Phases, Phase, Making!At
<1>4. config.by = "team" /\ config.tenant = i /\ config.trust = "none"
  BY <1>1, <1>3, OursIs
<1>5. Steady
  BY <1>3, SameSteady
<1>6. CASE db' = db \cup {e} /\ UNCHANGED <<config, faults>>
  <2>1. /\ e \in Making!Tenants /\ e.id = i /\ e.name = "team"
        /\ e.people = {} /\ e.admins = {} /\ e.token
    <3> HIDE DEF i
    <3> QED BY <1>2 DEF Making!Empty, Making!Tenants
  <2> HIDE DEF e
  <2>2. db' = {e}
    BY <1>3, <1>6
  <2>3. MakerWrites(p)
    <3>1. Takes(p)
      BY <1>1, <2>1, <2>2 DEF Takes, Makers
    <3>2. /\ db' \in SUBSET Making!Tenants /\ faults' \in 0..MaxSetUpFaults
          /\ config' \in Making!Configs
      BY <1>6, <2>1, <2>2 DEF SetUpInv, Making!TypeOK
    <3> QED BY <1>1, <1>2, <1>5, <1>6, <3>1, <3>2
        DEF MakerWrites, ConfigKeeps
  <2>4. DbInOrder'
    <3>1. Making!OneEach'
      BY <2>1, <2>2 DEF Making!OneEach
    <3> QED BY <1>1, <1>2, <2>1, <2>2, <3>1 DEF DbInOrder
  <2>5. ConfigInOrder'
    BY <1>4, <1>6, <2>1, <2>2 DEF ConfigInOrder, HasToken
  <2> QED BY <1>1, <2>3, <2>4, <2>5, WritesLast
<1>7. CASE Making!Fails /\ config' = Making!None /\ db' = db
  <2>1. MakerWrites(p)
    <3>1. Takes(p)
      BY <1>7 DEF Takes
    <3>2. /\ db' \in SUBSET Making!Tenants /\ faults' \in 0..MaxSetUpFaults
      BY <1>7, OneServiceAssumption
      DEF SetUpInv, Making!TypeOK, Making!Fails
    <3>3. ConfigKeeps /\ config' \in Making!Configs
      BY <1>4, <1>7, NoneIs DEF ConfigKeeps
    <3> QED BY <1>1, <1>2, <1>5, <3>1, <3>2, <3>3 DEF MakerWrites
  <2>2. DbInOrder'
    BY <1>1, <1>7, TenantsSame
  <2>3. ConfigInOrder'
    BY <1>7, NoneIs DEF ConfigInOrder, Making!None
  <2> QED BY <1>1, <2>1, <2>2, <2>3, WritesLast
<1> QED BY <1>6, <1>7 DEF Making!Make

-----------------------------------------------------------------------------
(* What connect does.                                                       *)

ConnectStep(p, c) ==
    /\ p \in Programs /\ Turns(p, c) /\ Locks(p, c)
    /\ run[p].cmd = "connect" /\ c.cmd \in {"connect", "none"}
    /\ InOrder(c) /\ InTime(c) /\ cut \subseteq cut'
    /\ UNCHANGED <<db, added, runs>>
    /\ lock = p \/ config' = config

LEMMA ConnectGoes ==
    ASSUME SetUpInv, NEW p, NEW c, ConnectStep(p, c), Making!TypeOK',
           ConfigInOrder', LogInOrder', Approved', claude'.others = added,
           c.cmd = "connect" => Connects(run[p])'
    PROVE  SetUpInv'
<1> p \in Programs /\ Turns(p, c) /\ Locks(p, c)
  BY DEF ConnectStep
<1>1. Shaped'
  BY ShapedStays DEF ConnectStep, SetUpInv
<1>2. NewOnes'
  <2>1. Names(p, c)
    BY DEF ConnectStep, Names, Waits, Makers
  <2> QED BY <2>1, NewStays
<1>3. Phases'
  <2>1. Phase(p)'
    BY DEF ConnectStep, Turns, Phase, Making!At
  <2> QED BY <2>1, PhasesStay DEF ConnectStep
<1>4. DbInOrder'
  BY TenantsSame DEF ConnectStep
<1>5. ConnectsInOrder'
  <2>1. ASSUME NEW q \in Programs, run'[q].cmd = "connect"
        PROVE  q = p
    BY <2>1 DEF ConnectStep, Turns, SetUpInv, ConnectsInOrder, OneConnects
  <2>2. \A q \in Programs : run'[q].cmd = "connect" => Connects(run[q])'
    BY <2>1 DEF Turns
  <2>3. claude'.others = added'
    BY DEF ConnectStep
  <2> QED BY <2>1, <2>2, <2>3 DEF ConnectsInOrder, OneConnects
<1> QED BY <1>1, <1>2, <1>3, <1>4, <1>5 DEF SetUpInv

\* Whoever wrote config.json still does, or what it wrote is cut short.
LEMMA QuietConnect ==
    ASSUME SetUpInv, NEW p, NEW c, ConnectStep(p, c), Quiet, Bounds,
           "config" \in run[p].wrote =>
               "config" \in c.wrote \/ run[p].tenant \in cut',
           c.cmd = "connect" => Connects(c) /\ cut' = cut
    PROVE  SetUpInv'
<1> /\ p \in Programs /\ Turns(p, c) /\ Locks(p, c) /\ cut \subseteq cut'
    /\ run[p].cmd = "connect"
  BY DEF ConnectStep
<1>1. Making!TypeOK'
  BY QuietTyped
<1>2. Steady /\ ConfigKeeps
  BY SameSteady DEF Quiet, ConfigKeeps
<1>3. ConfigInOrder'
  BY <1>2, ConfigStays DEF Quiet, Making!At
<1>4. LogInOrder'
  BY <1>2, LogStays DEF Quiet
<1>5. Approved'
  <2>1. Connects(run[p])
    BY DEF SetUpInv, ConnectsInOrder
  <2>2. "config" \in run[p].wrote => config.tenant = run[p].tenant
    BY <2>1 DEF Connects, WroteConfig
  <2>3. Written => Written' \/ config.tenant \in cut'
    <3>1. ASSUME NEW q \in Programs, "config" \in run[q].wrote
          PROVE  Written' \/ config.tenant \in cut'
      <4>1. CASE q = p
        BY <2>2, <3>1, <4>1 DEF Turns, Written
      <4>2. CASE q /= p
        BY <3>1, <4>2 DEF Turns, Written
      <4> QED BY <4>1, <4>2
    <3> QED BY <3>1 DEF Written
  <2> QED BY <2>3 DEF Quiet, SetUpInv, Approved
<1>6. claude'.others = added
  BY DEF Quiet, SetUpInv, ConnectsInOrder
<1>7. c.cmd = "connect" => Connects(run[p])'
  BY DEF Turns, Quiet, Connects, ReadBy, WroteClaude, WroteConfig,
     SoloWhole
<1> QED BY <1>1, <1>3, <1>4, <1>5, <1>6, <1>7, ConnectGoes

LEMMA ConnectOver ==
    ASSUME SetUpInv, NEW p \in Programs, run[p].cmd = "connect",
           Making!Over(p), UNCHANGED <<db, added, runs>>,
           cut \subseteq cut', lock = p \/ config' = config
    PROVE  ConnectStep(p, Making!Idle)
BY OverGoes, IdlesAre DEF ConnectStep

LEMMA ConnectOn ==
    ASSUME SetUpInv, NEW p \in Programs, NEW at \in Making!Steps,
           run[p].cmd = "connect", HasOpened(at), Making!To(p, at),
           lock' = p, lock \in {p, Making!Free}, run[p].at /= "idle",
           InOrder(Moved(run[p], at)), Quiet, UNCHANGED <<faults, cut>>,
           Connects(Moved(run[p], at))
    PROVE  SetUpInv'
<1> DEFINE c == Moved(run[p], at)
<1>1. run[p] \in Making!Runs /\ InTime(run[p])
  BY DEF SetUpInv, Making!TypeOK, Shaped
<1>2. /\ c.cmd = run[p].cmd /\ c.tenant = run[p].tenant
      /\ c.wrote = run[p].wrote
  BY <1>1, MovedIs
<1>3. Turns(p, c) /\ Locks(p, c)
  BY ToGoes
<1>4. InOrder(c) /\ Connects(c)
  OBVIOUS
<1> HIDE DEF c
<1>5. InTime(c)
  BY <1>1, <1>2 DEF InTime
<1>6. ConnectStep(p, c)
  BY <1>2, <1>3, <1>4, <1>5 DEF ConnectStep, Quiet
<1>7. Bounds
  BY DEF Bounds, SetUpInv, Making!TypeOK
<1> QED BY <1>2, <1>4, <1>6, <1>7, QuietConnect

LEMMA OpenOfConnect ==
    ASSUME SetUpInv, NEW p \in Programs, Making!Open(p),
           run[p].cmd = "connect"
    PROVE  SetUpInv'
<1>1. Quiet /\ UNCHANGED <<faults, cut>> /\ Bounds
  BY DEF Making!Open, Quiet, Bounds, SetUpInv, Making!TypeOK
<1>2. /\ run[p].at = "open" /\ run[p] \in Making!Runs /\ InOrder(run[p])
      /\ Connects(run[p])
  BY DEF Making!Open, SetUpInv, Making!TypeOK, Shaped, ConnectsInOrder
<1>3. run[p].wrote = {}
  BY <1>2 DEF Connects, WroteClaude
<1>4. CASE lock = Making!Free
  <2>1. Making!To(p, "look") /\ lock' = p
    BY <1>4 DEF Making!Open
  <2>2. "look" \in Making!Steps /\ HasOpened("look")
    BY DEF Making!Steps, HasOpened
  <2> DEFINE c == Moved(run[p], "look")
             r == run[p]
  <2>3. /\ c.at = "look" /\ c.cmd = "connect" /\ c.who = r.who
        /\ c.tenant = r.tenant /\ c.raw = r.raw /\ c.text = r.text
        /\ c.previous = r.previous /\ c.wrote = r.wrote
    BY <1>2, <2>2, MovedIs
  <2> HIDE DEF c
  <2>4. InOrder(c)
    BY <1>2, <2>3 DEF InOrder
  <2>5. Connects(c)
    BY <1>2, <1>3, <2>3 DEF Connects, ReadBy, WroteClaude, WroteConfig
  <2> QED BY <1>1, <1>2, <1>4, <2>1, <2>2, <2>4, <2>5, ConnectOn DEF c
<1>5. CASE lock /= Making!Free
  <2>1. ConnectStep(p, Making!Idle)
    BY <1>1, <1>5, ConnectOver DEF Making!Open, Quiet
  <2>2. Making!Idle.cmd = "none"
    BY IdlesAre
  <2> QED BY <1>1, <1>3, <2>1, <2>2, QuietConnect
<1> QED BY <1>4, <1>5

LEMMA LookTenantKeeps ==
    ASSUME SetUpInv, NEW p \in Programs, Making!LookTenant(p)
    PROVE  SetUpInv'
<1>1. Quiet /\ UNCHANGED <<faults, cut>> /\ Bounds
  BY DEF Making!LookTenant, Quiet, Bounds, SetUpInv, Making!TypeOK
<1>2. /\ run[p].cmd = "connect" /\ run[p].at = "look"
  BY DEF Making!LookTenant, Making!At
<1>3. /\ run[p] \in Making!Runs /\ InOrder(run[p]) /\ lock = p
      /\ Connects(run[p])
  BY <1>2, OwnId, HoldsLock DEF SetUpInv, ConnectsInOrder
<1>4. run[p].wrote = {}
  BY <1>2, <1>3 DEF Connects, WroteClaude
<1>5. CASE Making!To(p, "claude") /\ lock' = lock
  <2>1. "claude" \in Making!Steps /\ HasOpened("claude")
    BY DEF Making!Steps, HasOpened
  <2> DEFINE c == Moved(run[p], "claude")
             r == run[p]
  <2>2. /\ c.at = "claude" /\ c.cmd = "connect" /\ c.who = r.who
        /\ c.tenant = r.tenant /\ c.raw = r.raw /\ c.text = r.text
        /\ c.previous = r.previous /\ c.wrote = r.wrote
    BY <1>2, <1>3, <2>1, MovedIs
  <2> HIDE DEF c
  <2>3. InOrder(c)
    BY <1>2, <1>3, <2>2 DEF InOrder
  <2>4. Connects(c)
    BY <1>3, <1>4, <2>2 DEF Connects, ReadBy, WroteClaude, WroteConfig
  <2> QED BY <1>1, <1>2, <1>3, <1>5, <2>1, <2>3, <2>4, ConnectOn DEF c
<1>6. CASE Making!Over(p)
  <2>1. ConnectStep(p, Making!Idle)
    BY <1>1, <1>2, <1>6, ConnectOver DEF Quiet
  <2>2. Making!Idle.cmd = "none"
    BY IdlesAre
  <2> QED BY <1>1, <1>4, <2>1, <2>2, QuietConnect
<1> QED BY <1>5, <1>6 DEF Making!LookTenant

\* The files it writes, and goes on.
WrittenRow(r, at, file) == [r EXCEPT !.at = at, !.wrote = @ \cup {file}]

LEMMA WrittenRowIs ==
    ASSUME NEW r \in Making!Runs, NEW at \in Making!Steps,
           NEW file \in {"claude", "config"}, NEW was \in Making!Configs
    PROVE  LET c == [WrittenRow(r, at, file) EXCEPT !.previous = was]
           IN  /\ c \in Making!Runs /\ c.at = at /\ c.cmd = r.cmd
               /\ c.who = r.who /\ c.tenant = r.tenant /\ c.raw = r.raw
               /\ c.text = r.text /\ c.previous = was
               /\ c.wrote = r.wrote \cup {file}
BY DEF WrittenRow, Making!Runs

LEMMA ConnectingIs ==
    ASSUME SetUpInv, NEW p \in Programs, run[p].cmd = "connect",
           run[p].at \notin {"idle", "open"}
    PROVE  /\ run[p] \in Making!Runs /\ InOrder(run[p]) /\ InTime(run[p])
           /\ lock = p /\ Connects(run[p])
           /\ run[p].raw \in Making!Configs
           /\ run[p].text \in Making!ClaudeConfigs
           /\ run[p].previous \in Making!Configs
           /\ run[p].tenant \in Making!TenantIds
           /\ run[p].raw.trust \in {"none", "commercial"}
<1>1. /\ run[p] \in Making!Runs /\ InOrder(run[p]) /\ InTime(run[p])
      /\ lock = p /\ Connects(run[p]) /\ run[p].tenant \in Making!TenantIds
  BY OwnId, HoldsLock DEF SetUpInv, ConnectsInOrder, Shaped
<1>2. run[p].raw \in Making!Configs
  BY <1>1, RowIs
<1> QED BY <1>1, <1>2, RowIs DEF Making!Configs

\* Its own row apart, nobody's is of a file written.
LEMMA WrittenBy ==
    ASSUME NEW p \in Programs, NEW c, Turns(p, c),
           "config" \in run[p].wrote <=> "config" \in c.wrote
    PROVE  Written <=> Written'
BY DEF Turns, Written

LEMMA PutServerKeeps ==
    ASSUME SetUpInv, NEW p \in Programs, Making!PutServer(p)
    PROVE  SetUpInv'
<1> DEFINE r == run[p]
<1>1. /\ r.cmd = "connect" /\ r.at = "claude"
      /\ UNCHANGED <<db, log, lock, config, runs, faults, cut, added>>
  BY DEF Making!PutServer, Making!At
<1>2. /\ r \in Making!Runs /\ InOrder(r) /\ InTime(r) /\ lock = p
      /\ Connects(r) /\ r.text \in Making!ClaudeConfigs
  BY <1>1, ConnectingIs
<1>3. r.wrote = {} /\ claude = r.text /\ r.text.others = added
  BY <1>1, <1>2 DEF Connects, WroteClaude, ReadBy
<1>4. "approve" \in Making!Steps /\ HasOpened("approve")
  BY DEF Making!Steps, HasOpened
<1>5. CASE r.text.ours /\ Making!To(p, "approve") /\ claude' = claude
  <2> DEFINE c == Moved(r, "approve")
  <2>1. /\ c.at = "approve" /\ c.cmd = "connect" /\ c.who = r.who
        /\ c.tenant = r.tenant /\ c.raw = r.raw /\ c.text = r.text
        /\ c.previous = r.previous /\ c.wrote = r.wrote
    BY <1>1, <1>2, <1>4, MovedIs
  <2> HIDE DEF c
  <2>2. InOrder(c)
    BY <1>1, <1>2, <2>1 DEF InOrder
  <2>3. Connects(c)
    BY <1>2, <1>3, <1>5, <2>1
    DEF Connects, ReadBy, WroteClaude, WroteConfig
  <2>4. Quiet
    BY <1>1, <1>5 DEF Quiet
  <2> QED BY <1>1, <1>2, <1>4, <1>5, <2>2, <2>3, <2>4, ConnectOn DEF c
<1>6. CASE /\ ~r.text.ours /\ claude' = Making!Merged(p)
           /\ run' = [run EXCEPT ![p].at = "approve",
                                 ![p].wrote = @ \cup {"claude"}]
  <2> DEFINE c == WrittenRow(r, "approve", "claude")
  <2>1. /\ c \in Making!Runs /\ c.at = "approve" /\ c.cmd = "connect"
        /\ c.who = r.who /\ c.tenant = r.tenant /\ c.raw = r.raw
        /\ c.text = r.text /\ c.previous = r.previous
        /\ c.wrote = {"claude"}
    <3> HIDE DEF r
    <3> QED BY <1>1, <1>2, <1>3, <1>4 DEF WrittenRow, Making!Runs
  <2>2. run' = [run EXCEPT ![p] = c]
    BY <1>6 DEF WrittenRow
  <2> HIDE DEF c
  <2>3. Turns(p, c)
    BY <2>1, <2>2, RowsTurn
  <2>4. Locks(p, c)
    BY <1>1, <1>2, <2>1 DEF Locks, HasOpened
  <2>5. InOrder(c) /\ InTime(c)
    BY <1>1, <1>2, <2>1 DEF InOrder, InTime
  <2>6. ConnectStep(p, c)
    BY <1>1, <2>1, <2>3, <2>4, <2>5 DEF ConnectStep
  <2>7. /\ claude' \in Making!ClaudeConfigs /\ claude'.ours
        /\ claude'.others = r.text.others
    BY <1>2, <1>6 DEF Making!Merged, Making!ClaudeConfigs
  <2>8. Making!TypeOK'
    BY <1>1, <2>3, <2>7 DEF SetUpInv, Making!TypeOK, Turns
  <2>9. Steady /\ ConfigKeeps
    BY <1>1, SameSteady DEF ConfigKeeps
  <2>10. ConfigInOrder'
    BY <1>1, <2>3, <2>9, ConfigStays DEF Making!At
  <2>11. LogInOrder'
    BY <1>1, <2>9, LogStays
  <2>12. Approved'
    <3>1. Written <=> Written'
      BY <1>3, <2>1, <2>3, WrittenBy
    <3> QED BY <1>1, <2>7, <3>1 DEF SetUpInv, Approved
  <2>13. Connects(run[p])'
    <3>1. ReadBy(run[p])'
      BY <1>1, <1>2, <2>1, <2>3
      DEF Turns, Connects, ReadBy, SoloWhole
    <3>2. WroteClaude(run[p])'
      BY <1>6, <2>1, <2>3, <2>7 DEF Turns, WroteClaude
    <3>3. WroteConfig(run[p])'
      BY <1>1, <1>2, <1>3, <2>1, <2>3
      DEF Turns, Connects, WroteConfig
    <3> QED BY <3>1, <3>2, <3>3 DEF Connects
  <2> QED BY <1>3, <2>6, <2>7, <2>8, <2>10, <2>11, <2>12, <2>13, ConnectGoes
<1> QED BY <1>5, <1>6 DEF Making!PutServer

LEMMA ApproveKeeps ==
    ASSUME SetUpInv, NEW p \in Programs, Making!Approve(p)
    PROVE  SetUpInv'
<1> DEFINE r == run[p]
<1>1. /\ r.cmd = "connect" /\ r.at = "approve"
      /\ UNCHANGED <<db, log, lock, claude, runs, faults, cut, added>>
  BY DEF Making!Approve, Making!At
<1>2. /\ r \in Making!Runs /\ InOrder(r) /\ InTime(r) /\ lock = p
      /\ Connects(r) /\ r.raw \in Making!Configs
  BY <1>1, ConnectingIs
<1>3. "config" \notin r.wrote /\ claude.ours
  BY <1>1, <1>2 DEF Connects, WroteClaude
<1>4. "link" \in Making!Steps /\ HasOpened("link")
  BY DEF Making!Steps, HasOpened
<1>5. CASE Making!To(p, "link") /\ config' = config
  <2> DEFINE c == Moved(r, "link")
  <2>1. /\ c.at = "link" /\ c.cmd = "connect" /\ c.who = r.who
        /\ c.tenant = r.tenant /\ c.raw = r.raw /\ c.text = r.text
        /\ c.previous = r.previous /\ c.wrote = r.wrote
    BY <1>1, <1>2, <1>4, MovedIs
  <2> HIDE DEF c
  <2>2. InOrder(c)
    BY <1>1, <1>2, <2>1 DEF InOrder
  <2>3. Connects(c)
    BY <1>2, <1>3, <2>1 DEF Connects, ReadBy, WroteClaude, WroteConfig
  <2>4. Quiet
    BY <1>1, <1>5 DEF Quiet
  <2> QED BY <1>1, <1>2, <1>4, <1>5, <2>2, <2>3, <2>4, ConnectOn DEF c
<1>6. CASE /\ r.raw.trust = "none"
           /\ config' = [r.raw EXCEPT !.trust = "commercial"]
           /\ run' = [run EXCEPT ![p].at = "link", ![p].previous = config,
                                 ![p].wrote = @ \cup {"config"}]
  <2> DEFINE c == [WrittenRow(r, "link", "config") EXCEPT !.previous = config]
  <2>1. /\ c \in Making!Runs /\ c.at = "link" /\ c.cmd = "connect"
        /\ c.who = r.who /\ c.tenant = r.tenant /\ c.raw = r.raw
        /\ c.text = r.text /\ c.previous = config
        /\ c.wrote = r.wrote \cup {"config"}
    <3>1. config \in Making!Configs
      BY DEF SetUpInv, Making!TypeOK
    <3> HIDE DEF r
    <3> QED BY <1>1, <1>2, <1>4, <3>1, WrittenRowIs
  <2>2. run' = [run EXCEPT ![p] = c]
    BY <1>6 DEF WrittenRow
  <2> HIDE DEF c
  <2>3. Turns(p, c)
    BY <2>1, <2>2, RowsTurn
  <2>4. Locks(p, c)
    BY <1>1, <1>2, <2>1 DEF Locks, HasOpened
  <2>5. InOrder(c) /\ InTime(c)
    BY <1>1, <1>2, <2>1 DEF InOrder, InTime
  <2>6. ConnectStep(p, c)
    BY <1>1, <1>2, <2>1, <2>3, <2>4, <2>5 DEF ConnectStep
  <2>7. /\ r.raw.by = "solo" /\ r.raw.tenant = r.tenant
        /\ SoloWhole(r.tenant)
    BY <1>2 DEF Connects, ReadBy
  <2>8. /\ config' \in Making!Configs
        /\ config' = [by |-> "solo", tenant |-> r.tenant,
                      trust |-> "commercial"]
    BY <1>2, <1>6, <2>7 DEF Making!Configs
  <2>9. Making!TypeOK'
    BY <1>1, <2>3, <2>8 DEF SetUpInv, Making!TypeOK, Turns
  <2>10. ConfigInOrder'
    BY <1>1, <2>7, <2>8 DEF ConfigInOrder, SoloWhole
  <2>11. config.trust = "none" /\ config.by /= "team"
    BY <1>2, <1>3, <1>6 DEF Connects, WroteConfig
  <2>12. log \subseteq cut
    BY <2>11 DEF SetUpInv, LogInOrder
  <2>13. LogInOrder'
    BY <1>1, <2>12 DEF SetUpInv, LogInOrder, SoloWhole
  <2>14. Approved'
    <3>1. Written'
      BY <2>1, <2>3 DEF Turns, Written
    <3> QED BY <3>1 DEF Approved
  <2>15. Connects(run[p])'
    <3>1. ReadBy(run[p])'
      BY <1>1, <1>2, <2>1, <2>3
      DEF Turns, Connects, ReadBy, SoloWhole
    <3>2. WroteClaude(run[p])'
      BY <1>1, <1>2, <1>3, <2>1, <2>3 DEF Turns, Connects, WroteClaude
    <3>3. /\ config.by = "none" => config = Making!None
          /\ config.by = "solo" => SoloWhole(config.tenant)
      BY DEF SetUpInv, ConfigInOrder
    <3>4. WroteConfig(run[p])'
      BY <1>1, <1>6, <2>1, <2>3, <2>8, <2>11, <2>12, <3>3
      DEF Turns, WroteConfig, SoloWhole
    <3> QED BY <3>1, <3>2, <3>4 DEF Connects
  <2>16. claude'.others = added
    BY <1>1 DEF SetUpInv, ConnectsInOrder
  <2> QED BY <2>6, <2>9, <2>10, <2>13, <2>14, <2>15, <2>16, ConnectGoes
<1> QED BY <1>5, <1>6 DEF Making!Approve

\* What it wrote is as it was before, whatever it had done by then.
LEMMA FailsBackKeeps ==
    ASSUME SetUpInv, NEW p \in Programs, Making!FailsBack(p),
           run[p].cmd = "connect", run[p].at \notin {"idle", "open"},
           UNCHANGED <<db, log, runs, cut, added>>
    PROVE  SetUpInv'
<1> DEFINE r == run[p]
           c == Making!Idle
<1>1. /\ r \in Making!Runs /\ lock = p /\ Connects(r)
      /\ r.text \in Making!ClaudeConfigs /\ r.previous \in Making!Configs
      /\ r.raw.trust \in {"none", "commercial"}
  BY ConnectingIs
<1>2. /\ Making!Over(p)
      /\ claude' = (IF "claude" \in r.wrote THEN r.text ELSE claude)
      /\ config' = (IF "config" \in r.wrote THEN r.previous ELSE config)
      /\ faults' \in 0..MaxSetUpFaults
  BY OneServiceAssumption
  DEF Making!FailsBack, Making!RollBack, Making!Fails, SetUpInv,
      Making!TypeOK
<1>3. ConnectStep(p, c) /\ c.cmd = "none" /\ c.wrote = {} /\ Turns(p, c)
      /\ Locks(p, c)
  BY <1>1, <1>2, ConnectOver, IdlesAre DEF ConnectStep
<1> HIDE DEF c
<1>4. Making!TypeOK'
  BY <1>1, <1>2, <1>3 DEF SetUpInv, Making!TypeOK, Turns, Locks
<1>5. Steady
  BY SameSteady
<1>6. /\ r.raw.tenant = r.tenant /\ r.text.others = added
      /\ r.raw.trust = "commercial" /\ r.tenant \notin cut => r.text.ours
      /\ "claude" \in r.wrote => ~r.text.ours
  BY <1>1 DEF Connects, ReadBy, WroteClaude
<1>7. claude'.others = added
  BY <1>2, <1>6 DEF SetUpInv, ConnectsInOrder
<1>8. CASE "config" \in r.wrote
  <2>1. /\ config' = r.previous /\ config'.trust = "none"
        /\ config'.by /= "team" /\ log \subseteq cut
        /\ config'.by = "none" => config' = Making!None
        /\ config'.by = "solo" => SoloWhole(r.previous.tenant)
    BY <1>1, <1>2, <1>8 DEF Connects, WroteConfig
  <2>2. ConfigInOrder'
    BY <2>1 DEF ConfigInOrder, SoloWhole
  <2>3. LogInOrder'
    BY <2>1 DEF SetUpInv, LogInOrder, SoloWhole
  <2>4. Approved'
    BY <2>1 DEF Approved
  <2> QED BY <1>3, <1>4, <1>7, <2>2, <2>3, <2>4, ConnectGoes
<1>9. CASE "config" \notin r.wrote
  <2>1. config' = config
    BY <1>2, <1>9
  <2>2. ConfigInOrder'
    BY <1>3, <1>5, <2>1, ConfigStays DEF Making!At
  <2>3. LogInOrder'
    BY <1>5, <2>1, LogStays DEF ConfigKeeps
  <2>4. Approved'
    <3>1. Written <=> Written'
      BY <1>3, <1>9, WrittenBy
    <3>2. /\ r.raw.trust = "commercial" => config = r.raw
          /\ r.raw.trust = "none" => config.trust = "none"
      BY <1>1, <1>9 DEF Connects, WroteConfig
    <3>3. CASE "claude" \notin r.wrote
      BY <1>2, <2>1, <3>1, <3>3 DEF SetUpInv, Approved
    <3>4. CASE "claude" \in r.wrote
      BY <1>1, <1>6, <2>1, <3>2, <3>4 DEF Approved
    <3> QED BY <3>3, <3>4
  <2> QED BY <1>3, <1>4, <1>7, <2>2, <2>3, <2>4, ConnectGoes
<1> QED BY <1>8, <1>9

LEMMA LinkKeeps ==
    ASSUME SetUpInv, NEW p \in Programs, Making!Link(p)
    PROVE  SetUpInv'
<1> DEFINE r == run[p]
<1>1. /\ r.cmd = "connect" /\ r.at = "link"
      /\ UNCHANGED <<db, log, runs, cut, added>>
  BY DEF Making!Link, Making!At
<1>2. CASE Making!To(p, "record") /\ UNCHANGED <<lock, config, claude, faults>>
  <2> DEFINE c == Moved(r, "record")
  <2>1. r \in Making!Runs /\ InOrder(r) /\ lock = p /\ Connects(r)
    BY <1>1, ConnectingIs
  <2>2. "record" \in Making!Steps /\ HasOpened("record")
    BY DEF Making!Steps, HasOpened
  <2>3. /\ c.at = "record" /\ c.cmd = "connect" /\ c.who = r.who
        /\ c.tenant = r.tenant /\ c.raw = r.raw /\ c.text = r.text
        /\ c.previous = r.previous /\ c.wrote = r.wrote
    BY <1>1, <2>1, <2>2, MovedIs
  <2> HIDE DEF c
  <2>4. InOrder(c)
    BY <1>1, <2>1, <2>3 DEF InOrder
  <2>5. Connects(c)
    BY <1>1, <2>1, <2>3 DEF Connects, ReadBy, WroteClaude, WroteConfig
  <2>6. Quiet
    BY <1>1, <1>2 DEF Quiet
  <2> QED BY <1>1, <1>2, <2>1, <2>2, <2>4, <2>5, <2>6, ConnectOn DEF c
<1>3. CASE Making!FailsBack(p)
  BY <1>1, <1>3, FailsBackKeeps
<1> QED BY <1>2, <1>3 DEF Making!Link

LEMMA RecordKeeps ==
    ASSUME SetUpInv, NEW p \in Programs, Making!Record(p)
    PROVE  SetUpInv'
<1> DEFINE r == run[p]
           c == Making!Idle
<1>1. /\ r.cmd = "connect" /\ r.at = "record"
      /\ UNCHANGED <<db, runs, cut, added>>
  BY DEF Making!Record, Making!At
<1>2. CASE /\ Making!Over(p) /\ UNCHANGED <<config, claude, faults>>
           /\ log' = IF "config" \in r.wrote THEN log \cup {r.tenant} ELSE log
  <2>1. /\ lock = p /\ Connects(r) /\ r.tenant \in Making!TenantIds
    BY <1>1, ConnectingIs
  <2>2. ConnectStep(p, c) /\ c.cmd = "none" /\ c.wrote = {} /\ Turns(p, c)
        /\ Locks(p, c)
    BY <1>1, <1>2, <2>1, ConnectOver, IdlesAre DEF ConnectStep
  <2> HIDE DEF c
  <2>3. Making!TypeOK'
    BY <1>1, <1>2, <2>1, <2>2 DEF SetUpInv, Making!TypeOK, Turns, Locks
  <2>4. Steady
    BY <1>1, SameSteady
  <2>5. ConfigInOrder'
    BY <1>1, <1>2, <2>2, <2>4, ConfigStays DEF Making!At
  <2>6. claude'.others = added /\ claude'.ours
    BY <1>1, <1>2, <2>1 DEF SetUpInv, ConnectsInOrder, Connects, WroteClaude
  <2>7. CASE "config" \in r.wrote
    <3>1. /\ config.tenant = r.tenant /\ config.trust = "commercial"
          /\ log \subseteq cut /\ SoloWhole(r.tenant)
      BY <2>1, <2>7 DEF Connects, WroteConfig, ReadBy
    <3>2. LogInOrder'
      BY <1>1, <1>2, <2>7, <3>1 DEF SetUpInv, LogInOrder, SoloWhole
    <3>3. Approved'
      BY <1>2, <2>6, <2>7, <3>1 DEF Approved
    <3> QED BY <2>2, <2>3, <2>5, <2>6, <3>2, <3>3, ConnectGoes
  <2>8. CASE "config" \notin r.wrote
    <3>1. LogInOrder'
      BY <1>1, <1>2, <2>4, <2>8, LogStays DEF ConfigKeeps
    <3>2. Written <=> Written'
      BY <2>2, <2>8, WrittenBy
    <3>3. Approved'
      BY <1>1, <1>2, <2>8, <3>2 DEF SetUpInv, Approved
    <3> QED BY <2>2, <2>3, <2>5, <2>6, <3>1, <3>3, ConnectGoes
  <2> QED BY <2>7, <2>8
<1>3. CASE Making!FailsBack(p) /\ log' = log
  BY <1>1, <1>3, FailsBackKeeps
<1> QED BY <1>2, <1>3 DEF Making!Record

LEMMA CrashOfConnect ==
    ASSUME SetUpInv, NEW p \in Programs, Making!Crash(p),
           run[p].cmd = "connect"
    PROVE  SetUpInv'
<1> DEFINE c == Making!Idle
<1>1. Quiet /\ Making!Over(p) /\ run[p].at /= "idle" /\ Making!Fails
  BY DEF Making!Crash, Quiet
<1>2. faults' \in 0..MaxSetUpFaults
  BY <1>1, OneServiceAssumption DEF Making!Fails, SetUpInv, Making!TypeOK
<1>3. run[p].tenant \in Making!TenantIds
  BY <1>1, OwnId
<1>4. /\ cut' \subseteq Making!TenantIds /\ cut \subseteq cut'
      /\ run[p].wrote /= {} => run[p].tenant \in cut'
  BY <1>3 DEF Making!Crash, SetUpInv, Making!TypeOK
<1>5. ConnectStep(p, c) /\ c.cmd = "none"
  BY <1>1, <1>4, ConnectOver, IdlesAre DEF Quiet
<1>6. "config" \in run[p].wrote => run[p].tenant \in cut'
  BY <1>4
<1> HIDE DEF c
<1> QED BY <1>1, <1>2, <1>4, <1>5, <1>6, QuietConnect DEF Bounds

-----------------------------------------------------------------------------
(* How commands begin, and what happens beside them.                        *)

LEMMA NobodyWrote ==
    ASSUME SetUpInv, ~Making!Connecting
    PROVE  ~Written
BY DEF SetUpInv, Shaped, InOrder, Making!Connecting, Written

LEMMA StartKeeps ==
    ASSUME ~TwoConnects, SetUpInv, NEW p \in Programs,
           NEW cmd \in {"solo", "team", "admin", "connect", "serve"},
           NEW who \in Persons \cup {"team"}, Making!Begin(p, cmd, who)
    PROVE  SetUpInv'
<1> DEFINE i   == IF cmd = "connect" THEN config.tenant ELSE runs + 1
           raw == IF cmd = "connect" THEN config ELSE Making!None
           text == IF cmd = "connect" THEN claude ELSE Making!NoText
           c == [Making!Idle EXCEPT !.cmd = cmd, !.at = "open",
                        !.who = who, !.tenant = i, !.raw = raw, !.text = text]
<1>1. /\ run[p] = Making!Idle /\ runs < MaxRuns /\ runs' = runs + 1
      /\ run' = [run EXCEPT ![p] = c]
      /\ UNCHANGED <<db, log, lock, config, claude, faults, cut, added>>
      /\ (who = "team") = (cmd /= "solo" /\ cmd /= "admin")
  BY DEF Making!Begin
<1>2. /\ runs \in Nat /\ runs + 1 \in 0..MaxRuns
      /\ config \in Making!Configs /\ claude \in Making!ClaudeConfigs
      /\ config.tenant \in 0..MaxRuns
  BY <1>1, OneServiceAssumption
  DEF SetUpInv, Making!TypeOK, Making!Configs
<1>3. cmd = "connect" =>
         config.by = "solo" /\ ~Making!Connecting
  BY DEF Making!Begin, Making!MayConnect
<1>4. /\ c \in Making!Runs /\ c.cmd = cmd /\ c.at = "open" /\ c.who = who
      /\ c.tenant = i /\ c.raw = raw /\ c.text = text /\ c.wrote = {}
  <2>1. i \in 0..MaxRuns /\ raw \in Making!Configs
    BY <1>2, NoneIs
  <2>2. text \in Making!ClaudeConfigs
    BY <1>2 DEF Making!NoText, Making!ClaudeConfigs
  <2> HIDE DEF i, raw, text
  <2> QED BY <2>1, <2>2, IdlesAre, NoneIs
      DEF Making!Idle, Making!Runs, Making!Steps
<1>5. cmd = "connect" =>
         /\ SoloWhole(config.tenant) /\ config.tenant <= runs
         /\ config.tenant >= 1
  <2>1. ASSUME cmd = "connect" PROVE SoloWhole(config.tenant)
    BY <1>3, <2>1 DEF SetUpInv, ConfigInOrder
  <2>2. \A t \in db : t.id <= runs /\ t.id >= 1
    BY OneServiceAssumption
    DEF SetUpInv, DbInOrder, Making!TypeOK, Making!Tenants, Making!TenantIds
  <2> QED BY <2>1, <2>2 DEF SoloWhole, WholeAs
<1> HIDE DEF c
<1>6. Turns(p, c)
  BY <1>1, <1>4, RowsTurn
<1>7. /\ run[p].cmd = "none" /\ run[p].wrote = {} /\ run[p].at = "idle"
  BY <1>1, IdlesAre
<1>8. Making!TypeOK'
  BY <1>1, <1>2, <1>6 DEF SetUpInv, Making!TypeOK, Turns
<1>9. Shaped'
  <2>1. /\ InOrder(c) /\ c.tenant <= runs' /\ c.tenant >= 1
    <3>1. i <= runs + 1 /\ i >= 1
      BY <1>2, <1>5
    <3>2. who /= "team" => who \in Persons
      OBVIOUS
    <3> QED BY <1>1, <1>4, <3>1, <3>2 DEF InOrder
  <2>2. lock' /= p /\ ~HasOpened(c.at)
    BY <1>1, <1>4, <1>7 DEF SetUpInv, Shaped, HasOpened
  <2>3. /\ InOrder(run[p])' /\ InTime(run[p])'
        /\ HasOpened(run[p].at)' <=> lock' = p
    BY <1>6, <2>1, <2>2 DEF Turns, InTime
  <2>4. ASSUME NEW q \in Programs \ {p}
        PROVE  /\ InOrder(run[q])' /\ InTime(run[q])'
               /\ HasOpened(run[q].at)' <=> lock' = q
    <3>1. run'[q] = run[q] /\ run[q] \in Making!Runs
      BY <1>6 DEF Turns, SetUpInv, Making!TypeOK
    <3>2. run[q].tenant \in Nat
      BY <3>1, RowIs, OneServiceAssumption
    <3> QED BY <1>1, <1>2, <3>1, <3>2 DEF SetUpInv, Shaped, InTime
  <2> QED BY <2>3, <2>4 DEF Shaped
<1>10. DbInOrder'
  <2>1. \A t \in db : t.id \in Nat
    BY OneServiceAssumption
    DEF SetUpInv, Making!TypeOK, Making!Tenants, Making!TenantIds
  <2> QED BY <1>1, <1>2, <2>1 DEF SetUpInv, DbInOrder, Making!OneEach
<1>11. NewOnes'
  <2>1. \A t \in db : t.id \in Nat /\ t.id <= runs
    BY OneServiceAssumption DEF SetUpInv, DbInOrder, Making!TypeOK,
       Making!Tenants, Making!TenantIds
  <2>2. \A q \in Programs : run[q].tenant \in Nat /\ run[q].tenant <= runs
    BY RowIs, OneServiceAssumption
    DEF SetUpInv, Making!TypeOK, Shaped, InTime
  <2>3. c.cmd \in Makers => c.tenant = runs + 1
    BY <1>4 DEF Makers
  <2>4. ASSUME NEW q \in Programs, Waits(run'[q]), NEW t \in db
        PROVE  t.id /= run'[q].tenant
    <3>1. CASE q = p
      BY <1>2, <1>6, <2>1, <2>3, <2>4, <3>1 DEF Turns, Waits
    <3>2. CASE q /= p
      BY <1>6, <2>4, <3>2 DEF Turns, SetUpInv, NewOnes
    <3> QED BY <3>1, <3>2
  <2>5. ASSUME NEW q \in Programs, Waits(run'[q]), NEW z \in Programs \ {q},
               run'[z].cmd \in Makers
        PROVE  run'[z].tenant /= run'[q].tenant
    <3>1. CASE q = p
      BY <1>2, <1>6, <2>2, <2>3, <2>5, <3>1 DEF Turns, Waits
    <3>2. CASE q /= p /\ z = p
      BY <1>2, <1>6, <2>2, <2>3, <2>5, <3>2 DEF Turns, Waits
    <3>3. CASE q /= p /\ z /= p
      BY <1>6, <2>5, <3>3 DEF Turns, SetUpInv, NewOnes
    <3> QED BY <3>1, <3>2, <3>3
  <2> QED BY <1>1, <2>4, <2>5 DEF NewOnes
<1>12. Phases'
  <2>1. Phase(p)'
    BY <1>4, <1>6 DEF Turns, Phase, Making!At
  <2> QED BY <1>1, <1>6, <2>1, PhasesStay
<1>13. Steady /\ ConfigKeeps
  BY <1>1, SameSteady DEF ConfigKeeps
<1>14. ConfigInOrder'
  BY <1>1, <1>6, <1>7, <1>13, ConfigStays DEF Making!At
<1>15. LogInOrder'
  BY <1>1, <1>13, LogStays
<1>16. Approved'
  <2>1. Written <=> Written'
    BY <1>4, <1>6, <1>7, WrittenBy
  <2> QED BY <1>1, <2>1 DEF SetUpInv, Approved
<1>17. ConnectsInOrder'
  <2>1. CASE cmd = "connect"
    <3>1. \A q \in Programs : run'[q].cmd = "connect" => q = p
      BY <1>3, <1>6, <2>1 DEF Turns, Making!Connecting
    <3>2. ~Written /\ claude.others = added
      BY <1>3, <2>1, NobodyWrote DEF SetUpInv, ConnectsInOrder
    <3>3. ReadBy(run[p])'
      BY <1>1, <1>3, <1>4, <1>5, <1>6, <2>1, <3>2
      DEF Turns, ReadBy, SoloWhole, SetUpInv, Approved
    <3>4. WroteClaude(run[p])'
      BY <1>1, <1>4, <1>6, <2>1 DEF Turns, WroteClaude
    <3>5. WroteConfig(run[p])'
      BY <1>1, <1>3, <1>4, <1>6, <2>1 DEF Turns, WroteConfig
    <3> QED BY <1>1, <3>1, <3>2, <3>3, <3>4, <3>5
        DEF ConnectsInOrder, OneConnects, Connects
  <2>2. CASE cmd /= "connect"
    BY <1>1, <1>4, <1>6, <1>7, <1>13, <2>2, ConnectsStay
  <2> QED BY <2>1, <2>2
<1> QED BY <1>8, <1>9, <1>10, <1>11, <1>12, <1>14, <1>15, <1>16, <1>17
    DEF SetUpInv

LEMMA EditKeeps ==
    ASSUME SetUpInv, Making!Edit PROVE SetUpInv'
<1>1. /\ ~Making!Connecting
      /\ UNCHANGED <<db, log, lock, config, run, runs, faults, cut>>
  BY DEF Making!Edit
<1>2. PICK e \in OtherEntries :
         /\ claude' = [claude EXCEPT !.others = @ \cup {e}]
         /\ added' = added \cup {e}
  BY DEF Making!Edit
<1>3. /\ claude' \in Making!ClaudeConfigs /\ claude'.ours = claude.ours
      /\ claude'.others = claude.others \cup {e}
  BY <1>2 DEF SetUpInv, Making!TypeOK, Making!ClaudeConfigs
<1>4. Making!TypeOK'
  BY <1>1, <1>2, <1>3 DEF SetUpInv, Making!TypeOK
<1>5. Shaped' /\ NewOnes'
  BY <1>1 DEF SetUpInv, Shaped, InTime, NewOnes
<1>6. Phases'
  BY <1>1 DEF SetUpInv, Phases, Phase, SoloWhole, Making!At, Making!Ours
<1>7. DbInOrder'
  BY <1>1, TenantsSame
<1>8. ConfigInOrder'
  BY <1>1 DEF SetUpInv, ConfigInOrder, SoloWhole, HasToken, Making!Making,
     Making!At
<1>9. LogInOrder'
  BY <1>1 DEF SetUpInv, LogInOrder, SoloWhole
<1>10. Approved'
  BY <1>1, <1>3 DEF SetUpInv, Approved, Written
<1>11. ConnectsInOrder'
  BY <1>1, <1>2, <1>3
  DEF SetUpInv, ConnectsInOrder, OneConnects, Making!Connecting
<1> QED BY <1>4, <1>5, <1>6, <1>7, <1>8, <1>9, <1>10, <1>11 DEF SetUpInv

LEMMA SetUpBegins == ASSUME Making!Init PROVE SetUpInv
<1>1. /\ db = {} /\ log = {} /\ lock = Making!Free /\ config = Making!None
      /\ claude = Making!NoText /\ run = [p \in Programs |-> Making!Idle]
      /\ runs = 0 /\ faults = 0 /\ cut = {} /\ added = {}
  BY DEF Making!Init
<1>2. /\ Making!Idle \in Making!Runs /\ Making!Idle.cmd = "none"
      /\ Making!Idle.at = "idle" /\ Making!Idle.tenant = 0
      /\ Making!Idle.wrote = {}
  BY IdlesAre
<1>3. \A p \in Programs : run[p] = Making!Idle
  BY <1>1
<1>4. Making!TypeOK
  BY <1>1, <1>2, NoneIs, OneServiceAssumption
  DEF Making!TypeOK, Making!NoText, Making!ClaudeConfigs
<1>5. Shaped
  <2>1. InOrder(Making!Idle)
    BY <1>2 DEF InOrder
  <2>2. lock \notin Programs
    BY <1>1, OneServiceAssumption DEF Making!Free
  <2> QED BY <1>1, <1>2, <1>3, <2>1, <2>2 DEF Shaped, InTime, HasOpened
<1>6. DbInOrder
  BY <1>1 DEF DbInOrder, Making!OneEach
<1>7. NewOnes /\ Phases
  BY <1>1, <1>2, <1>3 DEF NewOnes, Phases, Phase, Waits, Makers, Making!At
<1>8. ConfigInOrder
  BY <1>1, NoneIs DEF ConfigInOrder
<1>9. LogInOrder
  BY <1>1 DEF LogInOrder
<1>10. Approved
  BY <1>1, NoneIs DEF Approved
<1>11. ConnectsInOrder
  BY <1>1, <1>2, <1>3 DEF ConnectsInOrder, OneConnects, Making!NoText
<1> QED BY <1>4, <1>5, <1>6, <1>7, <1>8, <1>9, <1>10, <1>11 DEF SetUpInv

LEMMA SetUpStep ==
    ASSUME ~TwoConnects, SetUpInv, [Making!Next]_(Making!vars)
    PROVE  SetUpInv'
<1>1. ASSUME NEW p \in Programs,
             \/ \E cmd \in {"solo", "team", "admin", "connect", "serve"},
                   who \in Persons \cup {"team"} : Making!Begin(p, cmd, who)
             \/ Making!Open(p) \/ Making!Serve(p) \/ Making!tenantCreate(p)
             \/ Making!initSolo(p) \/ Making!initTeam(p)
             \/ Making!connect(p) \/ Making!Crash(p)
      PROVE  SetUpInv'
  <2>1. CASE \E cmd \in {"solo", "team", "admin", "connect", "serve"},
                who \in Persons \cup {"team"} : Making!Begin(p, cmd, who)
    BY <2>1, StartKeeps
  <2>2. CASE Making!Open(p)
    BY <2>2, OpenKeeps, OpenOfConnect
  <2>3. CASE Making!Serve(p)
    BY <2>3, ServeKeeps
  <2>4. CASE Making!tenantCreate(p)
    BY <2>4, tenantCreateKeeps
  <2>5. CASE Making!initSolo(p)
    BY <2>5, LookKeeps, setUpKeeps, WriteKeeps, LoadKeeps
    DEF Making!initSolo
  <2>6. CASE Making!initTeam(p)
    BY <2>6, LookEmptyKeeps, WriteFirstKeeps, MakeKeeps DEF Making!initTeam
  <2>7. CASE Making!connect(p)
    BY <2>7, LookTenantKeeps, PutServerKeeps, ApproveKeeps, LinkKeeps,
       RecordKeeps DEF Making!connect
  <2>8. CASE Making!Crash(p)
    BY <2>8, CrashOfMaker, CrashOfConnect
  <2> QED BY <1>1, <2>1, <2>2, <2>3, <2>4, <2>5, <2>6, <2>7, <2>8
<1>2. CASE UNCHANGED Making!vars
  <2>1. UNCHANGED <<db, log, lock, config, claude, run, runs, faults, cut,
                    added>>
    BY <1>2 DEF Making!vars
  <2>2. Making!TypeOK' /\ Shaped' /\ NewOnes' /\ LogInOrder'
    BY <2>1 DEF SetUpInv, Making!TypeOK, Shaped, InTime, NewOnes,
       LogInOrder, SoloWhole
  <2>3. Phases'
    BY <2>1 DEF SetUpInv, Phases, Phase, SoloWhole, Making!At, Making!Ours
  <2>4. DbInOrder'
    BY <2>1, TenantsSame
  <2>5. ConfigInOrder'
    BY <2>1 DEF SetUpInv, ConfigInOrder, SoloWhole, HasToken, Making!Making,
       Making!At
  <2>6. Approved'
    BY <2>1 DEF SetUpInv, Approved, Written
  <2>7. ConnectsInOrder'
    BY <2>1 DEF SetUpInv, ConnectsInOrder, OneConnects, Connects, ReadBy,
       WroteClaude, WroteConfig, SoloWhole
  <2> QED BY <2>2, <2>3, <2>4, <2>5, <2>6, <2>7 DEF SetUpInv
<1> QED BY <1>1, <1>2, EditKeeps DEF Making!Next

LEMMA SetUpHolds ==
    ASSUME SetUpInv PROVE Making!TypeOK /\ Making!SetUpIsWhole
<1>1. Making!ConfigIsWhole
  <2>1. ASSUME config /= Making!None, ~Making!Making,
               config.tenant \notin cut
        PROVE  /\ Making!Exists(config.tenant)
               /\ LET t == Making!Tenant(config.tenant)
                  IN IF config.by = "team" THEN t.token
                     ELSE t.pack /\ t.admins = t.people
                          /\ t.people = {t.name}
    <3>1. config.by \in {"solo", "team"}
      BY <2>1 DEF SetUpInv, ConfigInOrder, Making!TypeOK, Making!Configs
    <3>2. CASE config.by = "solo"
      <4>1. PICK t \in db : WholeAs(t, config.tenant)
        BY <3>2 DEF SetUpInv, ConfigInOrder, SoloWhole
      <4>2. Making!Exists(config.tenant) /\ Making!Tenant(config.tenant) = t
        BY <4>1, TenantIs DEF SetUpInv, WholeAs
      <4> QED BY <3>2, <4>1, <4>2 DEF WholeAs
    <3>3. CASE config.by = "team"
      <4>1. PICK t \in db : t.id = config.tenant /\ t.token
        BY <2>1, <3>3 DEF SetUpInv, ConfigInOrder, HasToken
      <4>2. Making!Exists(config.tenant) /\ Making!Tenant(config.tenant) = t
        BY <4>1, TenantIs DEF SetUpInv
      <4> QED BY <3>3, <4>1, <4>2
    <3> QED BY <3>1, <3>2, <3>3
  <2> QED BY <2>1 DEF Making!ConfigIsWhole
<1>2. Making!OneEach
  BY DEF SetUpInv, DbInOrder
<1>3. Making!CanBeFinished
  BY <1>2 DEF Making!CanBeFinished, Making!OneEach, Making!Theirs
<1>4. Making!ConnectIsWhole
  <2>1. claude.others = added
    BY DEF SetUpInv, ConnectsInOrder
  <2>2. ASSUME ~Making!Connecting, config.tenant \notin cut
        PROVE  /\ (config.trust = "commercial") <=> (config.tenant \in log)
               /\ config.trust = "commercial" => claude.ours
    <3>1. ~Written
      BY <2>2, NobodyWrote
    <3> QED BY <2>2, <3>1 DEF SetUpInv, Approved, LogInOrder
  <2> QED BY <2>1, <2>2 DEF Making!ConnectIsWhole
<1> QED BY <1>1, <1>2, <1>3, <1>4 DEF SetUpInv, Making!SetUpIsWhole

-----------------------------------------------------------------------------
(* The slots, by what ClientLookup has in them.                             *)

docs      == s1
cached    == s2
failures  == s3
flights   == s4
shares    == s5
resolving == s6
outcome   == s7

USE DEF docs, cached, failures, flights, shares, resolving, outcome

-----------------------------------------------------------------------------
(* Which client a client_id names.                                          *)

Going == [at : {"fetching", "awaiting"}, by : Requesters, client : Clients]

Flies(x)     == resolving[x].at = "fetching"
FliesFor(r)  == {x \in Calls : Flies(x) /\ resolving[x].by = r}

LookupTyped ==
    /\ docs \in [Clients -> Naming!Docs]
    /\ cached \in Seq(Naming!Entries)
    /\ failures \subseteq Naming!Failures /\ IsFiniteSet(failures)
    /\ flights \subseteq Clients /\ IsFiniteSet(flights)
    /\ shares \in [Requesters -> Nat]
    /\ resolving \in [Calls -> Going \cup {Naming!Idle}]
    /\ outcome \in [Clients -> {"never", "well", "failed"}]

\* One call fetches each client that is being fetched, and of no such client
\* is anything remembered.
FlightsInOrder ==
    /\ \A x \in Calls :
          resolving[x].at /= "idle" => resolving[x].client \in flights
    /\ \A x, y \in Calls :
          Flies(x) /\ Flies(y) /\ resolving[x].client = resolving[y].client
            => x = y
    /\ \A c \in flights :
          /\ \E x \in Calls : Flies(x) /\ resolving[x].client = c
          /\ ~Naming!Cached(c) /\ ~Naming!HasFailed(c)
    /\ Cardinality(flights) <= MAX_IN_FLIGHT

SharesInOrder ==
    \A r \in Requesters :
        /\ shares[r] = Cardinality(FliesFor(r))
        /\ shares[r] <= MAX_IN_FLIGHT_EACH

LookupInv ==
    LookupTyped /\ FlightsInOrder /\ SharesInOrder /\ Naming!MemoryIsTrue

LEMMA LookupNumbers ==
    /\ IsFiniteSet(Calls) /\ CACHE_ENTRIES \in Int /\ CACHE_ENTRIES >= 1
    /\ MAX_IN_FLIGHT \in Nat /\ MAX_IN_FLIGHT_EACH \in Nat
BY OneServiceAssumption

LEMMA SameCount ==
    ASSUME NEW S PROVE Naming!Cardinality(S) = Cardinality(S)
BY DEF Naming!Cardinality, Cardinality

LEMMA OneMore ==
    ASSUME NEW S, IsFiniteSet(S), NEW y
    PROVE  /\ IsFiniteSet(S \cup {y}) /\ Cardinality(S \cup {y}) \in Nat
           /\ Cardinality(S \cup {y}) <= Cardinality(S) + 1
<1>1. Cardinality(S) \in Nat
  BY FS_CardinalityType
<1>2. /\ IsFiniteSet(S \cup {y})
      /\ \/ Cardinality(S \cup {y}) = Cardinality(S)
         \/ Cardinality(S \cup {y}) = Cardinality(S) + 1
  BY FS_AddElement
<1> QED BY <1>1, <1>2

LEMMA IdleCall == Naming!Idle.at = "idle"
BY DEF Naming!Idle

LEMMA LookupBegins ==
    ASSUME Naming!Init PROVE LookupInv
<1>1. /\ docs \in [Clients -> {"one", "another's"}]
      /\ cached = << >> /\ failures = {} /\ flights = {}
      /\ shares = [r \in Requesters |-> 0]
      /\ resolving = [x \in Calls |-> Naming!Idle]
      /\ outcome = [c \in Clients |-> "never"]
  BY DEF Naming!Init
<1>2. LookupTyped
  BY <1>1, FS_EmptySet DEF LookupTyped, Naming!Docs, Naming!Own
<1>3. \A x \in Calls : resolving[x].at = "idle"
  BY <1>1, IdleCall
<1>4. FlightsInOrder
  BY <1>1, <1>3, FS_EmptySet, LookupNumbers DEF FlightsInOrder, Flies
<1>5. SharesInOrder
  <2>1. \A r \in Requesters : FliesFor(r) = {}
    BY <1>3 DEF FliesFor, Flies
  <2> QED BY <1>1, <2>1, FS_EmptySet, LookupNumbers DEF SharesInOrder
<1>6. Naming!MemoryIsTrue
  <2>1. Naming!Cardinality({}) = 0
    BY SameCount, FS_EmptySet
  <2>2. cached = << >> /\ Len(<< >>) = 0 /\ DOMAIN << >> = {}
    BY <1>1
  <2> QED BY <1>1, <2>1, <2>2, LookupNumbers DEF Naming!MemoryIsTrue
<1> QED BY <1>2, <1>4, <1>5, <1>6 DEF LookupInv

LEMMA LookupIsFair ==
    ASSUME LookupInv PROVE Naming!LookupsAreFair
<1>1. ASSUME NEW c \in Clients
      PROVE  Cardinality(Naming!Fetching(c)) = IF c \in flights THEN 1 ELSE 0
  <2> DEFINE F == Naming!Fetching(c)
  <2>1. F = {x \in Calls : Flies(x) /\ resolving[x].client = c}
    BY DEF Naming!Fetching, Flies
  <2>2. CASE c \in flights
    <3>1. PICK x \in Calls : Flies(x) /\ resolving[x].client = c
      BY <2>2 DEF LookupInv, FlightsInOrder
    <3>2. F = {x}
      BY <2>1, <3>1 DEF LookupInv, FlightsInOrder
    <3> QED BY <2>2, <3>2, FS_Singleton
  <2>3. CASE c \notin flights
    <3>1. F = {}
      BY <2>1, <2>3 DEF LookupInv, FlightsInOrder, Flies
    <3> QED BY <2>3, <3>1, FS_EmptySet
  <2> QED BY <2>2, <2>3
<1>2. ASSUME NEW c \in Clients, NEW x \in Calls, Naming!Awaits(x, c)
      PROVE  c \in flights
  BY <1>2 DEF LookupInv, FlightsInOrder, Naming!Awaits
<1>3. Naming!OneFetchEach
  BY <1>1, <1>2, SameCount DEF Naming!OneFetchEach
<1>4. Naming!CountsComeBack
  <2>1. \A r \in Requesters :
           FliesFor(r) = {x \in Calls : resolving[x].at = "fetching"
                                       /\ resolving[x].by = r}
    BY DEF FliesFor, Flies
  <2>2. \A r \in Requesters :
           Naming!Cardinality({x \in Calls : resolving[x].at = "fetching"
                                            /\ resolving[x].by = r})
             = shares[r]
    BY <2>1, SameCount DEF LookupInv, SharesInOrder
  <2>3. Naming!Cardinality(flights) <= MAX_IN_FLIGHT
    BY SameCount DEF LookupInv, FlightsInOrder
  <2>4. \A r \in Requesters : shares[r] <= MAX_IN_FLIGHT_EACH
    BY DEF LookupInv, SharesInOrder
  <2> QED BY <2>2, <2>3, <2>4 DEF Naming!CountsComeBack, Naming!CountOf
<1> QED BY <1>3, <1>4 DEF LookupInv, Naming!LookupsAreFair

-----------------------------------------------------------------------------
(* What each step keeps.                                                    *)

\* What changes of nobody's fetch leaves the counts.
LEMMA SharesStay ==
    ASSUME LookupInv, NEW x \in Calls, ~Flies(x), NEW go,
           resolving' = [resolving EXCEPT ![x] = go], go.at /= "fetching",
           UNCHANGED shares
    PROVE  SharesInOrder'
<1>1. \A y \in Calls : resolving'[y] = IF y = x THEN go ELSE resolving[y]
  BY DEF LookupInv, LookupTyped
<1>2. \A r \in Requesters : FliesFor(r)' = FliesFor(r)
  BY <1>1 DEF FliesFor, Flies
<1> QED BY <1>2 DEF LookupInv, SharesInOrder

LEMMA ResolvingKeeps ==
    ASSUME LookupInv, NEW x \in Calls, Naming!Resolve(x) PROVE LookupInv'
<1>1. /\ resolving[x].at = "idle"
      /\ UNCHANGED <<docs, cached, outcome, failures>>
  BY DEF Naming!Resolve, Naming!Busy
<1>2. PICK r \in Requesters, c \in Clients :
         /\ ~Naming!Cached(c) /\ ~Naming!HasFailed(c)
         /\ \/ /\ c \in flights
               /\ resolving' = [resolving EXCEPT ![x] =
                      [at |-> "awaiting", by |-> r, client |-> c]]
               /\ UNCHANGED <<flights, shares>>
            \/ UNCHANGED <<flights, shares, resolving>>
            \/ /\ c \notin flights /\ ~Naming!TooMany(r)
               /\ resolving' = [resolving EXCEPT ![x] =
                      [at |-> "fetching", by |-> r, client |-> c]]
               /\ flights' = flights \cup {c}
               /\ shares' = [shares EXCEPT ![r] = @ + 1]
  BY DEF Naming!Resolve, Naming!Running
<1>3. Naming!MemoryIsTrue'
  BY <1>1 DEF LookupInv, Naming!MemoryIsTrue
<1>4. \A d \in Clients : /\ Naming!Cached(d)' <=> Naming!Cached(d)
                         /\ Naming!HasFailed(d)' <=> Naming!HasFailed(d)
  BY <1>1 DEF Naming!Cached, Naming!HasFailed
<1>5. CASE UNCHANGED <<flights, shares, resolving>>
  <2>1. FlightsInOrder' /\ LookupTyped'
    BY <1>1, <1>4, <1>5 DEF LookupInv, LookupTyped, FlightsInOrder, Flies
  <2>2. SharesInOrder'
    BY <1>5 DEF LookupInv, SharesInOrder, FliesFor, Flies
  <2> QED BY <1>3, <2>1, <2>2 DEF LookupInv
<1>6. CASE /\ c \in flights
           /\ resolving' = [resolving EXCEPT ![x] =
                  [at |-> "awaiting", by |-> r, client |-> c]]
           /\ UNCHANGED <<flights, shares>>
  <2> DEFINE go == [at |-> "awaiting", by |-> r, client |-> c]
  <2>1. go \in Going /\ go.at = "awaiting" /\ go.client = c
    BY DEF Going
  <2>2. /\ \A y \in Calls :
              resolving'[y] = IF y = x THEN go ELSE resolving[y]
        /\ resolving' \in [Calls -> Going \cup {Naming!Idle}]
    BY <1>6, <2>1 DEF LookupInv, LookupTyped
  <2>3. LookupTyped'
    BY <1>1, <1>6, <2>2 DEF LookupInv, LookupTyped
  <2>4. SharesInOrder'
    BY <1>1, <1>6, <2>1, SharesStay DEF Flies
  <2>5. \A y \in Calls : /\ Flies(y)' <=> Flies(y)
                         /\ Flies(y) => y /= x
    BY <1>1, <2>1, <2>2 DEF Flies
  <2>6. FlightsInOrder'
    <3>1. \A y \in Calls :
             resolving'[y].at /= "idle" => resolving'[y].client \in flights
      BY <1>6, <2>1, <2>2 DEF LookupInv, FlightsInOrder
    <3>2. \A y, z \in Calls :
             Flies(y)' /\ Flies(z)'
               /\ resolving'[y].client = resolving'[z].client => y = z
      BY <2>2, <2>5 DEF LookupInv, FlightsInOrder
    <3>3. \A d \in flights :
             \E y \in Calls : Flies(y)' /\ resolving'[y].client = d
      BY <2>2, <2>5 DEF LookupInv, FlightsInOrder
    <3>4. \A d \in flights : ~Naming!Cached(d)' /\ ~Naming!HasFailed(d)'
      BY <1>4 DEF LookupInv, LookupTyped, FlightsInOrder
    <3>5. flights' = flights
      BY <1>6
    <3> QED BY <3>1, <3>2, <3>3, <3>4, <3>5 DEF LookupInv, FlightsInOrder
  <2> QED BY <1>3, <2>3, <2>4, <2>6 DEF LookupInv
<1>7. CASE /\ c \notin flights /\ ~Naming!TooMany(r)
           /\ resolving' = [resolving EXCEPT ![x] =
                  [at |-> "fetching", by |-> r, client |-> c]]
           /\ flights' = flights \cup {c}
           /\ shares' = [shares EXCEPT ![r] = @ + 1]
  <2> DEFINE go == [at |-> "fetching", by |-> r, client |-> c]
  <2>1. go \in Going /\ go.at = "fetching" /\ go.client = c /\ go.by = r
    BY DEF Going
  <2>2. /\ \A y \in Calls :
              resolving'[y] = IF y = x THEN go ELSE resolving[y]
        /\ resolving' \in [Calls -> Going \cup {Naming!Idle}]
    BY <1>7, <2>1 DEF LookupInv, LookupTyped
  <2>3. IsFiniteSet(flights \cup {c})
        /\ Cardinality(flights \cup {c}) <= MAX_IN_FLIGHT
    <3>1. /\ IsFiniteSet(flights) /\ Cardinality(flights) \in Nat
          /\ ~(Cardinality(flights) >= MAX_IN_FLIGHT)
      BY <1>7, FS_CardinalityType, SameCount DEF LookupInv, LookupTyped,
         Naming!TooMany
    <3>2. Cardinality(flights \cup {c}) = Cardinality(flights) + 1
          /\ IsFiniteSet(flights \cup {c})
      BY <1>7, <3>1, FS_AddElement
    <3> QED BY <3>1, <3>2, LookupNumbers
  <2>4. shares' \in [Requesters -> Nat]
        /\ \A p \in Requesters :
              shares'[p] = IF p = r THEN shares[r] + 1 ELSE shares[p]
    BY <1>7 DEF LookupInv, LookupTyped
  <2>5. LookupTyped'
    BY <1>1, <1>7, <2>2, <2>3, <2>4 DEF LookupInv, LookupTyped
  <2>6. \A y \in Calls : /\ Flies(y)' <=> (y = x \/ Flies(y))
                         /\ Flies(y) => y /= x
    BY <1>1, <2>1, <2>2 DEF Flies
  <2>7. SharesInOrder'
    <3>1. SUFFICES ASSUME NEW p \in Requesters
                   PROVE  /\ shares'[p] = Cardinality(FliesFor(p)')
                          /\ shares'[p] <= MAX_IN_FLIGHT_EACH
      BY DEF SharesInOrder
    <3>2. shares[p] = Cardinality(FliesFor(p)) /\ shares[p] \in Nat
          /\ shares[p] <= MAX_IN_FLIGHT_EACH
      BY DEF LookupInv, LookupTyped, SharesInOrder
    <3>3. CASE p = r
      <4>1. FliesFor(p)' = FliesFor(p) \cup {x} /\ x \notin FliesFor(p)
        BY <2>1, <2>2, <2>6, <3>3 DEF FliesFor
      <4>2. IsFiniteSet(FliesFor(p))
        BY LookupNumbers, FS_Subset DEF FliesFor
      <4>3. Cardinality(FliesFor(p)') = Cardinality(FliesFor(p)) + 1
        BY <4>1, <4>2, FS_AddElement
      <4>4. ~(shares[r] >= MAX_IN_FLIGHT_EACH)
        BY <1>7 DEF Naming!TooMany, Naming!CountOf
      <4> QED BY <2>4, <3>2, <3>3, <4>3, <4>4, LookupNumbers
    <3>4. CASE p /= r
      <4>1. FliesFor(p)' = FliesFor(p)
        BY <2>1, <2>2, <2>6, <3>4 DEF FliesFor
      <4> QED BY <2>4, <3>2, <3>4, <4>1
    <3> QED BY <3>3, <3>4
  <2>8. FlightsInOrder'
    <3>1. \A y \in Calls :
             resolving'[y].at /= "idle" => resolving'[y].client \in flights'
      BY <1>7, <2>1, <2>2 DEF LookupInv, FlightsInOrder
    <3>2. \A y \in Calls : Flies(y) => resolving[y].client /= c
      BY <1>7 DEF LookupInv, FlightsInOrder, Flies
    <3>3. \A y, z \in Calls :
             Flies(y)' /\ Flies(z)'
               /\ resolving'[y].client = resolving'[z].client => y = z
      BY <2>1, <2>2, <2>6, <3>2 DEF LookupInv, FlightsInOrder
    <3>4. \A d \in flights :
             \E y \in Calls : Flies(y)' /\ resolving'[y].client = d
      BY <2>2, <2>6 DEF LookupInv, FlightsInOrder
    <3>5. Flies(x)' /\ resolving'[x].client = c
      BY <2>1, <2>2, <2>6
    <3>6. \A d \in flights' : ~Naming!Cached(d)' /\ ~Naming!HasFailed(d)'
      BY <1>2, <1>4, <1>7 DEF LookupInv, LookupTyped, FlightsInOrder
    <3> QED BY <1>7, <2>3, <3>1, <3>3, <3>4, <3>5, <3>6 DEF FlightsInOrder
  <2> QED BY <1>3, <2>5, <2>7, <2>8 DEF LookupInv
<1> QED BY <1>2, <1>5, <1>6, <1>7

\* What is kept as an entry is stored: the entry, and others' of before.
LEMMA StoredIs ==
    ASSUME LookupInv, NEW e \in Naming!Entries
    PROVE  LET q == Naming!Stored(e)
           IN  /\ q \in Seq(Naming!Entries) /\ Len(q) <= CACHE_ENTRIES
               /\ \A i, j \in DOMAIN q : q[i].client = q[j].client => i = j
               /\ \A i \in DOMAIN q :
                     \/ q[i] = e
                     \/ /\ q[i].client /= e.client
                        /\ \E j \in DOMAIN cached : q[i] = cached[j]
<1>1. /\ cached \in Seq(Naming!Entries) /\ Len(cached) <= CACHE_ENTRIES
      /\ DOMAIN cached = 1..Len(cached) /\ Len(cached) \in Nat
      /\ \A i, j \in DOMAIN cached :
            cached[i].client = cached[j].client => i = j
  BY DEF LookupInv, LookupTyped, Naming!MemoryIsTrue
<1> DEFINE kept == IF Len(cached) >= CACHE_ENTRIES /\ cached /= << >>
                   THEN Tail(cached) ELSE cached
           q == Naming!Stored(e)
<1>2. \E k \in {0, 1} :
         /\ kept \in Seq(Naming!Entries) /\ Len(kept) = Len(cached) - k
         /\ Len(kept) < CACHE_ENTRIES
         /\ \A i \in 1..Len(kept) :
               kept[i] = cached[i + k] /\ i + k \in DOMAIN cached
  <2>1. CASE Len(cached) >= CACHE_ENTRIES /\ cached /= << >>
    <3>1. /\ Tail(cached) \in Seq(Naming!Entries)
          /\ Len(Tail(cached)) = Len(cached) - 1
          /\ \A i \in 1..Len(Tail(cached)) : Tail(cached)[i] = cached[i + 1]
      BY <1>1, <2>1, HeadTailProperties
    <3>2. kept = Tail(cached)
      BY <2>1
    <3>3. Len(cached) - 1 < CACHE_ENTRIES
          /\ \A i \in 1..(Len(cached) - 1) : i + 1 \in 1..Len(cached)
      BY <1>1, LookupNumbers
    <3>4. /\ kept \in Seq(Naming!Entries) /\ Len(kept) = Len(cached) - 1
          /\ Len(kept) < CACHE_ENTRIES
      BY <3>1, <3>2, <3>3
    <3>5. \A i \in 1..Len(kept) :
             kept[i] = cached[i + 1] /\ i + 1 \in DOMAIN cached
      BY <1>1, <3>1, <3>2, <3>3
    <3> WITNESS 1 \in {0, 1}
    <3> QED BY <3>4, <3>5
  <2>2. CASE ~(Len(cached) >= CACHE_ENTRIES /\ cached /= << >>)
    <3>1. kept = cached
      BY <2>2
    <3>2. Len(cached) < CACHE_ENTRIES
      <4>1. cached = << >> => Len(cached) = 0
        BY EmptySeq
      <4> QED BY <1>1, <2>2, <4>1, LookupNumbers
    <3>3. \A i \in 1..Len(cached) :
             cached[i] = cached[i + 0] /\ i + 0 \in DOMAIN cached
      BY <1>1
    <3>4. /\ kept \in Seq(Naming!Entries) /\ Len(kept) = Len(cached) - 0
          /\ Len(kept) < CACHE_ENTRIES
      <4>1. Len(cached) = Len(cached) - 0
        BY <1>1
      <4>2. kept \in Seq(Naming!Entries)
        BY <1>1, <3>1, Zenon
      <4>3. Len(kept) = Len(cached) - 0
        BY <3>1, <4>1, Zenon
      <4>4. Len(kept) < CACHE_ENTRIES
        BY <3>1, <3>2, Zenon
      <4> QED BY <4>2, <4>3, <4>4
    <3>5. \A i \in 1..Len(kept) :
             kept[i] = cached[i + 0] /\ i + 0 \in DOMAIN cached
      BY <3>1, <3>3
    <3> WITNESS 0 \in {0, 1}
    <3> QED BY <3>4, <3>5
  <2> QED BY <2>1, <2>2
<1>3. PICK b : b = kept
  OBVIOUS
<1>4. PICK k \in {0, 1} :
         /\ b \in Seq(Naming!Entries) /\ Len(b) = Len(cached) - k
         /\ Len(b) < CACHE_ENTRIES
         /\ \A i \in 1..Len(b) :
               b[i] = cached[i + k] /\ i + k \in DOMAIN cached
  BY <1>2, <1>3
<1>5. DOMAIN b = 1..Len(b) /\ Len(b) \in Nat
  BY <1>4
<1>6. \A i, j \in DOMAIN b : b[i].client = b[j].client => i = j
  <2>1. SUFFICES ASSUME NEW i \in DOMAIN b, NEW j \in DOMAIN b,
                        b[i].client = b[j].client
                 PROVE  i = j
    OBVIOUS
  <2>2. /\ b[i] = cached[i + k] /\ i + k \in DOMAIN cached
        /\ b[j] = cached[j + k] /\ j + k \in DOMAIN cached
        /\ i \in Nat /\ j \in Nat
    <3>1. i \in 1..Len(b) /\ j \in 1..Len(b)
      BY <1>5, <2>1
    <3>2. b[i] = cached[i + k] /\ i + k \in DOMAIN cached
      BY <1>4, <3>1
    <3>3. b[j] = cached[j + k] /\ j + k \in DOMAIN cached
      BY <1>4, <3>1
    <3>4. i \in Nat /\ j \in Nat
      BY <1>5, <3>1
    <3> QED BY <3>2, <3>3, <3>4
  <2>3. i + k = j + k
    BY <1>1, <2>1, <2>2
  <2> QED BY <2>2, <2>3, <1>4
<1>7. ASSUME NEW i \in DOMAIN b PROVE \E j \in DOMAIN cached : b[i] = cached[j]
  BY <1>4, <1>5, <1>7
<1> DEFINE at == {i \in DOMAIN b : b[i].client = e.client}
<1>8. q = IF at = {} THEN Append(b, e)
          ELSE [i \in DOMAIN b |-> IF i \in at THEN e ELSE b[i]]
  BY <1>3 DEF Naming!Stored
<1>9. CASE at = {}
  <2>1. /\ q = Append(b, e) /\ q \in Seq(Naming!Entries)
        /\ Len(q) = Len(b) + 1 /\ \A i \in 1..Len(b) : q[i] = b[i]
        /\ q[Len(b) + 1] = e
    BY <1>4, <1>8, <1>9, AppendProperties
  <2>2. Len(q) <= CACHE_ENTRIES
    BY <1>4, <1>5, <2>1, LookupNumbers
  <2>3. /\ DOMAIN q = 1..(Len(b) + 1)
        /\ \A i \in DOMAIN q : i \in DOMAIN b \/ i = Len(b) + 1
    BY <1>5, <2>1
  <2>4. \A i \in DOMAIN b : q[i] = b[i] /\ b[i].client /= e.client
    BY <1>5, <1>9, <2>1
  <2>5. \A i, j \in DOMAIN q : q[i].client = q[j].client => i = j
    BY <1>6, <2>1, <2>3, <2>4
  <2>6. \A i \in DOMAIN q :
           \/ q[i] = e
           \/ /\ q[i].client /= e.client
              /\ \E j \in DOMAIN cached : q[i] = cached[j]
    BY <1>7, <2>1, <2>3, <2>4
  <2> QED BY <2>1, <2>2, <2>5, <2>6
<1>10. CASE at /= {}
  <2>1. /\ q = [i \in 1..Len(b) |-> IF i \in at THEN e ELSE b[i]]
        /\ \A i \in 1..Len(b) : b[i] \in Naming!Entries
    BY <1>4, <1>5, <1>8, <1>10, ElementOfSeq
  <2>2. /\ q \in Seq(Naming!Entries) /\ Len(q) = Len(b)
        /\ DOMAIN q = DOMAIN b
        /\ \A i \in DOMAIN b : q[i] = IF i \in at THEN e ELSE b[i]
    BY <1>5, <2>1
  <2>3. \A i \in DOMAIN b : q[i].client = b[i].client
    BY <2>2
  <2>4. Len(q) <= CACHE_ENTRIES
    BY <1>4, <1>5, <2>2, LookupNumbers
  <2>5. \A i, j \in DOMAIN q : q[i].client = q[j].client => i = j
    BY <1>6, <2>2, <2>3
  <2>6. \A i \in DOMAIN q :
           \/ q[i] = e
           \/ /\ q[i].client /= e.client
              /\ \E j \in DOMAIN cached : q[i] = cached[j]
    BY <1>7, <2>2
  <2> QED BY <2>2, <2>4, <2>5, <2>6
<1> QED BY <1>9, <1>10

\* What is remembered of who failed, as another does.
LEMMA RememberedIs ==
    ASSUME LookupInv, NEW c \in Clients
    PROVE  LET q == Naming!Remembered(c)
           IN  /\ q \subseteq Naming!Failures /\ IsFiniteSet(q)
               /\ Cardinality(q) <= CACHE_ENTRIES
               /\ \A f \in q : f.client = c \/ f \in failures
<1> DEFINE row == [client |-> c, fresh |-> TRUE]
           kept == {f \in failures : f.client /= c}
           q == Naming!Remembered(c)
<1>1. /\ failures \subseteq Naming!Failures /\ IsFiniteSet(failures)
      /\ Naming!Cardinality(failures) = Cardinality(failures)
      /\ row \in Naming!Failures /\ row.client = c
  BY SameCount DEF LookupInv, LookupTyped, Naming!Failures
<1>2. CASE Cardinality(failures) >= CACHE_ENTRIES
  <2>1. q = {row}
    BY <1>1, <1>2 DEF Naming!Remembered
  <2> QED BY <1>1, <2>1, FS_Singleton, LookupNumbers
<1>3. CASE ~(Cardinality(failures) >= CACHE_ENTRIES)
  <2>1. q = kept \cup {row}
    BY <1>1, <1>3 DEF Naming!Remembered
  <2>2. /\ IsFiniteSet(kept) /\ Cardinality(kept) <= Cardinality(failures)
        /\ Cardinality(kept) \in Nat /\ Cardinality(failures) \in Nat
    BY <1>1, FS_Subset, FS_CardinalityType
  <2>3. IsFiniteSet(q) /\ Cardinality(q) <= Cardinality(kept) + 1
        /\ Cardinality(q) \in Nat
    BY <2>1, <2>2, OneMore
  <2>4. Cardinality(q) <= CACHE_ENTRIES
    BY <1>3, <2>2, <2>3, LookupNumbers
  <2> QED BY <1>1, <2>1, <2>3, <2>4
<1> QED BY <1>2, <1>3

\* The fetch that ends was the only one of its client, and one of its
\* requester's; whoever awaited it has an answer.
LEMMA FetchEnds ==
    ASSUME LookupInv, NEW x \in Calls, Flies(x),
           flights' = flights \ {resolving[x].client},
           shares' = [shares EXCEPT ![resolving[x].by] = @ - 1],
           resolving' = [y \in Calls |->
               IF y = x \/ Naming!Awaits(y, resolving[x].client)
               THEN Naming!Idle ELSE resolving[y]],
           \A d \in Clients : d /= resolving[x].client =>
               /\ Naming!Cached(d)' => Naming!Cached(d)
               /\ Naming!HasFailed(d)' => Naming!HasFailed(d)
    PROVE  /\ FlightsInOrder' /\ SharesInOrder'
           /\ flights' \subseteq Clients /\ IsFiniteSet(flights')
           /\ shares' \in [Requesters -> Nat]
           /\ resolving' \in [Calls -> Going \cup {Naming!Idle}]
<1>1. PICK c \in Clients, r \in Requesters :
         c = resolving[x].client /\ r = resolving[x].by
  BY IdleCall DEF LookupInv, LookupTyped, Flies, Going
<1>2. /\ \A y \in Calls : resolving'[y] =
            IF y = x \/ Naming!Awaits(y, c) THEN Naming!Idle ELSE resolving[y]
      /\ resolving' \in [Calls -> Going \cup {Naming!Idle}]
  BY <1>1 DEF LookupInv, LookupTyped
<1>3. \A y \in Calls : /\ Flies(y)' <=> (y /= x /\ Flies(y))
                       /\ Flies(y)' => resolving'[y] = resolving[y]
  BY <1>2, IdleCall DEF Flies, Naming!Awaits
<1>4. IsFiniteSet(flights) /\ flights \subseteq Clients
      /\ Cardinality(flights) \in Nat /\ Cardinality(flights) <= MAX_IN_FLIGHT
  BY FS_CardinalityType DEF LookupInv, LookupTyped, FlightsInOrder
<1>5. /\ IsFiniteSet(flights') /\ flights' \subseteq Clients
      /\ Cardinality(flights') <= MAX_IN_FLIGHT
  <2>1. /\ IsFiniteSet(flights') /\ Cardinality(flights') \in Nat
        /\ Cardinality(flights') <= Cardinality(flights)
    BY <1>4, FS_Subset, FS_CardinalityType
  <2> QED BY <1>4, <2>1, LookupNumbers
<1>6. \A y \in Calls : Flies(y) /\ resolving[y].client = c => y = x
  BY <1>1 DEF LookupInv, FlightsInOrder
<1>7. FlightsInOrder'
  <2>1. \A y \in Calls :
           resolving'[y].at /= "idle" => resolving'[y].client \in flights'
    <3>1. SUFFICES ASSUME NEW y \in Calls, resolving'[y].at /= "idle"
                   PROVE  resolving'[y].client \in flights'
      OBVIOUS
    <3>2. /\ resolving'[y] = resolving[y] /\ y /= x
          /\ ~Naming!Awaits(y, c) /\ resolving[y].at /= "idle"
      BY <1>2, <3>1, IdleCall
    <3>3. resolving[y] \in Going
      BY <3>2, IdleCall DEF LookupInv, LookupTyped
    <3>4. resolving[y].client /= c
      BY <1>6, <3>2, <3>3 DEF Going, Flies, Naming!Awaits
    <3>5. resolving[y].client \in flights
      BY <3>2 DEF LookupInv, FlightsInOrder
    <3> QED BY <1>1, <3>2, <3>4, <3>5
  <2>2. \A y, z \in Calls :
           Flies(y)' /\ Flies(z)'
             /\ resolving'[y].client = resolving'[z].client => y = z
    BY <1>3 DEF LookupInv, FlightsInOrder
  <2>3. \A d \in flights' :
           \E y \in Calls : Flies(y)' /\ resolving'[y].client = d
    <3>1. SUFFICES ASSUME NEW d \in flights'
                   PROVE  \E y \in Calls :
                             Flies(y)' /\ resolving'[y].client = d
      OBVIOUS
    <3>2. d \in flights /\ d /= c
      BY <1>1
    <3>3. PICK y \in Calls : Flies(y) /\ resolving[y].client = d
      BY <3>2 DEF LookupInv, FlightsInOrder
    <3>4. y /= x
      BY <1>1, <3>2, <3>3
    <3> QED BY <1>3, <3>3, <3>4
  <2>4. \A d \in flights' : ~Naming!Cached(d)' /\ ~Naming!HasFailed(d)'
    BY <1>4 DEF LookupInv, FlightsInOrder
  <2> QED BY <1>5, <2>1, <2>2, <2>3, <2>4 DEF FlightsInOrder
<1>8. \A p \in Requesters : IsFiniteSet(FliesFor(p))
  BY LookupNumbers, FS_Subset DEF FliesFor
<1>9. shares \in [Requesters -> Nat]
      /\ \A p \in Requesters : shares[p] = Cardinality(FliesFor(p))
                               /\ shares[p] <= MAX_IN_FLIGHT_EACH
  BY DEF LookupInv, LookupTyped, SharesInOrder
<1>10. ASSUME NEW p \in Requesters
       PROVE  /\ shares'[p] = Cardinality(FliesFor(p)')
              /\ shares'[p] <= MAX_IN_FLIGHT_EACH /\ shares'[p] \in Nat
  <2>1. CASE p = r
    <3>1. FliesFor(p)' = FliesFor(p) \ {x} /\ x \in FliesFor(p)
      BY <1>1, <1>3, <2>1 DEF FliesFor
    <3>2. /\ Cardinality(FliesFor(p)') = Cardinality(FliesFor(p)) - 1
          /\ Cardinality(FliesFor(p)') \in Nat
      BY <1>8, <3>1, FS_RemoveElement, FS_CardinalityType
    <3>3. shares'[p] = shares[p] - 1
      BY <1>1, <1>9, <2>1
    <3> QED BY <1>9, <3>2, <3>3, LookupNumbers
  <2>2. CASE p /= r
    <3>1. FliesFor(p)' = FliesFor(p)
      BY <1>1, <1>3, <2>2 DEF FliesFor
    <3>2. shares'[p] = shares[p]
      BY <1>1, <1>9, <2>2
    <3> QED BY <1>9, <3>1, <3>2
  <2> QED BY <2>1, <2>2
<1>11. SharesInOrder' /\ shares' \in [Requesters -> Nat]
  BY <1>9, <1>10 DEF SharesInOrder
<1> QED BY <1>2, <1>5, <1>7, <1>11

LEMMA FetchedKeeps ==
    ASSUME LookupInv, NEW x \in Calls, Naming!Fetched(x) PROVE LookupInv'
<1>1. Flies(x) /\ UNCHANGED docs
  BY DEF Naming!Fetched, Flies
<1>2. PICK c \in Clients :
         c = resolving[x].client /\ c \in flights
  BY <1>1, IdleCall DEF LookupInv, LookupTyped, FlightsInOrder, Flies, Going
<1>3. /\ flights' = flights \ {resolving[x].client}
      /\ shares' = [shares EXCEPT ![resolving[x].by] = @ - 1]
      /\ resolving' = [y \in Calls |->
             IF y = x \/ Naming!Awaits(y, resolving[x].client)
             THEN Naming!Idle ELSE resolving[y]]
  BY DEF Naming!Fetched, Naming!GivenBack, Naming!CountOf, LookupInv,
     LookupTyped
<1>4. /\ cached \in Seq(Naming!Entries) /\ Len(cached) <= CACHE_ENTRIES
      /\ \A i, j \in DOMAIN cached :
            cached[i].client = cached[j].client => i = j
      /\ \A i \in DOMAIN cached :
            /\ cached[i].doc \in Naming!Own
            /\ cached[i].fresh => outcome[cached[i].client] = "well"
      /\ failures \subseteq Naming!Failures /\ IsFiniteSet(failures)
      /\ Cardinality(failures) <= CACHE_ENTRIES
      /\ \A f \in failures : f.fresh => outcome[f.client] = "failed"
      /\ \A i \in DOMAIN cached : cached[i] \in Naming!Entries
      /\ ~Naming!Cached(c) /\ ~Naming!HasFailed(c)
      /\ outcome \in [Clients -> {"never", "well", "failed"}]
  BY <1>2, SameCount, ElementOfSeq DEF LookupInv, LookupTyped,
     FlightsInOrder, Naming!MemoryIsTrue
<1>5. CASE Naming!IsTheirs(docs[c])
  <2>1. PICK ttl \in BOOLEAN :
           cached' = Naming!Stored([client |-> c, doc |-> docs[c],
                                    fresh |-> ttl])
    BY <1>2, <1>5 DEF Naming!Fetched
  <2> DEFINE e == [client |-> c, doc |-> docs[c], fresh |-> ttl]
  <2>2. e \in Naming!Entries /\ e.client = c /\ e.doc \in Naming!Own
    BY <1>5 DEF Naming!Entries, Naming!IsTheirs
  <2>3. /\ UNCHANGED failures
        /\ outcome' = [outcome EXCEPT ![c] = "well"]
    BY <1>2, <1>5 DEF Naming!Fetched
  <2>4. /\ cached' \in Seq(Naming!Entries) /\ Len(cached') <= CACHE_ENTRIES
        /\ \A i, j \in DOMAIN cached' :
              cached'[i].client = cached'[j].client => i = j
        /\ \A i \in DOMAIN cached' :
              \/ cached'[i] = e
              \/ /\ cached'[i].client /= c
                 /\ \E j \in DOMAIN cached : cached'[i] = cached[j]
    BY <2>1, <2>2, StoredIs
  <2>5. /\ outcome' \in [Clients -> {"never", "well", "failed"}]
        /\ outcome'[c] = "well"
        /\ \A d \in Clients : d /= c => outcome'[d] = outcome[d]
    BY <1>4, <2>3
  <2>6. \A i \in DOMAIN cached' :
           /\ cached'[i].doc \in Naming!Own
           /\ cached'[i].fresh => outcome'[cached'[i].client] = "well"
    <3>1. SUFFICES ASSUME NEW i \in DOMAIN cached'
                   PROVE  /\ cached'[i].doc \in Naming!Own
                          /\ cached'[i].fresh =>
                                outcome'[cached'[i].client] = "well"
      OBVIOUS
    <3>2. CASE cached'[i] = e
      BY <2>2, <2>5, <3>2
    <3>3. CASE /\ cached'[i].client /= c
               /\ \E j \in DOMAIN cached : cached'[i] = cached[j]
      <4>1. PICK j \in DOMAIN cached : cached'[i] = cached[j]
        BY <3>3
      <4>2. cached[j].client \in Clients /\ cached[j].client /= c
        BY <1>4, <3>3, <4>1 DEF Naming!Entries
      <4> QED BY <1>4, <2>5, <4>1, <4>2
    <3> QED BY <2>4, <3>2, <3>3
  <2>7. \A f \in failures' : f.fresh => outcome'[f.client] = "failed"
    <3>1. SUFFICES ASSUME NEW f \in failures, f.fresh
                   PROVE  outcome'[f.client] = "failed"
      BY <2>3
    <3>2. f.client \in Clients /\ f = [client |-> f.client, fresh |-> TRUE]
      BY <1>4, <3>1 DEF Naming!Failures
    <3>3. f.client /= c
      BY <1>4, <3>1, <3>2 DEF Naming!HasFailed
    <3> QED BY <1>4, <2>5, <3>1, <3>2, <3>3
  <2>8. \A d \in Clients : d /= c =>
           /\ Naming!Cached(d)' => Naming!Cached(d)
           /\ Naming!HasFailed(d)' => Naming!HasFailed(d)
    <3>1. ASSUME NEW d \in Clients, d /= c, Naming!Cached(d)'
          PROVE  Naming!Cached(d)
      <4>1. PICK i \in DOMAIN cached' :
               cached'[i].client = d /\ cached'[i].fresh
        BY <3>1 DEF Naming!Cached
      <4>2. PICK j \in DOMAIN cached : cached'[i] = cached[j]
        BY <2>2, <2>4, <3>1, <4>1
      <4> QED BY <4>1, <4>2 DEF Naming!Cached
    <3> QED BY <2>3, <3>1 DEF Naming!HasFailed
  <2>9. /\ FlightsInOrder' /\ SharesInOrder'
        /\ flights' \subseteq Clients /\ IsFiniteSet(flights')
        /\ shares' \in [Requesters -> Nat]
        /\ resolving' \in [Calls -> Going \cup {Naming!Idle}]
    BY <1>1, <1>2, <1>3, <2>8, FetchEnds
  <2>10. LookupTyped'
    BY <1>1, <1>4, <2>3, <2>4, <2>5, <2>9 DEF LookupInv, LookupTyped
  <2>11. Naming!MemoryIsTrue'
    BY <1>4, <2>3, <2>4, <2>6, <2>7, SameCount DEF Naming!MemoryIsTrue
  <2> QED BY <2>9, <2>10, <2>11 DEF LookupInv
<1>6. CASE ~Naming!IsTheirs(docs[c])
  <2>1. /\ failures' = Naming!Remembered(c) /\ UNCHANGED cached
        /\ outcome' = [outcome EXCEPT ![c] = "failed"]
    BY <1>2, <1>6 DEF Naming!Fetched
  <2>2. /\ failures' \subseteq Naming!Failures /\ IsFiniteSet(failures')
        /\ Cardinality(failures') <= CACHE_ENTRIES
        /\ \A f \in failures' : f.client = c \/ f \in failures
    BY <2>1, RememberedIs
  <2>3. /\ outcome' \in [Clients -> {"never", "well", "failed"}]
        /\ outcome'[c] = "failed"
        /\ \A d \in Clients : d /= c => outcome'[d] = outcome[d]
    BY <1>4, <2>1
  <2>4. \A f \in failures' : f.fresh => outcome'[f.client] = "failed"
    BY <1>4, <2>2, <2>3 DEF Naming!Failures
  <2>5. \A i \in DOMAIN cached' :
           /\ cached'[i].doc \in Naming!Own
           /\ cached'[i].fresh => outcome'[cached'[i].client] = "well"
    <3>1. SUFFICES ASSUME NEW i \in DOMAIN cached
                   PROVE  /\ cached[i].doc \in Naming!Own
                          /\ cached[i].fresh =>
                                outcome'[cached[i].client] = "well"
      BY <2>1
    <3>2. cached[i].client \in Clients
      BY <1>4 DEF Naming!Entries
    <3>3. cached[i].fresh => cached[i].client /= c
      BY <1>4 DEF Naming!Cached
    <3> QED BY <1>4, <2>3, <3>2, <3>3
  <2>6. \A d \in Clients : d /= c =>
           /\ Naming!Cached(d)' => Naming!Cached(d)
           /\ Naming!HasFailed(d)' => Naming!HasFailed(d)
    <3>1. ASSUME NEW d \in Clients, d /= c, Naming!HasFailed(d)'
          PROVE  Naming!HasFailed(d)
      <4>1. [client |-> d, fresh |-> TRUE] \in failures'
        BY <3>1 DEF Naming!HasFailed
      <4>2. [client |-> d, fresh |-> TRUE].client = d
        OBVIOUS
      <4> QED BY <2>2, <3>1, <4>1, <4>2 DEF Naming!HasFailed
    <3> QED BY <2>1, <3>1 DEF Naming!Cached
  <2>7. /\ FlightsInOrder' /\ SharesInOrder'
        /\ flights' \subseteq Clients /\ IsFiniteSet(flights')
        /\ shares' \in [Requesters -> Nat]
        /\ resolving' \in [Calls -> Going \cup {Naming!Idle}]
    BY <1>1, <1>2, <1>3, <2>6, FetchEnds
  <2>8. LookupTyped'
    BY <1>1, <1>4, <2>1, <2>2, <2>3, <2>7 DEF LookupInv, LookupTyped
  <2>9. Naming!MemoryIsTrue'
    BY <1>4, <2>1, <2>2, <2>4, <2>5, SameCount DEF Naming!MemoryIsTrue
  <2> QED BY <2>7, <2>8, <2>9 DEF LookupInv
<1> QED BY <1>5, <1>6

\* Less being fresh than was, all stays as it should be.
LEMMA AgesKeeps ==
    ASSUME LookupInv, Naming!Ages PROVE LookupInv'
<1>1. UNCHANGED <<docs, flights, shares, resolving, outcome>>
  BY DEF Naming!Ages
<1>2. /\ cached \in Seq(Naming!Entries) /\ Len(cached) <= CACHE_ENTRIES
      /\ DOMAIN cached = 1..Len(cached)
      /\ \A i, j \in DOMAIN cached :
            cached[i].client = cached[j].client => i = j
      /\ \A i \in DOMAIN cached :
            /\ cached[i].doc \in Naming!Own
            /\ cached[i].fresh => outcome[cached[i].client] = "well"
      /\ failures \subseteq Naming!Failures /\ IsFiniteSet(failures)
      /\ Cardinality(failures) <= CACHE_ENTRIES
      /\ \A f \in failures : f.fresh => outcome[f.client] = "failed"
      /\ \A i \in DOMAIN cached : cached[i] \in Naming!Entries
  BY SameCount, ElementOfSeq DEF LookupInv, LookupTyped,
     Naming!MemoryIsTrue
<1>3. ASSUME cached' \in Seq(Naming!Entries),
             failures' \subseteq Naming!Failures, IsFiniteSet(failures'),
             \A d \in Clients : /\ Naming!Cached(d)' => Naming!Cached(d)
                                /\ Naming!HasFailed(d)' => Naming!HasFailed(d),
             Naming!MemoryIsTrue'
      PROVE  LookupInv'
  <2>1. LookupTyped'
    BY <1>1, <1>3 DEF LookupInv, LookupTyped
  <2>2. FlightsInOrder'
    BY <1>1, <1>3 DEF LookupInv, LookupTyped, FlightsInOrder, Flies
  <2>3. SharesInOrder'
    BY <1>1 DEF LookupInv, SharesInOrder, FliesFor, Flies
  <2> QED BY <1>3, <2>1, <2>2, <2>3 DEF LookupInv
<1>4. ASSUME NEW i \in DOMAIN cached,
             cached' = [cached EXCEPT ![i].fresh = FALSE], UNCHANGED failures
      PROVE  LookupInv'
  <2>1. PICK e \in Naming!Entries :
           /\ cached' = [cached EXCEPT ![i] = e]
           /\ e.client = cached[i].client /\ e.doc = cached[i].doc
           /\ e.fresh = FALSE
    <3>1. cached[i] \in Naming!Entries
      BY <1>2
    <3>2. [cached[i] EXCEPT !.fresh = FALSE] \in Naming!Entries
      BY <3>1 DEF Naming!Entries
    <3> QED BY <1>4, <3>1, <3>2 DEF Naming!Entries
  <2>2. /\ cached' \in Seq(Naming!Entries) /\ Len(cached') = Len(cached)
        /\ DOMAIN cached' = DOMAIN cached
        /\ \A j \in DOMAIN cached : cached'[j] = IF j = i THEN e ELSE cached[j]
    BY <1>2, <2>1, ExceptSeq
  <2>3. \A j \in DOMAIN cached :
           /\ cached'[j].client = cached[j].client
           /\ cached'[j].doc = cached[j].doc
           /\ cached'[j].fresh => cached[j].fresh
    BY <2>1, <2>2
  <2>4. Naming!MemoryIsTrue'
    BY <1>1, <1>2, <1>4, <2>2, <2>3, SameCount DEF Naming!MemoryIsTrue
  <2>5. \A d \in Clients : /\ Naming!Cached(d)' => Naming!Cached(d)
                           /\ Naming!HasFailed(d)' => Naming!HasFailed(d)
    BY <1>4, <2>2, <2>3 DEF Naming!Cached, Naming!HasFailed
  <2> QED BY <1>2, <1>3, <1>4, <2>2, <2>4, <2>5
<1>5. ASSUME NEW f \in failures, UNCHANGED cached,
             failures' = (failures \ {f})
                           \cup {[f EXCEPT !.fresh = FALSE]}
      PROVE  LookupInv'
  <2>1. PICK g \in Naming!Failures :
           failures' = (failures \ {f}) \cup {g} /\ g.fresh = FALSE
    <3>1. [f EXCEPT !.fresh = FALSE] \in Naming!Failures
      BY <1>2 DEF Naming!Failures
    <3>2. [f EXCEPT !.fresh = FALSE].fresh = FALSE
      BY <1>2 DEF Naming!Failures
    <3> QED BY <1>5, <3>1, <3>2
  <2>2. /\ failures' \subseteq Naming!Failures /\ IsFiniteSet(failures')
        /\ Cardinality(failures') <= CACHE_ENTRIES
    <3>1. /\ IsFiniteSet(failures \ {f})
          /\ Cardinality(failures \ {f}) = Cardinality(failures) - 1
          /\ Cardinality(failures) \in Nat
      BY <1>2, <1>5, FS_RemoveElement, FS_CardinalityType
    <3>2. /\ IsFiniteSet(failures') /\ Cardinality(failures') \in Nat
          /\ Cardinality(failures') <= Cardinality(failures \ {f}) + 1
      BY <2>1, <3>1, OneMore
    <3> QED BY <1>2, <2>1, <3>1, <3>2, LookupNumbers
  <2>3. \A h \in failures' : h.fresh => h \in failures
    BY <2>1
  <2>4. Naming!MemoryIsTrue'
    BY <1>1, <1>2, <1>5, <2>2, <2>3, SameCount DEF Naming!MemoryIsTrue
  <2>5. \A d \in Clients : /\ Naming!Cached(d)' => Naming!Cached(d)
                           /\ Naming!HasFailed(d)' => Naming!HasFailed(d)
    <3>1. \A d \in Clients : [client |-> d, fresh |-> TRUE].fresh
      OBVIOUS
    <3> QED BY <1>5, <2>3, <3>1 DEF Naming!Cached, Naming!HasFailed
  <2> QED BY <1>2, <1>3, <1>5, <2>2, <2>4, <2>5
<1> QED BY <1>4, <1>5 DEF Naming!Ages

LEMMA DocumentKeeps ==
    ASSUME LookupInv, Naming!DocumentChanges PROVE LookupInv'
<1>1. PICK c \in Clients, d \in Naming!Docs : docs' = [docs EXCEPT ![c] = d]
  BY DEF Naming!DocumentChanges
<1>2. UNCHANGED <<cached, failures, flights, shares, resolving, outcome>>
  BY DEF Naming!DocumentChanges
<1>3. LookupTyped'
  BY <1>1, <1>2 DEF LookupInv, LookupTyped
<1> QED BY <1>2, <1>3 DEF LookupInv, FlightsInOrder, SharesInOrder,
       FliesFor, Flies, Naming!MemoryIsTrue, Naming!Cached, Naming!HasFailed

LEMMA LookupStep ==
    ASSUME LookupInv, [Naming!Next]_(Naming!vars) PROVE LookupInv'
<1>1. CASE UNCHANGED Naming!vars
  <2>1. UNCHANGED <<docs, cached, failures, flights, shares, resolving,
                    outcome>>
    BY <1>1 DEF Naming!vars
  <2> QED BY <2>1 DEF LookupInv, LookupTyped, FlightsInOrder, SharesInOrder,
         FliesFor, Flies, Naming!MemoryIsTrue, Naming!Cached,
         Naming!HasFailed
<1> QED BY <1>1, ResolvingKeeps, FetchedKeeps, AgesKeeps, DocumentKeeps
       DEF Naming!Next

LEMMA LookupHolds ==
    ASSUME LookupInv, [Naming!Next]_(Naming!vars)
    PROVE  Naming!LookupsAreFair'
<1>1. LookupInv'
  BY LookupStep
<1> QED BY <1>1, LookupIsFair, PTL

HIDE DEF docs, cached, failures, flights, shares, resolving, outcome

-----------------------------------------------------------------------------
(* The slots, by what ClientApproval has in them.                           *)

client  == s1
listed  == s2
admins  == s3
active  == s4
pages   == s5
asked   == s6
holder  == s7
decided == s8
turns   == s9

USE DEF client, listed, admins, active, pages, asked, holder, decided, turns

-----------------------------------------------------------------------------
(* Which client a tenant lets in.                                           *)

\* The row is the app's once the app decided, as it did last; the config's if
\* it approved what waited; and else nobody has decided.
RowInOrder ==
    /\ client.by = "none" => client \in {Letting!Absent, Letting!Pending}
    /\ client.by = "config" => client.status = "approved"
    /\ client.by = "app" =>
          client.status = decided.status /\ client.trust = decided.trust
    /\ client.by = "app" <=> decided.status /= "none"

\* A request goes by the config as it is.  What waited when another's row was
\* read isn't the app's while the config lists it; an admin who decides holds
\* the principals' lock, and of what the config lists lifts a refusal alone.
AskInOrder(u, q) ==
    /\ q.at /= "idle" => q.config = listed
    /\ q.at = "decide" /\ q.read = "pending" /\ listed /= "none" =>
          client.by /= "app"
    /\ q.at \in {"look", "settle"} => holder = u /\ u \in admins
    /\ q.at = "settle" /\ listed /= "none" =>
          q.action = "approve" /\ q.trust = listed /\ client.status = "refused"

AsksInOrder == \A u \in Deciders : AskInOrder(u, asked[u])

ApprovalInv == Letting!TypeOK /\ RowInOrder /\ AsksInOrder

LEMMA WordsApart ==
    /\ "none" \notin Labels /\ "unsaid" \notin Labels
    /\ Letting!Trusts = Labels \cup {"none"}
    /\ "nobody" \notin Deciders /\ MaxClientChanges \in Nat
BY OneServiceAssumption DEF Letting!Trusts, Letting!None

LEMMA ApprovalBegins ==
    ASSUME Letting!Init PROVE ApprovalInv
<1>1. Letting!TypeOK
  BY WordsApart DEF Letting!Init, Letting!TypeOK, Letting!Absent,
     Letting!Rows, Letting!None, Letting!Statuses, Letting!Blank,
     Letting!Pages, Letting!Idle, Letting!Requests, Letting!Actions,
     Letting!Nobody
<1>2. RowInOrder
  BY DEF Letting!Init, RowInOrder, Letting!Absent, Letting!None
<1>3. AsksInOrder
  BY DEF Letting!Init, AsksInOrder, AskInOrder, Letting!Idle
<1> QED BY <1>1, <1>2, <1>3 DEF ApprovalInv

\* What a row shows is a page.
LEMMA ShownIs ==
    ASSUME pages \in [Deciders -> Letting!Pages], NEW u \in Deciders,
           NEW r \in Letting!Rows, NEW l
    PROVE  Letting!Shown(u, r, l) \in [Deciders -> Letting!Pages]
BY WordsApart DEF Letting!Shown, Letting!Blank, Letting!Pages, Letting!Rows,
   Letting!None, Letting!Statuses

LEMMA KeptIs ==
    ASSUME NEW r \in Letting!Rows, NEW l \in Letting!Trusts
    PROVE  /\ Letting!Kept(r, l) \in Letting!Rows
           /\ \/ Letting!Kept(r, l) = r
              \/ /\ r.status = "pending" /\ l /= "none"
                 /\ Letting!Kept(r, l) = [status |-> "approved",
                                          by |-> "config", trust |-> l]
BY DEF Letting!Kept, Letting!Rows, Letting!Statuses, Letting!None

LEMMA RowsAre ==
    /\ Letting!Absent \in Letting!Rows /\ Letting!Pending \in Letting!Rows
    /\ Letting!Absent.status = "absent" /\ Letting!Absent.by = "none"
    /\ Letting!Pending.status = "pending" /\ Letting!Pending.by = "none"
BY WordsApart DEF Letting!Absent, Letting!Pending, Letting!Rows,
   Letting!Statuses, Letting!None

\* A client nobody decided on is the config's by its word.
LEMMA ConfigTakes ==
    ASSUME ApprovalInv, client.by /= "app", listed /= "none",
           client' = [status |-> "approved", by |-> "config",
                      trust |-> listed],
           UNCHANGED <<decided, listed>>
    PROVE  RowInOrder' /\ client' \in Letting!Rows
BY DEF ApprovalInv, RowInOrder, Letting!TypeOK, Letting!Rows,
   Letting!Statuses

LEMMA ByApp ==
    ASSUME ApprovalInv
    PROVE  /\ client.status = "refused" => client.by = "app"
           /\ client.status \in {"absent", "pending"} =>
                client.by = "none" \/ client.by = "app"
           /\ client.by \in {"none", "config", "app"}
           /\ client \in Letting!Rows
           /\ decided.status \in {"none", "approved", "refused"}
           /\ client.by = "app" => client.status \in {"approved", "refused"}
<1>1. client \in Letting!Rows
  BY DEF ApprovalInv, Letting!TypeOK
<1>2. client.by \in {"none", "config", "app"}
  BY <1>1 DEF Letting!Rows, Letting!None
<1>3. decided.status \in {"none", "approved", "refused"}
  BY DEF ApprovalInv, Letting!TypeOK, Letting!None
<1> QED BY <1>1, <1>2, <1>3, RowsAre DEF ApprovalInv, RowInOrder

-----------------------------------------------------------------------------
(* What each step keeps.                                                    *)

\* A row that stays, or that the config took: what is asked stays in order.
LEMMA AskStays ==
    ASSUME ApprovalInv, NEW u \in Deciders,
           UNCHANGED <<listed, admins, holder>>,
           \/ UNCHANGED client
           \/ client.status \in {"absent", "pending"} /\ client'.by /= "app"
           \/ client.by /= "app" /\ client'.by /= "app"
    PROVE  AskInOrder(u, asked[u])'
           \/ asked'[u] /= asked[u]
BY ByApp DEF ApprovalInv, AsksInOrder, AskInOrder

LEMMA AuthorizeKeeps ==
    ASSUME ApprovalInv, NEW u \in Deciders, Letting!Authorize(u)
    PROVE  ApprovalInv'
<1>1. /\ client \in Letting!Rows /\ listed \in Letting!Trusts
      /\ pages \in [Deciders -> Letting!Pages]
      /\ asked \in [Deciders -> Letting!Requests]
  BY DEF ApprovalInv, Letting!TypeOK
<1>2. CASE client.status = "absent"
  <2>1. /\ asked' = [asked EXCEPT ![u].at = "insert", ![u].config = listed]
        /\ UNCHANGED <<client, listed, admins, active, pages, holder,
                       decided, turns>>
    BY <1>2 DEF Letting!Authorize
  <2>2. /\ asked' \in [Deciders -> Letting!Requests]
        /\ asked'[u].at = "insert" /\ asked'[u].config = listed
        /\ \A v \in Deciders : v /= u => asked'[v] = asked[v]
    BY <1>1, <2>1 DEF Letting!Requests
  <2>3. AskInOrder(u, asked[u])'
    BY <2>1, <2>2 DEF AskInOrder
  <2>4. \A v \in Deciders : AskInOrder(v, asked[v])'
    BY <2>1, <2>2, <2>3, AskStays
  <2> QED BY <2>1, <2>2, <2>4 DEF ApprovalInv, AsksInOrder, RowInOrder,
         Letting!TypeOK
<1>3. CASE client.status /= "absent"
  <2>1. /\ client' = Letting!Kept(client, listed)
        /\ pages' = Letting!Shown(u, client', listed)
        /\ UNCHANGED <<listed, admins, active, asked, holder, decided, turns>>
    BY <1>3 DEF Letting!Authorize
  <2>2. client' \in Letting!Rows
    BY <1>1, <2>1, KeptIs
  <2>3. /\ client' /= client => client.status = "pending" /\ listed /= "none"
        /\ client' /= client => client' = [status |-> "approved",
                                           by |-> "config", trust |-> listed]
    BY <1>1, <2>1, KeptIs
  <2>4. pages' \in [Deciders -> Letting!Pages]
    BY <1>1, <2>1, <2>2, ShownIs
  <2>5. \A v \in Deciders : AskInOrder(v, asked[v])'
    BY <2>1, <2>3, AskStays
  <2>6. RowInOrder'
    BY <2>1, <2>3, ConfigTakes, ByApp DEF ApprovalInv, RowInOrder
  <2> QED BY <2>1, <2>2, <2>4, <2>5, <2>6 DEF ApprovalInv, AsksInOrder,
         Letting!TypeOK
<1> QED BY <1>2, <1>3

LEMMA FinishIs ==
    ASSUME asked \in [Deciders -> Letting!Requests], NEW u \in Deciders,
           Letting!Finish(u)
    PROVE  /\ asked' \in [Deciders -> Letting!Requests]
           /\ asked'[u].at = "idle"
           /\ \A v \in Deciders : v /= u => asked'[v] = asked[v]
BY WordsApart DEF Letting!Finish, Letting!Idle, Letting!Requests,
   Letting!Actions, Letting!Statuses, Letting!None

\* A request that is over, and a row as it was or the config's.
LEMMA AnsweredKeeps ==
    ASSUME ApprovalInv, NEW u \in Deciders, Letting!Finish(u),
           client' \in Letting!Rows, RowInOrder',
           pages' \in [Deciders -> Letting!Pages],
           \/ UNCHANGED client
           \/ client.status \in {"absent", "pending"} /\ client'.by /= "app"
           \/ client.by /= "app" /\ client'.by /= "app",
           UNCHANGED <<listed, admins, active, holder, decided, turns>>
    PROVE  ApprovalInv'
<1>1. asked \in [Deciders -> Letting!Requests]
  BY DEF ApprovalInv, Letting!TypeOK
<1>2. AskInOrder(u, asked[u])'
  BY <1>1, FinishIs DEF AskInOrder
<1>3. \A v \in Deciders : AskInOrder(v, asked[v])'
  BY <1>1, <1>2, FinishIs, AskStays
<1> QED BY <1>1, <1>3, FinishIs DEF ApprovalInv, AsksInOrder, Letting!TypeOK

LEMMA InsertKeeps ==
    ASSUME ApprovalInv, NEW u \in Deciders, Letting!Insert(u)
    PROVE  ApprovalInv'
<1>1. /\ client \in Letting!Rows /\ listed \in Letting!Trusts
      /\ pages \in [Deciders -> Letting!Pages]
      /\ asked \in [Deciders -> Letting!Requests]
  BY DEF ApprovalInv, Letting!TypeOK
<1>2. asked[u].at = "insert" /\ asked[u].config = listed
  BY DEF Letting!Insert, ApprovalInv, AsksInOrder, AskInOrder
<1>3. UNCHANGED <<listed, admins, active, holder, decided, turns>>
  BY DEF Letting!Insert
<1>4. CASE /\ client.status = "absent"
           /\ client' = Letting!Kept(Letting!Pending, listed)
           /\ pages' = Letting!Shown(u, client', listed)
           /\ Letting!Finish(u)
  <2>1. client' \in Letting!Rows /\ pages' \in [Deciders -> Letting!Pages]
    BY <1>1, <1>4, KeptIs, RowsAre, ShownIs
  <2>2. client.by = "none" /\ decided.status = "none"
    BY <1>4, ByApp DEF ApprovalInv, RowInOrder
  <2>3. CASE client' = Letting!Pending
    <3>1. RowInOrder'
      BY <1>3, <2>2, <2>3, RowsAre DEF RowInOrder
    <3> QED BY <1>3, <1>4, <2>1, <2>3, <3>1, RowsAre, AnsweredKeeps
  <2>4. CASE /\ listed /= "none"
             /\ client' = [status |-> "approved", by |-> "config",
                           trust |-> listed]
    <3>1. RowInOrder'
      BY <1>3, <2>2, <2>4, ConfigTakes
    <3> QED BY <1>3, <1>4, <2>1, <2>4, <3>1, AnsweredKeeps
  <2> QED BY <1>1, <1>4, <2>3, <2>4, KeptIs, RowsAre
<1>5. CASE /\ pages' = Letting!Shown(u, client, listed)
           /\ Letting!Finish(u) /\ UNCHANGED client
  <2>1. pages' \in [Deciders -> Letting!Pages]
    BY <1>1, <1>5, ShownIs
  <2>2. RowInOrder'
    BY <1>3, <1>5 DEF ApprovalInv, RowInOrder
  <2> QED BY <1>1, <1>3, <1>5, <2>1, <2>2, AnsweredKeeps
<1>6. CASE /\ client.status /= "absent"
           /\ asked' = [asked EXCEPT ![u].at = "decide",
                                     ![u].read = client.status]
           /\ UNCHANGED <<client, pages>>
  <2>1. /\ asked' \in [Deciders -> Letting!Requests]
        /\ asked'[u].at = "decide" /\ asked'[u].config = listed
        /\ asked'[u].read = client.status
        /\ \A v \in Deciders : v /= u => asked'[v] = asked[v]
    BY <1>1, <1>2, <1>6 DEF Letting!Requests, Letting!Rows
  <2>2. AskInOrder(u, asked[u])'
    BY <1>3, <1>6, <2>1, ByApp DEF AskInOrder
  <2>3. \A v \in Deciders : AskInOrder(v, asked[v])'
    BY <1>3, <1>6, <2>1, <2>2, AskStays
  <2> QED BY <1>3, <1>6, <2>1, <2>3 DEF ApprovalInv, AsksInOrder,
         RowInOrder, Letting!TypeOK
<1> QED BY <1>2, <1>4, <1>5, <1>6 DEF Letting!Insert

LEMMA DecideByConfigKeeps ==
    ASSUME ApprovalInv, NEW u \in Deciders, Letting!DecideByConfig(u)
    PROVE  ApprovalInv'
<1>1. /\ client \in Letting!Rows /\ listed \in Letting!Trusts
      /\ pages \in [Deciders -> Letting!Pages]
  BY DEF ApprovalInv, Letting!TypeOK
<1>2. asked[u].at = "decide" /\ AskInOrder(u, asked[u])
  BY DEF Letting!DecideByConfig, ApprovalInv, AsksInOrder
<1>3. /\ UNCHANGED <<listed, admins, active, holder, decided, turns>>
      /\ Letting!Finish(u) /\ pages' = Letting!Shown(u, client', listed)
  BY <1>2 DEF Letting!DecideByConfig, AskInOrder
<1>4. CASE UNCHANGED client
  <2>1. pages' \in [Deciders -> Letting!Pages]
    BY <1>1, <1>3, <1>4, ShownIs
  <2>2. RowInOrder'
    BY <1>3, <1>4 DEF ApprovalInv, RowInOrder
  <2> QED BY <1>1, <1>3, <1>4, <2>1, <2>2, AnsweredKeeps
<1>5. CASE /\ asked[u].read = "pending" /\ listed /= "none"
           /\ client' = Letting!Kept(Letting!Pending, listed)
  <2>1. client.by /= "app"
    BY <1>2, <1>5 DEF AskInOrder
  <2>2. client' = [status |-> "approved", by |-> "config", trust |-> listed]
    BY <1>5, RowsAre DEF Letting!Kept, Letting!None
  <2>3. RowInOrder' /\ client' \in Letting!Rows
    BY <1>3, <1>5, <2>1, <2>2, ConfigTakes
  <2>4. pages' \in [Deciders -> Letting!Pages]
    BY <1>1, <1>3, <2>3, ShownIs
  <2> QED BY <1>3, <2>1, <2>2, <2>3, <2>4, AnsweredKeeps
<1> QED BY <1>2, <1>4, <1>5 DEF Letting!DecideByConfig, AskInOrder,
       Letting!None

\* Pages turn, and nothing else.
LEMMA PagesTurn ==
    ASSUME ApprovalInv, pages' \in [Deciders -> Letting!Pages],
           UNCHANGED <<client, listed, admins, active, asked, holder,
                       decided, turns>>
    PROVE  ApprovalInv'
<1>1. \A v \in Deciders : AskInOrder(v, asked[v])'
  BY AskStays
<1> QED BY <1>1 DEF ApprovalInv, AsksInOrder, RowInOrder, Letting!TypeOK

LEMMA ConsentKeeps ==
    ASSUME ApprovalInv, NEW u \in Deciders, Letting!Consent(u)
    PROVE  ApprovalInv'
<1>1. /\ client \in Letting!Rows /\ listed \in Letting!Trusts
      /\ pages \in [Deciders -> Letting!Pages]
  BY DEF ApprovalInv, Letting!TypeOK
<1>2. Letting!Allowed(u) => Letting!approvedTrust(client, listed)
                              \in Letting!Trusts
  BY <1>1, WordsApart DEF Letting!Allowed, Letting!approvedTrust,
     Letting!configuredTrust, Letting!Rows, Letting!None
<1>3. pages' \in [Deciders -> Letting!Pages]
  BY <1>1, <1>2, WordsApart DEF Letting!Consent, Letting!Blank,
     Letting!Pages, Letting!Statuses, Letting!None
<1> QED BY <1>3, PagesTurn DEF Letting!Consent

LEMMA LeavesKeeps ==
    ASSUME ApprovalInv, NEW u \in Deciders, Letting!Leaves(u)
    PROVE  ApprovalInv'
<1>1. pages' \in [Deciders -> Letting!Pages]
  BY WordsApart DEF ApprovalInv, Letting!TypeOK, Letting!Leaves,
     Letting!Blank, Letting!Pages, Letting!Statuses, Letting!None
<1> QED BY <1>1, PagesTurn DEF Letting!Leaves

\* A request as it came to be by a step.
LEMMA AsksGo ==
    ASSUME ApprovalInv, NEW u \in Deciders,
           asked' \in [Deciders -> Letting!Requests],
           AskInOrder(u, asked[u])',
           \A v \in Deciders : v /= u => asked'[v] = asked[v],
           pages' \in [Deciders -> Letting!Pages],
           UNCHANGED <<client, listed, admins, active, holder, decided,
                       turns>>
    PROVE  ApprovalInv'
<1>1. \A v \in Deciders : AskInOrder(v, asked[v])'
  BY AskStays
<1> QED BY <1>1 DEF ApprovalInv, AsksInOrder, RowInOrder, Letting!TypeOK

LEMMA AskIs ==
    ASSUME ApprovalInv, NEW u \in Deciders, NEW action \in Letting!Actions,
           NEW seen \in Letting!Statuses, NEW trust \in Letting!Trusts,
           Letting!Ask(u, action, seen, trust), holder' = holder,
           UNCHANGED <<client, listed, admins>>
    PROVE  /\ asked' \in [Deciders -> Letting!Requests]
           /\ AskInOrder(u, asked[u])'
           /\ \A v \in Deciders : v /= u => asked'[v] = asked[v]
<1>1. /\ asked \in [Deciders -> Letting!Requests]
      /\ listed \in Letting!Trusts
  BY DEF ApprovalInv, Letting!TypeOK
<1>2. /\ asked' \in [Deciders -> Letting!Requests]
      /\ asked'[u].at = "lock" /\ asked'[u].config = listed
      /\ \A v \in Deciders : v /= u => asked'[v] = asked[v]
  BY <1>1, WordsApart DEF Letting!Ask, Letting!Idle, Letting!Requests,
     Letting!Statuses, Letting!None
<1> QED BY <1>2 DEF AskInOrder

LEMMA DecideByFormKeeps ==
    ASSUME ApprovalInv, NEW u \in Deciders, Letting!DecideByForm(u)
    PROVE  ApprovalInv'
<1>1. PICK action \in {"approve", "refuse"} :
        \E trust \in Letting!Labelled(action) :
          Letting!Ask(u, action, pages[u].seen, trust)
  BY DEF Letting!DecideByForm
<1>2. PICK trust \in Letting!Labelled(action) :
        Letting!Ask(u, action, pages[u].seen, trust)
  BY <1>1
<1>3. trust \in Letting!Trusts
  BY WordsApart DEF Letting!Labelled, Letting!None
<1>4. pages \in [Deciders -> Letting!Pages]
  BY DEF ApprovalInv, Letting!TypeOK
<1>5. pages[u].seen \in Letting!Statuses /\ action \in Letting!Actions
  BY <1>4 DEF Letting!Pages, Letting!Actions
<1>6. pages' \in [Deciders -> Letting!Pages]
  BY <1>4, WordsApart DEF Letting!DecideByForm, Letting!Blank,
     Letting!Pages, Letting!Statuses, Letting!None
<1>7. UNCHANGED <<client, listed, admins, active, holder, decided, turns>>
  BY DEF Letting!DecideByForm
<1> QED BY <1>2, <1>3, <1>5, <1>6, <1>7, AskIs, AsksGo

LEMMA DecideByApiKeeps ==
    ASSUME ApprovalInv, NEW u \in Deciders, Letting!DecideByApi(u)
    PROVE  ApprovalInv'
<1>1. PICK action \in Letting!Actions :
        \E trust \in Letting!Labelled(action) :
          Letting!Ask(u, action, "absent", trust)
  BY DEF Letting!DecideByApi
<1>2. PICK trust \in Letting!Labelled(action) :
        Letting!Ask(u, action, "absent", trust)
  BY <1>1
<1>3. trust \in Letting!Trusts /\ "absent" \in Letting!Statuses
  BY WordsApart DEF Letting!Labelled, Letting!None, Letting!Statuses
<1>4. /\ UNCHANGED <<client, listed, admins, active, holder, decided,
                     turns, pages>>
      /\ pages \in [Deciders -> Letting!Pages]
  BY DEF Letting!DecideByApi, ApprovalInv, Letting!TypeOK
<1> QED BY <1>2, <1>3, <1>4, AskIs, AsksGo

LEMMA LockKeeps ==
    ASSUME ApprovalInv, NEW u \in Deciders, Letting!Lock(u)
    PROVE  ApprovalInv'
<1>1. /\ asked \in [Deciders -> Letting!Requests]
      /\ pages \in [Deciders -> Letting!Pages]
      /\ asked[u].at = "lock" /\ asked[u].config = listed
      /\ holder = "nobody"
      /\ UNCHANGED <<client, listed, admins, active, pages, decided, turns>>
  BY DEF ApprovalInv, Letting!TypeOK, AsksInOrder, AskInOrder,
     Letting!Lock, Letting!Held, Letting!Nobody
<1>2. CASE Letting!Finish(u) /\ UNCHANGED holder
  <2>1. AskInOrder(u, asked[u])'
    BY <1>1, <1>2, FinishIs DEF AskInOrder
  <2> QED BY <1>1, <1>2, <2>1, FinishIs, AsksGo
<1>3. CASE /\ u \in admins /\ holder' = u
           /\ asked' = [asked EXCEPT ![u].at = "look"]
  <2>1. /\ asked' \in [Deciders -> Letting!Requests]
        /\ asked'[u].at = "look" /\ asked'[u].config = listed
        /\ \A v \in Deciders : v /= u => asked'[v] = asked[v]
    BY <1>1, <1>3 DEF Letting!Requests
  <2>2. AskInOrder(u, asked[u])'
    BY <1>1, <1>3, <2>1 DEF AskInOrder
  <2>3. ASSUME NEW v \in Deciders, v /= u PROVE AskInOrder(v, asked[v])'
    <3>1. asked[v].at \notin {"look", "settle"}
      BY <1>1, WordsApart DEF ApprovalInv, AsksInOrder, AskInOrder
    <3> QED BY <1>1, <2>1, <2>3, <3>1
           DEF ApprovalInv, AsksInOrder, AskInOrder
  <2>4. AsksInOrder'
    BY <2>2, <2>3 DEF AsksInOrder
  <2> QED BY <1>1, <1>3, <2>1, <2>4 DEF ApprovalInv, RowInOrder,
         Letting!TypeOK
<1> QED BY <1>2, <1>3 DEF Letting!Lock, Letting!Held

\* A decision that is over gives the lock back.
LEMMA RefusedKeeps ==
    ASSUME ApprovalInv, NEW u \in Deciders, Letting!Refused(u),
           asked[u].at \in {"look", "settle"},
           UNCHANGED <<listed, admins, active, pages, turns>>,
           RowInOrder', client' \in Letting!Rows,
           decided' \in [status : {"none", "approved", "refused"},
                         trust : Letting!Trusts],
           UNCHANGED client \/ (listed /= "none" => client.by = "app")
    PROVE  ApprovalInv'
<1>1. /\ asked \in [Deciders -> Letting!Requests]
      /\ holder = u /\ Letting!Finish(u) /\ holder' = "nobody"
  BY DEF ApprovalInv, Letting!TypeOK, AsksInOrder, AskInOrder,
     Letting!Refused, Letting!Nobody
<1>2. AskInOrder(u, asked[u])'
  BY <1>1, FinishIs DEF AskInOrder
<1>3. ASSUME NEW v \in Deciders, v /= u PROVE AskInOrder(v, asked[v])'
  <2>1. AskInOrder(v, asked[v]) /\ asked'[v] = asked[v]
    BY <1>1, <1>3, FinishIs DEF ApprovalInv, AsksInOrder
  <2>2. asked[v].at \notin {"look", "settle"}
    BY <1>1, <1>3, <2>1 DEF AskInOrder
  <2> QED BY <2>1, <2>2 DEF AskInOrder
<1>4. AsksInOrder'
  BY <1>2, <1>3 DEF AsksInOrder
<1> QED BY <1>1, <1>4, FinishIs DEF ApprovalInv, Letting!TypeOK,
       Letting!None, Letting!Nobody

LEMMA LookAtKeeps ==
    ASSUME ApprovalInv, NEW u \in Deciders, Letting!Look(u)
    PROVE  ApprovalInv'
<1>1. /\ asked \in [Deciders -> Letting!Requests]
      /\ pages \in [Deciders -> Letting!Pages]
      /\ client \in Letting!Rows /\ listed \in Letting!Trusts
      /\ decided \in [status : {"none", "approved", "refused"},
                      trust : Letting!Trusts]
      /\ asked[u].at = "look" /\ AskInOrder(u, asked[u])
      /\ UNCHANGED <<client, listed, admins, active, pages, decided, turns>>
  BY DEF ApprovalInv, Letting!TypeOK, AsksInOrder, Letting!Look,
     Letting!None
<1>2. CASE Letting!Refused(u)
  <2>1. RowInOrder'
    BY <1>1 DEF ApprovalInv, RowInOrder
  <2> QED BY <1>1, <1>2, <2>1, RefusedKeeps
<1>3. CASE /\ client.status /= "absent"
           /\ ~Letting!ConfigDecides(asked[u], client.status)
           /\ asked' = [asked EXCEPT
                 ![u].at = "settle", ![u].read = client.status,
                 ![u].trust = IF asked[u].config /= "none"
                              THEN asked[u].config ELSE @]
           /\ UNCHANGED holder
  <2>1. asked[u].config = listed /\ holder = u /\ u \in admins
    BY <1>1 DEF AskInOrder
  <2> DEFINE trust == IF listed /= "none" THEN listed ELSE asked[u].trust
  <2>2. asked' = [asked EXCEPT ![u] =
                   [asked[u] EXCEPT !.at = "settle", !.read = client.status,
                                    !.trust = trust]]
    BY <1>1, <1>3, <2>1 DEF Letting!Requests
  <2>3. trust \in Letting!Trusts /\ asked[u] \in Letting!Requests
    BY <1>1 DEF Letting!Requests
  <2>4. /\ asked' \in [Deciders -> Letting!Requests]
        /\ asked'[u].at = "settle" /\ asked'[u].config = listed
        /\ asked'[u].action = asked[u].action
        /\ listed /= "none" => asked'[u].trust = listed
        /\ \A v \in Deciders : v /= u => asked'[v] = asked[v]
    <3> HIDE DEF trust
    <3>1. [asked[u] EXCEPT !.at = "settle", !.read = client.status,
                           !.trust = trust] \in Letting!Requests
      BY <1>1, <2>3 DEF Letting!Requests, Letting!Rows
    <3>2. listed /= "none" => trust = listed
      BY DEF trust
    <3> QED BY <1>1, <2>1, <2>2, <2>3, <3>1, <3>2 DEF Letting!Requests
  <2>5. listed /= "none" =>
            asked[u].action = "approve" /\ client.status = "refused"
    BY <1>3, <2>1 DEF Letting!ConfigDecides, Letting!None
  <2>6. AskInOrder(u, asked[u])'
    BY <1>1, <1>3, <2>1, <2>4, <2>5 DEF AskInOrder
  <2> QED BY <1>1, <1>3, <2>4, <2>6, AsksGo
<1> QED BY <1>2, <1>3 DEF Letting!Look, Letting!None

LEMMA SettleKeeps ==
    ASSUME ApprovalInv, NEW u \in Deciders, Letting!Settle(u)
    PROVE  ApprovalInv'
<1> DEFINE q == asked[u]
<1>1. /\ q \in Letting!Requests /\ client \in Letting!Rows
      /\ decided \in [status : {"none", "approved", "refused"},
                      trust : Letting!Trusts]
      /\ q.at = "settle" /\ AskInOrder(u, q)
      /\ Letting!Refused(u)
      /\ UNCHANGED <<listed, admins, active, pages, turns>>
  BY DEF ApprovalInv, Letting!TypeOK, AsksInOrder, Letting!Settle,
     Letting!None
<1>2. listed /= "none" => client.by = "app"
  BY <1>1, ByApp DEF AskInOrder
<1>3. CASE UNCHANGED <<client, decided>>
  <2>1. RowInOrder'
    BY <1>3 DEF ApprovalInv, RowInOrder
  <2> QED BY <1>1, <1>3, <2>1, RefusedKeeps
<1>4. CASE \E status \in {"approved", "refused"}, trust \in Letting!Trusts :
             /\ client' = [status |-> status, by |-> "app", trust |-> trust]
             /\ decided' = [status |-> status, trust |-> trust]
  <2>1. PICK status \in {"approved", "refused"}, trust \in Letting!Trusts :
             /\ client' = [status |-> status, by |-> "app", trust |-> trust]
             /\ decided' = [status |-> status, trust |-> trust]
    BY <1>4
  <2>2. /\ RowInOrder' /\ client' \in Letting!Rows
        /\ decided' \in [status : {"none", "approved", "refused"},
                         trust : Letting!Trusts]
    BY <2>1 DEF RowInOrder, Letting!Rows, Letting!Statuses
  <2> QED BY <1>1, <1>2, <2>2, RefusedKeeps
<1> QED
  <2>1. q.trust \in Letting!Trusts /\ "none" \in Letting!Trusts
    BY <1>1, WordsApart DEF Letting!Requests
  <2> QED BY <1>3, <1>4, <2>1 DEF Letting!Settle, Letting!None

LEMMA ConfigChangesKeeps ==
    ASSUME ~Rolling, ApprovalInv, Letting!ConfigChanges
    PROVE  ApprovalInv'
<1>1. /\ \A v \in Deciders : asked[v].at = "idle"
      /\ listed' \in Letting!Trusts /\ turns' = turns + 1
      /\ turns < MaxClientChanges
      /\ UNCHANGED <<client, admins, active, pages, asked, holder, decided>>
  BY DEF Letting!ConfigChanges, Letting!Quiet, Letting!Changes
<1>2. AsksInOrder'
  BY <1>1 DEF AsksInOrder, AskInOrder
<1> QED BY <1>1, <1>2, WordsApart DEF ApprovalInv, RowInOrder, Letting!TypeOK

LEMMA AdminsChangeKeeps ==
    ASSUME ApprovalInv, NEW u \in Deciders, Letting!AdminsChange(u)
    PROVE  ApprovalInv'
<1>1. /\ holder = "nobody" /\ turns' = turns + 1 /\ turns < MaxClientChanges
      /\ UNCHANGED <<client, listed, pages, asked, holder, decided>>
  BY DEF Letting!AdminsChange, Letting!Changes, Letting!Nobody
<1>2. admins' \subseteq Deciders /\ active' \subseteq Deciders
  BY DEF Letting!AdminsChange, ApprovalInv, Letting!TypeOK
<1>3. \A v \in Deciders : asked[v].at \notin {"look", "settle"}
  BY <1>1, WordsApart DEF ApprovalInv, AsksInOrder, AskInOrder
<1>4. AsksInOrder'
  BY <1>1, <1>3 DEF ApprovalInv, AsksInOrder, AskInOrder
<1> QED BY <1>1, <1>2, <1>4, WordsApart DEF ApprovalInv, RowInOrder,
       Letting!TypeOK

LEMMA LapsesKeeps ==
    ASSUME ApprovalInv, Letting!Lapses
    PROVE  ApprovalInv'
<1>1. /\ client.status = "pending" /\ client' = Letting!Absent
      /\ turns' = turns + 1 /\ turns < MaxClientChanges
      /\ UNCHANGED <<listed, admins, active, pages, asked, holder, decided>>
  BY DEF Letting!Lapses, Letting!Changes
<1>2. client.by = "none" /\ decided.status = "none"
  BY <1>1, ByApp DEF ApprovalInv, RowInOrder
<1>3. RowInOrder'
  BY <1>1, <1>2, RowsAre DEF RowInOrder
<1>4. \A v \in Deciders : AskInOrder(v, asked[v])'
  BY <1>1, RowsAre, AskStays
<1> QED BY <1>1, <1>3, <1>4, RowsAre, WordsApart DEF ApprovalInv,
       AsksInOrder, Letting!TypeOK

LEMMA ApprovalStep ==
    ASSUME ~Rolling, ApprovalInv, [Letting!Next]_(Letting!vars)
    PROVE  ApprovalInv'
<1>1. CASE UNCHANGED Letting!vars
  <2>1. UNCHANGED <<client, listed, admins, active, pages, asked, holder,
                    decided, turns>>
    BY <1>1 DEF Letting!vars
  <2> QED BY <2>1, PagesTurn DEF ApprovalInv, Letting!TypeOK
<1>2. ASSUME NEW u \in Deciders,
             \/ Letting!Authorize(u) \/ Letting!Insert(u)
             \/ Letting!DecideByConfig(u) \/ Letting!Consent(u)
             \/ Letting!DecideByForm(u) \/ Letting!DecideByApi(u)
             \/ Letting!Lock(u) \/ Letting!Look(u) \/ Letting!Settle(u)
             \/ Letting!AdminsChange(u) \/ Letting!Leaves(u)
      PROVE  ApprovalInv'
  BY <1>2, AuthorizeKeeps, InsertKeeps, DecideByConfigKeeps, ConsentKeeps,
     DecideByFormKeeps, DecideByApiKeeps, LockKeeps, LookAtKeeps,
     SettleKeeps, AdminsChangeKeeps, LeavesKeeps
<1> QED BY <1>1, <1>2, ConfigChangesKeeps, LapsesKeeps DEF Letting!Next

-----------------------------------------------------------------------------
(* What a step may do.                                                      *)

LEMMA DueAsItStands ==
    ASSUME ApprovalInv PROVE Letting!InOrder
<1>1. client \in Letting!Rows /\ listed \in Letting!Trusts
  BY DEF ApprovalInv, Letting!TypeOK
<1>2. SUFFICES ASSUME client.status /= "absent"
               PROVE  Letting!approvedTrust(client, listed) = Letting!Due
  BY DEF Letting!InOrder
<1>3. listed /= "unsaid"
  BY <1>1, WordsApart
<1>4. CASE client.by = "app"
  BY <1>2, <1>3, <1>4, ByApp DEF ApprovalInv, RowInOrder, Letting!Due,
     Letting!approvedTrust, Letting!configuredTrust, Letting!None
<1>5. CASE client.by = "config"
  BY <1>2, <1>3, <1>5, ByApp DEF ApprovalInv, RowInOrder, Letting!Due,
     Letting!approvedTrust, Letting!configuredTrust, Letting!None
<1>6. CASE client.by = "none"
  BY <1>2, <1>3, <1>6, ByApp, RowsAre DEF ApprovalInv, RowInOrder,
     Letting!Due, Letting!approvedTrust, Letting!configuredTrust,
     Letting!None
<1> QED BY <1>4, <1>5, <1>6, ByApp

\* The step that makes the row the app's is that of who settles it.
LEMMA OnlySettled ==
    ASSUME ApprovalInv, Letting!Next, client' /= client, client'.by = "app",
           NEW u \in Deciders, asked[u].at = "settle"
    PROVE  Letting!Settle(u)
<1>1. ASSUME NEW v \in Deciders, Letting!Settle(v) PROVE v = u
  BY <1>1 DEF ApprovalInv, AsksInOrder, AskInOrder, Letting!Settle
<1>2. ASSUME NEW l PROVE Letting!Kept(client, l) /= client =>
                           Letting!Kept(client, l).by /= "app"
  BY DEF Letting!Kept
<1>3. ASSUME NEW l PROVE Letting!Kept(Letting!Pending, l).by /= "app"
  BY RowsAre DEF Letting!Kept
<1>4. ASSUME NEW v \in Deciders PROVE ~Letting!Authorize(v)
  BY <1>2 DEF Letting!Authorize
<1>5. ASSUME NEW v \in Deciders PROVE ~Letting!Insert(v)
  BY <1>3 DEF Letting!Insert
<1>6. ASSUME NEW v \in Deciders PROVE ~Letting!DecideByConfig(v)
  BY <1>3 DEF Letting!DecideByConfig
<1>7. ASSUME NEW v \in Deciders
      PROVE  ~( \/ Letting!Consent(v) \/ Letting!DecideByForm(v)
                \/ Letting!DecideByApi(v) \/ Letting!Lock(v)
                \/ Letting!Look(v) \/ Letting!AdminsChange(v)
                \/ Letting!Leaves(v) )
  BY DEF Letting!Consent, Letting!DecideByForm, Letting!DecideByApi,
     Letting!Lock, Letting!Look, Letting!AdminsChange, Letting!Leaves
<1>8. ~Letting!ConfigChanges /\ ~Letting!Lapses
  BY RowsAre DEF Letting!ConfigChanges, Letting!Lapses
<1> QED BY <1>1, <1>4, <1>5, <1>6, <1>7, <1>8 DEF Letting!Next

\* And a page shows a code only by its consent.
LEMMA OnlyConsented ==
    ASSUME ApprovalInv, Letting!Next, NEW u \in Deciders,
           pages[u].shows = "consent", pages'[u].shows = "code"
    PROVE  Letting!Consent(u)
<1>1. pages \in [Deciders -> Letting!Pages]
  BY DEF ApprovalInv, Letting!TypeOK
<1>2. ASSUME NEW v \in Deciders, NEW r, NEW l
      PROVE  pages' /= Letting!Shown(v, r, l)
  <2>1. PICK p : /\ Letting!Shown(v, r, l) = [pages EXCEPT ![v] = p]
                 /\ p.shows \in {"consent", "decide", "nothing"}
    <3>1. [Letting!Blank EXCEPT !.shows = "consent"].shows = "consent"
      BY DEF Letting!Blank
    <3>2. [Letting!Blank EXCEPT !.shows = "decide", !.seen = r.status].shows
            = "decide"
      BY DEF Letting!Blank
    <3>3. Letting!Blank.shows = "nothing"
      BY DEF Letting!Blank
    <3> QED BY <3>1, <3>2, <3>3 DEF Letting!Shown
  <2> QED BY <1>1, <2>1
<1>3. pages' /= pages
  OBVIOUS
<1>4. ASSUME NEW v \in Deciders
      PROVE  ~( \/ Letting!Authorize(v) \/ Letting!Insert(v)
                \/ Letting!DecideByConfig(v) )
  BY <1>2, <1>3 DEF Letting!Authorize, Letting!Insert,
     Letting!DecideByConfig
<1>5. ASSUME NEW v \in Deciders
      PROVE  ~( \/ Letting!DecideByForm(v) \/ Letting!DecideByApi(v)
                \/ Letting!Lock(v) \/ Letting!Look(v) \/ Letting!Settle(v)
                \/ Letting!AdminsChange(v) \/ Letting!Leaves(v) )
  BY <1>1, <1>3 DEF Letting!DecideByForm, Letting!DecideByApi,
     Letting!Lock, Letting!Look, Letting!Settle, Letting!AdminsChange,
     Letting!Leaves, Letting!Blank
<1>6. ~Letting!ConfigChanges /\ ~Letting!Lapses
  BY <1>3 DEF Letting!ConfigChanges, Letting!Lapses
<1>7. ASSUME NEW v \in Deciders, Letting!Consent(v) PROVE v = u
  BY <1>1, <1>7 DEF Letting!Consent
<1> QED BY <1>4, <1>5, <1>6, <1>7 DEF Letting!Next

LEMMA ApprovalHolds ==
    ASSUME ~Rolling, ApprovalInv, [Letting!Next]_(Letting!vars)
    PROVE  Letting!AsDecided
<1>1. Letting!InOrder'
  BY ApprovalStep, DueAsItStands, PTL
<1>2. Letting!DecidedAsShown
  <2>1. SUFFICES ASSUME NEW u \in Deciders, asked[u].at = "settle",
                        client' /= client, client'.by = "app"
        PROVE  /\ u \in admins
               /\ asked[u].seen /= "absent" => client.status = asked[u].seen
               /\ asked[u].config /= "none" =>
                    client.status = "refused"
                    /\ client'.trust = asked[u].config
    BY DEF Letting!DecidedAsShown, Letting!None
  <2>2. Letting!Settle(u)
    BY <2>1, OnlySettled DEF Letting!vars
  <2>3. AskInOrder(u, asked[u])
    BY DEF ApprovalInv, AsksInOrder
  <2> QED BY <2>1, <2>2, <2>3 DEF AskInOrder, Letting!Settle,
         Letting!Expected, Letting!None
<1>3. Letting!CodesAreDue
  <2>1. SUFFICES ASSUME NEW u \in Deciders, pages[u].shows = "consent",
                        pages'[u].shows = "code"
        PROVE  u \in active /\ pages'[u].trust = Letting!Due
               /\ Letting!Due /= "none"
    BY DEF Letting!CodesAreDue, Letting!None
  <2>2. Letting!Consent(u)
    BY <2>1, OnlyConsented DEF Letting!vars
  <2>3. pages \in [Deciders -> Letting!Pages]
    BY DEF ApprovalInv, Letting!TypeOK
  <2>4. Letting!Allowed(u) /\ pages'[u].trust
                                = Letting!approvedTrust(client, listed)
    BY <2>1, <2>2, <2>3 DEF Letting!Consent, Letting!Blank, Letting!Pages
  <2>5. u \in active /\ Letting!approvedTrust(client, listed) /= "none"
    BY <2>4 DEF Letting!Allowed, Letting!None
  <2>6. Letting!approvedTrust(client, listed) = Letting!Due
    BY <2>5, DueAsItStands DEF Letting!InOrder, Letting!approvedTrust,
       Letting!None
  <2> QED BY <2>4, <2>5, <2>6
<1> QED BY <1>1, <1>2, <1>3 DEF Letting!AsDecided

HIDE DEF client, listed, admins, active, pages, asked, holder, decided, turns

-----------------------------------------------------------------------------
(* The slots, by what BrowserClient has in them.                            *)

grant    == s1
kept     == s2
save     == s3
renewing == s4
options  == s5
losses   == s6

USE DEF grant, kept, save, renewing, options, losses

-----------------------------------------------------------------------------
(* The browser extension's connection.                                      *)

\* The server issued it, under a grant that was made; and it is no later than
\* another.
Issued(c) ==
    /\ c \in Browsing!GrantIds \X Browsing!Tokens
    /\ grant[c[1]].end /= "unmade" /\ c[2] <= grant[c[1]].gen
Upto(c, d) == c[1] < d[1] \/ (c[1] = d[1] /\ c[2] <= d[2])

\* Grants are made one after another, and of one made the first is issued.
GrantsInOrder ==
    \A g \in Browsing!GrantIds :
        /\ grant[g].lapsed <= grant[g].gen
        /\ grant[g].end = "unmade" =>
              /\ grant[g].gen = 0
              /\ \A h \in Browsing!GrantIds : g < h =>
                    grant[h].end = "unmade"
        /\ grant[g].end /= "unmade" => 1 <= grant[g].gen

\* The grant the page connects with is the newest, and nobody else's yet.
OptionsInOrder ==
    /\ options.phase = "connects" =>
          /\ Issued(options.c) /\ options.c[2] = 1
          /\ grant[options.c[1]].gen = 1 /\ grant[options.c[1]].lapsed = 0
          /\ \A h \in Browsing!GrantIds : options.c[1] < h =>
                grant[h].end = "unmade"
          /\ kept[1] < options.c[1] /\ renewing.c[1] < options.c[1]
          /\ \A s \in Saves : save[s].c[1] < options.c[1]
    /\ options.phase \in {"drops", "tells"} => Issued(options.c)

\* The connection kept is of the newest grant, but for one the page connects
\* with; it is behind by one at most; and while nothing was lost only as what
\* it is renewed by is about to be stored.
KeptInOrder ==
    kept /= <<0, 0>> =>
        /\ Issued(kept)
        /\ \A g \in Browsing!GrantIds :
              kept[1] < g /\ grant[g].end /= "unmade" =>
                  options.phase = "connects" /\ options.c = <<g, 1>>
        /\ Browsing!Live(kept[1]) =>
              /\ grant[kept[1]].gen - 1 <= kept[2]
              /\ losses = 0 =>
                    \/ kept[2] = grant[kept[1]].gen
                    \/ /\ renewing.phase \in {"given", "stores"}
                       /\ renewing.c = kept
        /\ Upto(renewing.c, kept)
        /\ \A s \in Saves : Upto(save[s].c, kept)

\* No newer grant has lapsed at all; and what a save sends hasn't lapsed before
\* it began, or at all once renewed.  A save waits because its token lapsed, or
\* its grant is over.
SaveInOrder(x) ==
    /\ x = [phase |-> "idle", c |-> <<0, 0>>, tried |-> FALSE]
       \/ (x.phase /= "idle" /\ Issued(x.c))
    /\ x.phase /= "idle" =>
          \A g \in Browsing!GrantIds : x.c[1] < g => grant[g].lapsed = 0
    /\ x.phase = "sends" => grant[x.c[1]].lapsed <= x.c[2]
    /\ x.phase = "sends" /\ x.tried => grant[x.c[1]].lapsed < x.c[2]
    /\ x.phase = "refused" =>
          /\ x.tried /\ ~Browsing!Live(x.c[1])
          /\ grant[x.c[1]].lapsed < x.c[2]
    /\ x.phase = "renews" =>
          /\ renewing.phase /= "none"
          /\ x.tried =>
                /\ grant[x.c[1]].lapsed <= x.c[2]
                /\ ~Browsing!Live(x.c[1]) \/ Browsing!Lapsed(x.c)
          /\ ~x.tried =>
                Browsing!Lapsed(x.c) /\ (kept[1] = x.c[1] => kept = x.c)

\* Whoever began the renewal waits for it.  It asks with what was kept, and
\* what it is given follows that; it stores over nothing else.
RenewalInOrder ==
    /\ renewing.phase = "none" => renewing.c = <<0, 0>>
    /\ renewing.phase /= "none" =>
          /\ Issued(renewing.c)
          /\ \E s \in Saves :
                save[s].phase = "renews" /\ save[s].c = renewing.c
    /\ renewing.phase = "asks" /\ Browsing!Live(renewing.c[1]) =>
          /\ grant[renewing.c[1]].gen - 1 <= renewing.c[2]
          /\ losses = 0 => renewing.c[2] = grant[renewing.c[1]].gen
    /\ renewing.phase \in {"asks", "given"} =>
          kept = <<0, 0>> \/ renewing.c[1] < kept[1] \/ kept = renewing.c
    /\ renewing.phase \in {"given", "stores"} =>
          /\ grant[renewing.c[1]].gen = renewing.c[2] + 1
          /\ grant[renewing.c[1]].lapsed = renewing.c[2]
    /\ renewing.phase = "stores" => kept = renewing.c
    /\ renewing.phase = "refused" => ~Browsing!Live(renewing.c[1])

SavesInOrder == \A s \in Saves : SaveInOrder(save[s])

BrowserInv ==
    /\ Browsing!TypeOK /\ GrantsInOrder /\ OptionsInOrder /\ KeptInOrder
    /\ SavesInOrder /\ RenewalInOrder /\ Browsing!NotReplayed

GrantRows == [end : {"unmade", "live", "revoked", "replayed"},
              gen : 0..MaxTokens, lapsed : 0..MaxTokens]
SaveRows  == [phase : {"idle", "renews", "sends", "refused"},
              c : Browsing!Connections, tried : BOOLEAN]
Renewals  == [phase : {"none", "starts", "asks", "given", "refused",
                       "failed", "stores"}, c : Browsing!Connections]
PageRows  == [phase : {"rests", "connects", "drops", "tells"},
              c : Browsing!Connections]

LEMMA BrowserTyped ==
    /\ Browsing!TypeOK <=>
          /\ grant \in [Browsing!GrantIds -> GrantRows]
          /\ kept \in Browsing!Connections
          /\ save \in [Saves -> SaveRows]
          /\ renewing \in Renewals /\ options \in PageRows
          /\ losses \in 0..MaxBrowserFaults
    /\ Browsing!GrantIds \subseteq Int \ {0}
    /\ \A g \in Browsing!GrantIds : g >= 1
    /\ \A n \in Browsing!Tokens : n \in Int /\ n >= 1
    /\ \A n \in 0..MaxTokens : n \in Int /\ n >= 0
    /\ <<0, 0>> \in Browsing!Connections
    /\ \A c \in Browsing!Connections :
          /\ c[1] \in Int /\ c[2] \in Int /\ c[1] >= 0 /\ c[2] >= 0
          /\ c = <<c[1], c[2]>>
          /\ c /= <<0, 0>> => c[1] \in Browsing!GrantIds
                              /\ c[2] \in Browsing!Tokens
          /\ c[1] = 0 <=> c = <<0, 0>>
    /\ MaxGrants \in Nat /\ MaxTokens \in Nat \ {0}
    /\ MaxBrowserFaults \in Nat
BY OneServiceAssumption DEF Browsing!TypeOK, GrantRows, SaveRows, Renewals,
   PageRows, Browsing!GrantIds, Browsing!Tokens, Browsing!Connections,
   Browsing!None

LEMMA TypedNext ==
    ASSUME grant' \in [Browsing!GrantIds -> GrantRows],
           kept' \in Browsing!Connections, save' \in [Saves -> SaveRows],
           renewing' \in Renewals, options' \in PageRows,
           losses' \in 0..MaxBrowserFaults
    PROVE  Browsing!TypeOK'
BY DEF Browsing!TypeOK, GrantRows, SaveRows, Renewals, PageRows

LEMMA BrowserBegins ==
    ASSUME Browsing!Init PROVE BrowserInv
<1>1. /\ grant = [g \in Browsing!GrantIds |->
                     [end |-> "unmade", gen |-> 0, lapsed |-> 0]]
      /\ kept = <<0, 0>> /\ renewing = [phase |-> "none", c |-> <<0, 0>>]
      /\ options = [phase |-> "rests", c |-> <<0, 0>>] /\ losses = 0
      /\ save = [s \in Saves |->
                    [phase |-> "idle", c |-> <<0, 0>>, tried |-> FALSE]]
  BY DEF Browsing!Init, Browsing!NotMade, Browsing!Idle, Browsing!NoRenewal,
     Browsing!Resting, Browsing!None
<1>2. Browsing!TypeOK
  <2>1. [end |-> "unmade", gen |-> 0, lapsed |-> 0] \in GrantRows
    BY OneServiceAssumption DEF GrantRows
  <2>2. [phase |-> "idle", c |-> <<0, 0>>, tried |-> FALSE] \in SaveRows
    BY BrowserTyped DEF SaveRows
  <2>3. renewing \in Renewals /\ options \in PageRows
    BY <1>1, BrowserTyped DEF Renewals, PageRows
  <2>4. losses \in 0..MaxBrowserFaults
    <3>1. losses = 0
      BY <1>1
    <3> QED BY <3>1, OneServiceAssumption
  <2> QED BY <1>1, <2>1, <2>2, <2>3, <2>4, BrowserTyped
<1>3. GrantsInOrder
  <2>1. \A g \in Browsing!GrantIds :
          grant[g] = [end |-> "unmade", gen |-> 0, lapsed |-> 0]
    BY <1>1
  <2>2. \A g \in Browsing!GrantIds :
          grant[g].end = "unmade" /\ grant[g].gen = 0 /\ grant[g].lapsed = 0
    BY <2>1
  <2> QED BY <2>2 DEF GrantsInOrder
<1>4. OptionsInOrder /\ KeptInOrder /\ RenewalInOrder
  BY <1>1 DEF OptionsInOrder, KeptInOrder, RenewalInOrder
<1>5. SavesInOrder
  BY <1>1 DEF SavesInOrder, SaveInOrder
<1>6. Browsing!NotReplayed
  BY <1>1 DEF Browsing!NotReplayed
<1> QED BY <1>2, <1>3, <1>4, <1>5, <1>6 DEF BrowserInv

-----------------------------------------------------------------------------
(* What each step keeps.                                                    *)

\* No grant made after the one kept has lapsed.
LEMMA NewerHasNotLapsed ==
    ASSUME BrowserInv, kept /= <<0, 0>>, NEW g \in Browsing!GrantIds,
           kept[1] < g
    PROVE  grant[g].lapsed = 0
<1>1. grant[g] \in GrantRows
  BY BrowserTyped DEF BrowserInv
<1>2. CASE grant[g].end = "unmade"
  BY <1>1, <1>2, BrowserTyped DEF BrowserInv, GrantsInOrder, GrantRows
<1>3. CASE grant[g].end /= "unmade"
  BY <1>1, <1>3 DEF BrowserInv, KeptInOrder, OptionsInOrder
<1> QED BY <1>2, <1>3

\* A save in order stays so while nothing it goes by changes.
LEMMA SaveStays ==
    ASSUME NEW x, SaveInOrder(x), UNCHANGED <<grant, kept>>,
           renewing.phase /= "none" => renewing'.phase /= "none"
    PROVE  SaveInOrder(x)'
BY DEF SaveInOrder, Issued, Browsing!Live, Browsing!Lapsed

LEMMA RowTypes ==
    ASSUME BrowserInv
    PROVE  /\ grant \in [Browsing!GrantIds -> GrantRows]
           /\ save \in [Saves -> SaveRows]
           /\ kept \in Browsing!Connections
           /\ renewing \in Renewals /\ renewing.c \in Browsing!Connections
           /\ options \in PageRows /\ options.c \in Browsing!Connections
           /\ \A s \in Saves : save[s].c \in Browsing!Connections
           /\ losses \in 0..MaxBrowserFaults
           /\ renewing = Browsing!NoRenewal <=> renewing.phase = "none"
           /\ \A s \in Saves : save[s] = Browsing!Idle
                                 <=> save[s].phase = "idle"
<1>1. /\ grant \in [Browsing!GrantIds -> GrantRows]
      /\ save \in [Saves -> SaveRows]
      /\ kept \in Browsing!Connections
      /\ renewing \in Renewals /\ options \in PageRows
      /\ losses \in 0..MaxBrowserFaults
  BY BrowserTyped DEF BrowserInv
<1>2. /\ renewing.c \in Browsing!Connections
      /\ options.c \in Browsing!Connections
      /\ \A s \in Saves : save[s].c \in Browsing!Connections
  BY <1>1 DEF Renewals, PageRows, SaveRows
<1>3. renewing = Browsing!NoRenewal <=> renewing.phase = "none"
  BY <1>1 DEF BrowserInv, RenewalInOrder, Browsing!NoRenewal, Browsing!None,
     Renewals
<1>4. \A s \in Saves : save[s] = Browsing!Idle <=> save[s].phase = "idle"
  BY DEF BrowserInv, SavesInOrder, SaveInOrder, Browsing!Idle,
     Browsing!None
<1> QED BY <1>1, <1>2, <1>3, <1>4

\* A save goes on by itself, or joins the renewal, or begins it.
LEMMA SaveGoes ==
    ASSUME BrowserInv, NEW s \in Saves, NEW x \in SaveRows,
           save' = [save EXCEPT ![s] = x],
           \/ UNCHANGED renewing
           \/ /\ renewing.phase = "none" /\ x.phase = "renews"
              /\ renewing' = [phase |-> "starts", c |-> x.c],
           save[s].phase /= "renews", SaveInOrder(x)',
           x.c = <<0, 0>> \/ x.c = save[s].c \/ x.c = kept,
           UNCHANGED <<grant, kept, options, losses>>
    PROVE  BrowserInv'
<1>1. /\ save' \in [Saves -> SaveRows] /\ save'[s] = x
      /\ \A r \in Saves : r /= s => save'[r] = save[r]
  BY RowTypes
<1>2. renewing' \in Renewals
  BY RowTypes DEF Renewals, SaveRows
<1>3. Browsing!TypeOK'
  BY <1>1, <1>2, RowTypes, TypedNext
<1>4. x.c \in Browsing!Connections
  BY DEF SaveRows
<1>5. OptionsInOrder'
  BY <1>1, <1>4, RowTypes, BrowserTyped DEF BrowserInv, OptionsInOrder,
     Issued
<1>6. KeptInOrder'
  <2>1. SUFFICES ASSUME kept /= <<0, 0>> PROVE KeptInOrder'
    BY DEF KeptInOrder
  <2>2. Upto(x.c, kept)
    BY <2>1, RowTypes, BrowserTyped DEF BrowserInv, KeptInOrder, Upto
  <2> QED BY <1>1, <2>1, <2>2 DEF BrowserInv, KeptInOrder, Upto, Issued,
         Browsing!Live
<1>7. SavesInOrder'
  BY <1>1, SaveStays DEF BrowserInv, SavesInOrder
<1>8. RenewalInOrder'
  <2>1. CASE UNCHANGED renewing
    BY <1>1, <2>1 DEF BrowserInv, RenewalInOrder, Issued, Browsing!Live
  <2>2. CASE /\ x.phase = "renews"
             /\ renewing' = [phase |-> "starts", c |-> x.c]
    BY <1>1, <2>2 DEF SaveInOrder, RenewalInOrder, Issued
  <2> QED BY <2>1, <2>2
<1>9. GrantsInOrder' /\ Browsing!NotReplayed'
  BY DEF BrowserInv, GrantsInOrder, Browsing!NotReplayed
<1> QED BY <1>3, <1>5, <1>6, <1>7, <1>8, <1>9 DEF BrowserInv

LEMMA JoinedIs ==
    ASSUME BrowserInv, NEW c
    PROVE  Browsing!Joined(c) = IF renewing.phase = "none"
                                THEN [phase |-> "starts", c |-> c]
                                ELSE renewing
BY RowTypes DEF Browsing!Joined

LEMMA StartSaveKeeps ==
    ASSUME BrowserInv, NEW s \in Saves, Browsing!Start(s)
    PROVE  BrowserInv'
<1>1. /\ save[s].phase = "idle" /\ kept /= <<0, 0>>
      /\ UNCHANGED <<grant, kept, options, losses>>
  BY RowTypes DEF Browsing!Start, Browsing!None
<1>2. kept \in Browsing!Connections /\ Issued(kept)
  BY <1>1, RowTypes DEF BrowserInv, KeptInOrder
<1>3. grant[kept[1]] \in GrantRows /\ kept[2] \in Int
      /\ grant[kept[1]].lapsed \in Int
  BY <1>1, <1>2, RowTypes, BrowserTyped DEF GrantRows
<1>4. CASE Browsing!Lapsed(kept)
  <2> DEFINE x == [phase |-> "renews", c |-> kept, tried |-> FALSE]
  <2>1. save' = [save EXCEPT ![s] = x] /\ x \in SaveRows
    BY <1>2, <1>4 DEF Browsing!Start, SaveRows
  <2>2. \/ UNCHANGED renewing /\ renewing.phase /= "none"
        \/ /\ renewing.phase = "none"
           /\ renewing' = [phase |-> "starts", c |-> x.c]
    BY <1>4, JoinedIs DEF Browsing!Start
  <2>3. SaveInOrder(x)'
    BY <1>1, <1>2, <1>4, <2>2, NewerHasNotLapsed DEF SaveInOrder, Issued,
       Browsing!Lapsed
  <2> QED BY <1>1, <2>1, <2>2, <2>3, SaveGoes
<1>5. CASE ~Browsing!Lapsed(kept)
  <2> DEFINE x == [phase |-> "sends", c |-> kept, tried |-> FALSE]
  <2>1. /\ save' = [save EXCEPT ![s] = x] /\ x \in SaveRows
        /\ UNCHANGED renewing
    BY <1>2, <1>5 DEF Browsing!Start, SaveRows
  <2>2. SaveInOrder(x)'
    BY <1>1, <1>2, <1>3, <1>5, NewerHasNotLapsed DEF SaveInOrder, Issued,
       Browsing!Lapsed
  <2> QED BY <1>1, <2>1, <2>2, SaveGoes
<1> QED BY <1>4, <1>5

LEMMA SendEndsKeeps ==
    ASSUME BrowserInv, NEW s \in Saves, Browsing!SendEnds(s)
    PROVE  BrowserInv'
<1> DEFINE x == [phase |-> "idle", c |-> <<0, 0>>, tried |-> FALSE]
<1>1. /\ save' = [save EXCEPT ![s] = x] /\ save[s].phase = "sends"
      /\ UNCHANGED <<grant, kept, renewing, options, losses>>
  BY DEF Browsing!SendEnds, Browsing!Idle, Browsing!None
<1>2. x \in SaveRows /\ SaveInOrder(x)'
  BY BrowserTyped DEF SaveRows, SaveInOrder
<1> QED BY <1>1, <1>2, SaveGoes

LEMMA UnauthorizedKeeps ==
    ASSUME BrowserInv, NEW s \in Saves, Browsing!Unauthorized(s)
    PROVE  BrowserInv'
<1> DEFINE y == save[s]
<1>1. /\ y.phase = "sends" /\ y \in SaveRows /\ SaveInOrder(y) /\ Issued(y.c)
      /\ ~Browsing!Live(y.c[1]) \/ Browsing!Lapsed(y.c)
      /\ UNCHANGED <<grant, kept, options, losses>>
  BY RowTypes DEF Browsing!Unauthorized, BrowserInv, SavesInOrder,
     SaveInOrder, Browsing!Honoured, Issued
<1>2. /\ grant[y.c[1]] \in GrantRows /\ y.c[2] \in Int
      /\ grant[y.c[1]].lapsed \in Int
  BY <1>1, RowTypes, BrowserTyped DEF GrantRows, Issued
<1>3. CASE y.tried
  <2>1. PICK x \in SaveRows :
          /\ save' = [save EXCEPT ![s] = x]
          /\ x.phase = "refused" /\ x.tried = TRUE /\ x.c = y.c
    BY <1>1, <1>3, RowTypes DEF Browsing!Unauthorized, SaveRows
  <2>2. UNCHANGED renewing
    BY <1>3 DEF Browsing!Unauthorized
  <2>3. SaveInOrder(x)'
    BY <1>1, <1>2, <1>3, <2>1 DEF SaveInOrder, Issued, Browsing!Lapsed,
       Browsing!Live
  <2> QED BY <1>1, <2>1, <2>2, <2>3, SaveGoes
<1>4. CASE ~y.tried
  <2>1. PICK x \in SaveRows :
          /\ save' = [save EXCEPT ![s] = x]
          /\ x.phase = "renews" /\ x.tried = TRUE /\ x.c = y.c
    BY <1>1, <1>4, RowTypes DEF Browsing!Unauthorized, SaveRows
  <2>2. \/ UNCHANGED renewing /\ renewing.phase /= "none"
        \/ /\ renewing.phase = "none"
           /\ renewing' = [phase |-> "starts", c |-> x.c]
    BY <1>4, <2>1, JoinedIs DEF Browsing!Unauthorized
  <2>3. SaveInOrder(x)'
    BY <1>1, <1>2, <1>4, <2>1, <2>2 DEF SaveInOrder, Issued,
       Browsing!Lapsed, Browsing!Live
  <2> QED BY <1>1, <2>1, <2>2, <2>3, SaveGoes
<1> QED BY <1>3, <1>4

\* Who is refused is so for good: no answer is being stored over it.
LEMMA RefusedAlone ==
    ASSUME BrowserInv, NEW s \in Saves, save[s].phase = "refused"
    PROVE  renewing.phase /= "stores"
<1>1. SUFFICES ASSUME renewing.phase = "stores" PROVE FALSE
  OBVIOUS
<1> DEFINE c == save[s].c
<1>2. /\ SaveInOrder(save[s]) /\ Issued(c) /\ Issued(kept)
      /\ kept = renewing.c /\ grant[kept[1]].lapsed = kept[2]
  BY <1>1 DEF BrowserInv, SavesInOrder, SaveInOrder, RenewalInOrder
<1>3. /\ c \in Browsing!Connections /\ kept \in Browsing!Connections
      /\ kept[1] \in Browsing!GrantIds /\ kept[2] >= 1 /\ kept /= <<0, 0>>
  BY <1>2, RowTypes, BrowserTyped DEF Issued
<1>4. Upto(c, kept)
  BY <1>3 DEF BrowserInv, KeptInOrder
<1>5. c[1] < kept[1] => grant[kept[1]].lapsed = 0
  BY <1>2, <1>3 DEF SaveInOrder
<1>6. grant[c[1]].lapsed < c[2]
  BY <1>2 DEF SaveInOrder
<1> QED BY <1>2, <1>3, <1>4, <1>5, <1>6, BrowserTyped DEF Upto

LEMMA ForgetKeeps ==
    ASSUME BrowserInv, NEW s \in Saves, Browsing!Forget(s)
    PROVE  BrowserInv'
<1>1. /\ save[s].phase = "refused" /\ kept' = <<0, 0>>
      /\ save' = [save EXCEPT ![s] = [phase |-> "idle", c |-> <<0, 0>>,
                                      tried |-> FALSE]]
      /\ UNCHANGED <<grant, renewing, options, losses>>
  BY DEF Browsing!Forget, Browsing!Forgotten, Browsing!Idle, Browsing!None
<1>2. /\ save'[s] = [phase |-> "idle", c |-> <<0, 0>>, tried |-> FALSE]
      /\ \A r \in Saves : r /= s => save'[r] = save[r]
      /\ save' \in [Saves -> SaveRows]
  BY <1>1, RowTypes, BrowserTyped DEF SaveRows
<1>3. Browsing!TypeOK'
  BY <1>1, <1>2, RowTypes, BrowserTyped, TypedNext
<1>4. OptionsInOrder'
  BY <1>1, <1>2, RowTypes, BrowserTyped DEF BrowserInv, OptionsInOrder,
     Issued
<1>5. SavesInOrder'
  <2>1. ASSUME NEW r \in Saves, r /= s PROVE SaveInOrder(save[r])'
    BY <1>1, <1>2, <2>1, RowTypes, BrowserTyped DEF BrowserInv,
       SavesInOrder, SaveInOrder, Issued, Browsing!Live, Browsing!Lapsed
  <2>2. SaveInOrder(save[s])'
    BY <1>2 DEF SaveInOrder
  <2> QED BY <2>1, <2>2 DEF SavesInOrder
<1>6. RenewalInOrder'
  BY <1>1, <1>2, RefusedAlone DEF BrowserInv, RenewalInOrder, Issued,
     Browsing!Live
<1>7. KeptInOrder' /\ GrantsInOrder' /\ Browsing!NotReplayed'
  BY <1>1 DEF KeptInOrder, BrowserInv, GrantsInOrder, Browsing!NotReplayed
<1> QED BY <1>3, <1>4, <1>5, <1>6, <1>7 DEF BrowserInv

\* What is kept that isn't what the renewal began with is good to send.
LEMMA KeptIsFresh ==
    ASSUME BrowserInv, renewing.phase /= "none", kept /= <<0, 0>>,
           kept /= renewing.c
    PROVE  grant[kept[1]].lapsed < kept[2]
<1> DEFINE c == renewing.c
<1>1. PICK i \in Saves : save[i].phase = "renews" /\ save[i].c = c
  BY DEF BrowserInv, RenewalInOrder
<1>2. /\ SaveInOrder(save[i]) /\ Issued(kept) /\ Upto(c, kept) /\ Issued(c)
      /\ c \in Browsing!Connections /\ kept \in Browsing!Connections
      /\ save[i] \in SaveRows
  BY RowTypes DEF BrowserInv, SavesInOrder, KeptInOrder, RenewalInOrder
<1>3. kept[1] \in Browsing!GrantIds /\ kept[2] \in Int /\ 0 < kept[2]
  BY <1>2, BrowserTyped DEF Issued
<1>4. CASE c[1] < kept[1]
  BY <1>1, <1>2, <1>3, <1>4 DEF SaveInOrder
<1>5. CASE c[1] = kept[1] /\ c[2] <= kept[2]
  <2>1. c[2] < kept[2]
    BY <1>2, <1>5, BrowserTyped
  <2>2. grant[c[1]].lapsed <= c[2]
    BY <1>1, <1>2, <1>5 DEF SaveInOrder, SaveRows
  <2>3. grant[c[1]].lapsed \in Int
    BY <1>3, <1>5, RowTypes, BrowserTyped DEF GrantRows
  <2> QED BY <1>2, <1>5, <2>1, <2>2, <2>3, BrowserTyped
<1> QED BY <1>2, <1>4, <1>5 DEF Upto

\* The renewal is over: every save that waited goes on with what it came to.
LEMMA SettledKeeps ==
    ASSUME BrowserInv, NEW result \in Browsing!Connections,
           Browsing!Settled(result), kept' \in Browsing!Connections,
           kept' /= <<0, 0>> =>
              /\ Issued(kept') /\ kept /= <<0, 0>> /\ kept'[1] = kept[1]
              /\ kept[2] <= kept'[2]
              /\ Browsing!Live(kept'[1]) =>
                    /\ grant[kept'[1]].gen - 1 <= kept'[2]
                    /\ losses = 0 => kept'[2] = grant[kept'[1]].gen,
           result /= <<0, 0>> =>
              result = kept' /\ grant[result[1]].lapsed < result[2],
           UNCHANGED <<grant, options, losses>>
    PROVE  BrowserInv'
<1>1. /\ renewing' = [phase |-> "none", c |-> <<0, 0>>]
      /\ \A s \in Saves :
            /\ save[s].phase /= "renews" => save'[s] = save[s]
            /\ save[s].phase = "renews" =>
                  IF result = <<0, 0>>
                  THEN save'[s] = [phase |-> "idle", c |-> <<0, 0>>,
                                   tried |-> FALSE]
                  ELSE save'[s] = [save[s] EXCEPT !.phase = "sends",
                                                  !.c = result]
      /\ save' = [s \in Saves |-> save'[s]]
  BY DEF Browsing!Settled, Browsing!NoRenewal, Browsing!None, Browsing!Idle
<1>2. /\ \A s \in Saves : save[s].phase = "renews" /\ result /= <<0, 0>> =>
            save'[s].phase = "sends" /\ save'[s].c = result
      /\ \A s \in Saves : save[s].phase = "renews" /\ result = <<0, 0>> =>
            save'[s].phase = "idle" /\ save'[s].c = <<0, 0>>
      /\ \A s \in Saves : save'[s] \in SaveRows
  <2>1. ASSUME NEW s \in Saves, save[s].phase = "renews", result /= <<0, 0>>
        PROVE  /\ save'[s].phase = "sends" /\ save'[s].c = result
               /\ save'[s] \in SaveRows
    <3>1. save'[s] = [save[s] EXCEPT !.phase = "sends", !.c = result]
          /\ save[s] \in SaveRows
      BY <1>1, <2>1, RowTypes
    <3> QED BY <3>1 DEF SaveRows
  <2>2. ASSUME NEW s \in Saves, save[s].phase = "renews", result = <<0, 0>>
        PROVE  /\ save'[s].phase = "idle" /\ save'[s].c = <<0, 0>>
               /\ save'[s] \in SaveRows
    <3>1. save'[s] = [phase |-> "idle", c |-> <<0, 0>>, tried |-> FALSE]
      BY <1>1, <2>2
    <3> QED BY <3>1, <2>2 DEF SaveRows
  <2>3. \A s \in Saves : save[s].phase /= "renews" => save'[s] \in SaveRows
    BY <1>1, RowTypes
  <2> QED BY <2>1, <2>2, <2>3
<1>3. Browsing!TypeOK'
  <2>1. renewing' \in Renewals /\ save' \in [Saves -> SaveRows]
    BY <1>1, <1>2, BrowserTyped DEF Renewals
  <2> QED BY <2>1, RowTypes, TypedNext
<1>4. kept'[1] <= kept[1]
  BY RowTypes, BrowserTyped
<1>5. ASSUME NEW s \in Saves
      PROVE  \/ save'[s].c = <<0, 0>> \/ save'[s] = save[s]
             \/ /\ save'[s].c = kept' /\ kept' /= <<0, 0>>
                /\ save'[s].phase = "sends"
  BY <1>1, <1>2
<1>6. OptionsInOrder'
  <2>1. CASE options.phase = "connects"
    <3>1. /\ Issued(options.c) /\ options.c \in Browsing!Connections
          /\ kept[1] < options.c[1] /\ options.c[1] \in Int
          /\ 0 < options.c[1]
          /\ \A s \in Saves : save[s].c[1] < options.c[1]
      BY <2>1, RowTypes, BrowserTyped DEF BrowserInv, OptionsInOrder, Issued
    <3>2. kept'[1] < options.c[1]
      BY <1>4, <3>1, RowTypes, BrowserTyped
    <3>3. \A s \in Saves : save'[s].c[1] < options.c[1]
      <4>1. <<0, 0>>[1] = 0
        OBVIOUS
      <4> QED BY <1>5, <3>1, <3>2, <4>1
    <3>4. renewing'.c[1] = 0
      BY <1>1
    <3> QED BY <2>1, <3>1, <3>2, <3>3, <3>4 DEF BrowserInv,
           OptionsInOrder, Issued
  <2>2. CASE options.phase /= "connects"
    BY <2>2 DEF BrowserInv, OptionsInOrder, Issued
  <2> QED BY <2>1, <2>2
<1>7. KeptInOrder'
  <2>1. SUFFICES ASSUME kept' /= <<0, 0>> PROVE KeptInOrder'
    BY DEF KeptInOrder
  <2>2. \A s \in Saves : Upto(save'[s].c, kept')
    <3>1. Upto(<<0, 0>>, kept') /\ Upto(kept', kept')
      BY <2>1, RowTypes, BrowserTyped DEF Upto
    <3>2. \A s \in Saves : Upto(save[s].c, kept)
      BY <2>1 DEF BrowserInv, KeptInOrder
    <3>3. \A s \in Saves : Upto(save[s].c, kept')
      BY <2>1, <3>2, RowTypes, BrowserTyped DEF Upto
    <3> QED BY <1>5, <3>1, <3>3
  <2>3. Upto(renewing'.c, kept')
    <3>1. Upto(<<0, 0>>, kept')
      BY <2>1, RowTypes, BrowserTyped DEF Upto
    <3> QED BY <1>1, <3>1
  <2> QED BY <1>1, <2>1, <2>2, <2>3 DEF BrowserInv, KeptInOrder, Issued,
         Upto, Browsing!Live
<1>8. SavesInOrder'
  <2>1. ASSUME NEW s \in Saves, save[s].phase /= "renews"
        PROVE  SaveInOrder(save[s])'
    BY <1>1, <2>1 DEF BrowserInv, SavesInOrder, SaveInOrder, Issued,
       Browsing!Live
  <2>2. ASSUME NEW s \in Saves, save[s].phase = "renews",
               result = <<0, 0>>
        PROVE  SaveInOrder(save[s])'
    BY <1>1, <2>2 DEF SaveInOrder
  <2>3. ASSUME NEW s \in Saves, save[s].phase = "renews",
               result /= <<0, 0>>
        PROVE  SaveInOrder(save[s])'
    <3>1. /\ save'[s].phase = "sends" /\ save'[s].c = kept' /\ Issued(kept')
          /\ grant[kept'[1]].lapsed < kept'[2] /\ kept /= <<0, 0>>
          /\ kept'[1] = kept[1]
      BY <1>2, <2>3
    <3>2. grant[kept'[1]].lapsed \in Int /\ kept'[2] \in Int
      BY <3>1, RowTypes, BrowserTyped DEF Issued, GrantRows
    <3>3. \A g \in Browsing!GrantIds : kept[1] < g => grant[g].lapsed = 0
      BY <3>1, NewerHasNotLapsed
    <3> QED BY <3>1, <3>2, <3>3 DEF SaveInOrder, Issued
  <2> QED BY <2>1, <2>2, <2>3 DEF SavesInOrder
<1>9. RenewalInOrder' /\ GrantsInOrder' /\ Browsing!NotReplayed'
  BY <1>1 DEF RenewalInOrder, BrowserInv, GrantsInOrder,
     Browsing!NotReplayed
<1> QED BY <1>3, <1>6, <1>7, <1>8, <1>9 DEF BrowserInv

LEMMA RenewKeeps ==
    ASSUME BrowserInv, Browsing!Renew PROVE BrowserInv'
<1>1. /\ renewing.phase = "starts"
      /\ UNCHANGED <<grant, kept, options, losses>>
      /\ kept \in Browsing!Connections
  BY RowTypes DEF Browsing!Renew
<1>2. CASE kept /= renewing.c
  <2>1. Browsing!Settled(kept)
    BY <1>2 DEF Browsing!Renew, Browsing!AlreadyRenewed
  <2>2. kept /= <<0, 0>> => grant[kept[1]].lapsed < kept[2]
    BY <1>1, <1>2, KeptIsFresh
  <2>3. kept /= <<0, 0>> =>
          /\ Issued(kept) /\ kept[2] <= kept[2]
          /\ Browsing!Live(kept[1]) =>
                /\ grant[kept[1]].gen - 1 <= kept[2]
                /\ losses = 0 => kept[2] = grant[kept[1]].gen
    BY <1>1, BrowserTyped DEF BrowserInv, KeptInOrder
  <2> QED BY <1>1, <2>1, <2>2, <2>3, SettledKeeps
<1>3. CASE kept = renewing.c
  <2>1. /\ renewing' = [renewing EXCEPT !.phase = "asks"] /\ UNCHANGED save
    BY <1>3 DEF Browsing!Renew, Browsing!AlreadyRenewed
  <2>2. /\ renewing'.phase = "asks" /\ renewing'.c = renewing.c
        /\ renewing' \in Renewals
    BY <2>1, RowTypes DEF Renewals
  <2>3. Issued(kept) /\ kept /= <<0, 0>>
    BY <1>1, <1>3, RowTypes, BrowserTyped DEF BrowserInv, RenewalInOrder,
       Issued
  <2>4. Browsing!TypeOK'
    BY <1>1, <2>1, <2>2, RowTypes, TypedNext
  <2>5. OptionsInOrder' /\ KeptInOrder'
    BY <1>1, <2>1, <2>2 DEF BrowserInv, OptionsInOrder, KeptInOrder, Issued,
       Upto, Browsing!Live
  <2>6. SavesInOrder'
    BY <1>1, <2>1, <2>2, SaveStays DEF BrowserInv, SavesInOrder
  <2>7. RenewalInOrder'
    BY <1>1, <1>3, <2>1, <2>2, <2>3 DEF BrowserInv, RenewalInOrder,
       KeptInOrder, Issued, Browsing!Live
  <2>8. GrantsInOrder' /\ Browsing!NotReplayed'
    BY <1>1 DEF BrowserInv, GrantsInOrder, Browsing!NotReplayed
  <2> QED BY <2>4, <2>5, <2>6, <2>7, <2>8 DEF BrowserInv
<1> QED BY <1>2, <1>3

LEMMA LookAgainKeeps ==
    ASSUME BrowserInv, Browsing!Look PROVE BrowserInv'
<1>1. /\ renewing.phase = "given" /\ UNCHANGED <<grant, kept, options, losses>>
      /\ kept \in Browsing!Connections
  BY RowTypes DEF Browsing!Look
<1>2. CASE kept /= renewing.c
  <2>1. Browsing!Settled(kept)
    BY <1>2 DEF Browsing!Look, Browsing!Stands
  <2>2. kept /= <<0, 0>> => grant[kept[1]].lapsed < kept[2]
    BY <1>1, <1>2, KeptIsFresh
  <2>3. kept /= <<0, 0>> =>
          /\ Issued(kept) /\ kept[2] <= kept[2]
          /\ Browsing!Live(kept[1]) =>
                /\ grant[kept[1]].gen - 1 <= kept[2]
                /\ losses = 0 => kept[2] = grant[kept[1]].gen
    BY <1>1, <1>2, BrowserTyped DEF BrowserInv, KeptInOrder
  <2> QED BY <1>1, <2>1, <2>2, <2>3, SettledKeeps
<1>3. CASE kept = renewing.c
  <2>1. /\ renewing' = [renewing EXCEPT !.phase = "stores"] /\ UNCHANGED save
    BY <1>3 DEF Browsing!Look, Browsing!Stands
  <2>2. /\ renewing'.phase = "stores" /\ renewing'.c = renewing.c
        /\ renewing' \in Renewals
    BY <2>1, RowTypes DEF Renewals
  <2>3. Browsing!TypeOK'
    BY <1>1, <2>1, <2>2, RowTypes, TypedNext
  <2>4. OptionsInOrder' /\ KeptInOrder'
    BY <1>1, <2>1, <2>2 DEF BrowserInv, OptionsInOrder, KeptInOrder, Issued,
       Upto, Browsing!Live
  <2>5. SavesInOrder'
    BY <1>1, <2>1, <2>2, SaveStays DEF BrowserInv, SavesInOrder
  <2>6. RenewalInOrder'
    BY <1>1, <1>3, <2>1, <2>2 DEF BrowserInv, RenewalInOrder, Issued,
       Browsing!Live
  <2>7. GrantsInOrder' /\ Browsing!NotReplayed'
    BY <1>1 DEF BrowserInv, GrantsInOrder, Browsing!NotReplayed
  <2> QED BY <2>3, <2>4, <2>5, <2>6, <2>7 DEF BrowserInv
<1> QED BY <1>2, <1>3

LEMMA StoreKeeps ==
    ASSUME BrowserInv, Browsing!Store PROVE BrowserInv'
<1> DEFINE c == renewing.c
           n == <<c[1], c[2] + 1>>
<1>1. /\ renewing.phase = "stores" /\ kept' = n /\ Browsing!Settled(n)
      /\ UNCHANGED <<grant, options, losses>>
  BY DEF Browsing!Store, Browsing!NextTokens
<1>2. /\ kept = c /\ Issued(c) /\ grant[c[1]].gen = c[2] + 1
      /\ grant[c[1]].lapsed = c[2]
      /\ c[1] \in Browsing!GrantIds /\ c[2] \in Int
  BY <1>1, RowTypes, BrowserTyped DEF BrowserInv, RenewalInOrder, Issued
<1>3. grant[c[1]] \in GrantRows
  BY <1>2, RowTypes
<1>4. n[1] = c[1] /\ n[2] = c[2] + 1 /\ n[2] \in Browsing!Tokens
  BY <1>2, <1>3, BrowserTyped DEF Issued, Browsing!Tokens, GrantRows
<1>5. n \in Browsing!Connections /\ n /= <<0, 0>>
  BY <1>2, <1>4, BrowserTyped DEF Browsing!Connections
<1>6. Issued(n) /\ kept /= <<0, 0>> /\ grant[n[1]].lapsed < n[2]
  BY <1>2, <1>4, BrowserTyped DEF Issued
<1> HIDE DEF n
<1>7. \E result \in Browsing!Connections : result = n
  BY <1>5
<1>8. PICK result \in Browsing!Connections : result = n
  BY <1>7
<1>9. kept' \in Browsing!Connections /\ Issued(kept') /\ kept'[1] = kept[1]
      /\ kept[2] <= kept'[2] /\ kept'[2] = grant[kept'[1]].gen
      /\ grant[kept'[1]].gen - 1 <= kept'[2]
      /\ grant[result[1]].lapsed < result[2]
  BY <1>1, <1>2, <1>4, <1>5, <1>6, <1>8
<1> QED BY <1>1, <1>6, <1>8, <1>9, SettledKeeps

LEMMA RefuseFailKeeps ==
    ASSUME BrowserInv, Browsing!Refuse \/ Browsing!Fail PROVE BrowserInv'
<1>1. /\ renewing.phase \in {"refused", "failed"}
      /\ kept' = <<0, 0>> \/ kept' = kept
      /\ Browsing!Settled(<<0, 0>>) /\ UNCHANGED <<grant, options, losses>>
  BY DEF Browsing!Refuse, Browsing!Fail, Browsing!Refusals, Browsing!None
<1>2. kept' \in Browsing!Connections /\ <<0, 0>> \in Browsing!Connections
  BY <1>1, RowTypes, BrowserTyped
<1>3. kept /= <<0, 0>> =>
        /\ Issued(kept) /\ kept[2] <= kept[2]
        /\ Browsing!Live(kept[1]) =>
              /\ grant[kept[1]].gen - 1 <= kept[2]
              /\ losses = 0 => kept[2] = grant[kept[1]].gen
  BY <1>1, RowTypes, BrowserTyped DEF BrowserInv, KeptInOrder
<1> QED BY <1>1, <1>2, <1>3, SettledKeeps

\* A grant goes on or ends: whoever was in order is.
LEMMA GrantTurns ==
    ASSUME BrowserInv, NEW g \in Browsing!GrantIds, NEW r \in GrantRows,
           grant' = [grant EXCEPT ![g] = r],
           grant[g].end /= "unmade", r.end /= "unmade",
           r.lapsed = grant[g].lapsed,
           r.gen = grant[g].gen \/ r.gen = grant[g].gen + 1,
           r.end = "live" => grant[g].end = "live"
    PROVE  /\ grant' \in [Browsing!GrantIds -> GrantRows]
           /\ GrantsInOrder'
           /\ \A c \in Browsing!Connections : Issued(c) => Issued(c)'
           /\ \A h \in Browsing!GrantIds :
                 /\ grant'[h].lapsed = grant[h].lapsed
                 /\ grant'[h].end = "unmade" <=> grant[h].end = "unmade"
                 /\ grant'[h].end = "live" => grant[h].end = "live"
                 /\ h /= g => grant'[h] = grant[h]
           /\ grant'[g] = r
<1>1. /\ grant \in [Browsing!GrantIds -> GrantRows]
      /\ GrantsInOrder
  BY RowTypes DEF BrowserInv
<1>2. /\ grant' \in [Browsing!GrantIds -> GrantRows] /\ grant'[g] = r
      /\ \A h \in Browsing!GrantIds : h /= g => grant'[h] = grant[h]
  BY <1>1
<1>3. \A h \in Browsing!GrantIds :
         /\ grant'[h].lapsed = grant[h].lapsed
         /\ grant'[h].end = "unmade" <=> grant[h].end = "unmade"
         /\ grant'[h].end = "live" => grant[h].end = "live"
  BY <1>2
<1>4. \A h \in Browsing!GrantIds :
         /\ grant[h].gen \in Int /\ grant[h].lapsed \in Int
         /\ grant'[h].gen \in Int /\ grant[h].gen <= grant'[h].gen
         /\ grant'[h].end = "unmade" => grant'[h].gen = grant[h].gen
  <2>1. \A h \in Browsing!GrantIds :
           grant[h].gen \in Int /\ grant[h].lapsed \in Int
    BY <1>1, BrowserTyped DEF GrantRows
  <2> QED BY <1>2, <2>1
<1>5. GrantsInOrder'
  BY <1>1, <1>3, <1>4 DEF GrantsInOrder
<1>6. ASSUME NEW c \in Browsing!Connections, Issued(c) PROVE Issued(c)'
  <2>1. c[1] \in Browsing!GrantIds /\ c[2] \in Int
    BY <1>6, BrowserTyped DEF Issued
  <2> QED BY <1>3, <1>4, <1>6, <2>1 DEF Issued
<1> QED BY <1>2, <1>3, <1>5, <1>6

\* And so is what goes by them, the saves and the page being as they were.
LEMMA OthersAfterTurn ==
    ASSUME BrowserInv, GrantsInOrder',
           \A c \in Browsing!Connections : Issued(c) => Issued(c)',
           \A h \in Browsing!GrantIds :
              /\ grant'[h].lapsed = grant[h].lapsed
              /\ grant'[h].end = "unmade" <=> grant[h].end = "unmade"
              /\ grant'[h].end = "live" => grant[h].end = "live",
           UNCHANGED <<kept, save>>, renewing'.c = renewing.c,
           renewing.phase /= "none" => renewing'.phase /= "none"
    PROVE  /\ SavesInOrder'
           /\ /\ options' = options
              /\ options.phase = "connects" =>
                    grant'[options.c[1]].gen = grant[options.c[1]].gen
              => OptionsInOrder'
           /\ /\ options.phase = "connects" => options' = options
              /\ kept /= <<0, 0>> /\ Browsing!Live(kept[1])' =>
                    /\ grant'[kept[1]].gen - 1 <= kept[2]
                    /\ losses' = 0 =>
                          \/ kept[2] = grant'[kept[1]].gen
                          \/ /\ renewing'.phase \in {"given", "stores"}
                             /\ renewing.c = kept
              => KeptInOrder'
<1>1. SavesInOrder'
  <2>1. SUFFICES ASSUME NEW s \in Saves PROVE SaveInOrder(save[s])'
    BY DEF SavesInOrder
  <2>2. SaveInOrder(save[s]) /\ save[s].c \in Browsing!Connections
    BY RowTypes DEF BrowserInv, SavesInOrder
  <2>3. Issued(save[s].c) => /\ Issued(save[s].c)'
                             /\ save[s].c[1] \in Browsing!GrantIds
    BY <2>2 DEF Issued
  <2> QED BY <2>2, <2>3 DEF SaveInOrder, Browsing!Live, Browsing!Lapsed
<1>2. ASSUME options' = options,
             options.phase = "connects" =>
                 grant'[options.c[1]].gen = grant[options.c[1]].gen
      PROVE  OptionsInOrder'
  <2>1. options.c \in Browsing!Connections
    BY RowTypes
  <2>2. Issued(options.c) => /\ Issued(options.c)'
                             /\ options.c[1] \in Browsing!GrantIds
    BY <1>2, <2>1 DEF Issued
  <2> QED BY <1>2, <2>2 DEF BrowserInv, OptionsInOrder
<1>3. ASSUME options.phase = "connects" => options' = options,
             kept /= <<0, 0>> /\ Browsing!Live(kept[1])' =>
                    /\ grant'[kept[1]].gen - 1 <= kept[2]
                    /\ losses' = 0 =>
                          \/ kept[2] = grant'[kept[1]].gen
                          \/ /\ renewing'.phase \in {"given", "stores"}
                             /\ renewing.c = kept
      PROVE  KeptInOrder'
  <2>1. SUFFICES ASSUME kept /= <<0, 0>> PROVE KeptInOrder'
    BY DEF KeptInOrder
  <2>2. Issued(kept)'
    BY <2>1, RowTypes DEF BrowserInv, KeptInOrder
  <2>3. \A h \in Browsing!GrantIds :
           kept[1] < h /\ grant'[h].end /= "unmade" =>
              options'.phase = "connects" /\ options'.c = <<h, 1>>
    BY <1>3, <2>1 DEF BrowserInv, KeptInOrder
  <2>4. Upto(renewing'.c, kept') /\ \A s \in Saves : Upto(save'[s].c, kept')
    BY <2>1 DEF BrowserInv, KeptInOrder
  <2> QED BY <1>3, <2>1, <2>2, <2>3, <2>4 DEF KeptInOrder
<1> QED BY <1>1, <1>2, <1>3

\* What the server makes of a refresh token.
LEMMA RefreshedIs ==
    ASSUME BrowserInv, NEW c \in Browsing!Connections, Issued(c),
           Browsing!Within(c)
    PROVE  \/ /\ Browsing!Refreshed(c) = grant /\ ~Browsing!Gives(c)
              /\ Browsing!Live(c[1]) => c[2] < grant[c[1]].gen - 1
           \/ \E r \in GrantRows :
                /\ Browsing!Refreshed(c) = [grant EXCEPT ![c[1]] = r]
                /\ grant[c[1]].end = "live" /\ r.lapsed = grant[c[1]].lapsed
                /\ \/ /\ Browsing!Gives(c) /\ c[2] = grant[c[1]].gen
                      /\ r.end = "live" /\ r.gen = grant[c[1]].gen + 1
                   \/ /\ ~Browsing!Gives(c) /\ c[2] = grant[c[1]].gen - 1
                      /\ r.end = "replayed" /\ r.gen = grant[c[1]].gen
<1> DEFINE g == c[1]
           y == grant[g]
<1>1. /\ g \in Browsing!GrantIds /\ c[2] \in Int /\ c[2] <= y.gen
      /\ y \in GrantRows /\ y.gen \in Int /\ y.gen >= 0
  BY RowTypes, BrowserTyped DEF Issued, GrantRows
<1>2. CASE Browsing!Live(g) /\ c[2] = y.gen
  <2>1. Browsing!Gives(c) /\ y.gen < MaxTokens
    BY <1>2 DEF Browsing!Gives, Browsing!Within
  <2>2. y.gen + 1 \in 0..MaxTokens
    BY <1>1, <2>1, BrowserTyped
  <2>3. [y EXCEPT !.gen = @ + 1] \in GrantRows
    BY <1>1, <2>2 DEF GrantRows
  <2>4. Browsing!Refreshed(c) = [grant EXCEPT ![g] = [y EXCEPT !.gen = @ + 1]]
    BY <1>1, <1>2 DEF Browsing!Refreshed
  <2>5. [y EXCEPT !.gen = @ + 1].gen = y.gen + 1
        /\ [y EXCEPT !.gen = @ + 1].end = y.end
        /\ [y EXCEPT !.gen = @ + 1].lapsed = y.lapsed
    BY <1>1 DEF GrantRows
  <2> QED BY <1>2, <2>1, <2>3, <2>4, <2>5 DEF Browsing!Live
<1>3. CASE Browsing!Live(g) /\ c[2] = y.gen - 1
  <2>1. ~Browsing!Gives(c)
    BY <1>1, <1>3 DEF Browsing!Gives
  <2>2. [y EXCEPT !.end = "replayed"] \in GrantRows
    BY <1>1 DEF GrantRows
  <2>3. Browsing!Refreshed(c)
          = [grant EXCEPT ![g] = [y EXCEPT !.end = "replayed"]]
    BY <1>1, <1>3 DEF Browsing!Refreshed
  <2>4. [y EXCEPT !.end = "replayed"].gen = y.gen
        /\ [y EXCEPT !.end = "replayed"].end = "replayed"
        /\ [y EXCEPT !.end = "replayed"].lapsed = y.lapsed
    BY <1>1 DEF GrantRows
  <2> QED BY <1>3, <2>1, <2>2, <2>3, <2>4 DEF Browsing!Live
<1>4. CASE ~(Browsing!Live(g) /\ (c[2] = y.gen \/ c[2] = y.gen - 1))
  <2>1. Browsing!Refreshed(c) = grant /\ ~Browsing!Gives(c)
    BY <1>1, <1>4 DEF Browsing!Refreshed, Browsing!Gives
  <2> QED BY <1>1, <1>4, <2>1
<1> QED BY <1>2, <1>3, <1>4

\* The renewal asks, and grants turn by its answer.
LEMMA Asks ==
    ASSUME BrowserInv, renewing.phase = "asks"
    PROVE  /\ Issued(renewing.c) /\ renewing.c \in Browsing!Connections
           /\ renewing.c[1] \in Browsing!GrantIds
           /\ grant[renewing.c[1]].end /= "unmade"
           /\ options.phase = "connects" => renewing.c[1] /= options.c[1]
           /\ grant[renewing.c[1]].end = "live" =>
                 /\ grant[renewing.c[1]].gen - 1 <= renewing.c[2]
                 /\ losses = 0 => renewing.c[2] = grant[renewing.c[1]].gen
                 /\ renewing.c[2] <= grant[renewing.c[1]].lapsed
           /\ grant[renewing.c[1]].gen \in Int /\ renewing.c[2] \in Int
           /\ grant[renewing.c[1]].lapsed \in Int
           /\ grant[renewing.c[1]].lapsed <= grant[renewing.c[1]].gen
<1> DEFINE c == renewing.c
<1>1. Issued(c) /\ c \in Browsing!Connections
  BY RowTypes DEF BrowserInv, RenewalInOrder
<1>2. /\ c[1] \in Browsing!GrantIds /\ c[2] \in Int
      /\ grant[c[1]].end /= "unmade" /\ grant[c[1]] \in GrantRows
  BY <1>1, RowTypes, BrowserTyped DEF Issued
<1>3. options.phase = "connects" => c[1] /= options.c[1]
  <2>1. options.c[1] \in Int
    BY RowTypes, BrowserTyped
  <2> QED BY <1>2, <2>1, BrowserTyped DEF BrowserInv, OptionsInOrder
<1>4. grant[c[1]].end = "live" => c[2] <= grant[c[1]].lapsed
  <2>1. PICK i \in Saves : save[i].phase = "renews" /\ save[i].c = c
    BY DEF BrowserInv, RenewalInOrder
  <2>2. SaveInOrder(save[i]) /\ save[i] \in SaveRows
    BY RowTypes DEF BrowserInv, SavesInOrder
  <2> QED BY <2>1, <2>2 DEF SaveInOrder, SaveRows, Browsing!Live,
         Browsing!Lapsed
<1>5. grant[c[1]].end = "live" =>
        /\ grant[c[1]].gen - 1 <= c[2]
        /\ losses = 0 => c[2] = grant[c[1]].gen
  BY DEF BrowserInv, RenewalInOrder, Browsing!Live
<1>6. grant[c[1]].gen \in Int /\ grant[c[1]].lapsed \in Int
      /\ grant[c[1]].lapsed <= grant[c[1]].gen
  BY <1>2, BrowserTyped DEF GrantRows, BrowserInv, GrantsInOrder
<1> QED BY <1>1, <1>2, <1>3, <1>4, <1>5, <1>6

\* Of what the renewal asks with: the grant goes on, or ends as replayed, or
\* had ended.
LEMMA AnsweredIs ==
    ASSUME BrowserInv, renewing.phase = "asks", Browsing!Within(renewing.c),
           grant' = Browsing!Refreshed(renewing.c)
    PROVE  LET c == renewing.c
           IN  \/ /\ UNCHANGED grant /\ ~Browsing!Gives(c)
                  /\ grant[c[1]].end /= "live"
               \/ \E r \in GrantRows :
                     /\ grant' = [grant EXCEPT ![c[1]] = r]
                     /\ grant[c[1]].end = "live"
                     /\ r.lapsed = grant[c[1]].lapsed
                     /\ \/ /\ Browsing!Gives(c) /\ c[2] = grant[c[1]].gen
                           /\ r.end = "live" /\ r.gen = c[2] + 1
                           /\ r.lapsed = c[2]
                        \/ /\ ~Browsing!Gives(c) /\ losses /= 0
                           /\ c[2] = grant[c[1]].gen - 1
                           /\ r.end = "replayed"
                           /\ r.gen = grant[c[1]].gen
<1> DEFINE c == renewing.c
           y == grant[c[1]]
<1>1. /\ Issued(c) /\ c \in Browsing!Connections
      /\ y.end = "live" =>
            /\ y.gen - 1 <= c[2] /\ c[2] <= y.lapsed
            /\ losses = 0 => c[2] = y.gen
      /\ y.gen \in Int /\ c[2] \in Int /\ y.lapsed \in Int
      /\ y.lapsed <= y.gen
  BY Asks
<1>2. CASE /\ Browsing!Refreshed(c) = grant /\ ~Browsing!Gives(c)
           /\ Browsing!Live(c[1]) => c[2] < y.gen - 1
  <2>1. ASSUME y.end = "live" PROVE FALSE
    <3>1. Browsing!Live(c[1])
      BY <2>1 DEF Browsing!Live
    <3>2. c[2] < y.gen - 1 /\ y.gen - 1 <= c[2]
      BY <1>1, <1>2, <2>1, <3>1
    <3>3. y.gen - 1 \in Int
      BY <1>1
    <3> QED BY <1>1, <3>2, <3>3
  <2> QED BY <1>2, <2>1
<1>3. ASSUME NEW r \in GrantRows,
             Browsing!Refreshed(c) = [grant EXCEPT ![c[1]] = r],
             y.end = "live", r.lapsed = y.lapsed,
             \/ /\ Browsing!Gives(c) /\ c[2] = y.gen
                /\ r.end = "live" /\ r.gen = y.gen + 1
             \/ /\ ~Browsing!Gives(c) /\ c[2] = y.gen - 1
                /\ r.end = "replayed" /\ r.gen = y.gen
      PROVE  \/ /\ Browsing!Gives(c) /\ c[2] = y.gen
                /\ r.end = "live" /\ r.gen = c[2] + 1 /\ r.lapsed = c[2]
             \/ /\ ~Browsing!Gives(c) /\ losses /= 0 /\ c[2] = y.gen - 1
                /\ r.end = "replayed" /\ r.gen = y.gen
  <2>1. CASE Browsing!Gives(c) /\ c[2] = y.gen
    <3>1. c[2] <= y.lapsed /\ y.lapsed <= y.gen
      BY <1>1, <1>3
    <3>2. y.lapsed = c[2]
      BY <1>1, <2>1, <3>1
    <3> QED BY <1>3, <2>1, <3>2
  <2>2. CASE ~Browsing!Gives(c) /\ c[2] = y.gen - 1
    <3>1. losses = 0 => c[2] = y.gen
      BY <1>1, <1>3
    <3>2. c[2] /= y.gen
      BY <1>1, <2>2
    <3> QED BY <1>3, <2>2, <3>1, <3>2
  <2> QED BY <1>3, <2>1, <2>2
<1>4. \/ /\ Browsing!Refreshed(c) = grant /\ ~Browsing!Gives(c)
         /\ Browsing!Live(c[1]) => c[2] < y.gen - 1
      \/ \E r \in GrantRows :
           /\ Browsing!Refreshed(c) = [grant EXCEPT ![c[1]] = r]
           /\ y.end = "live" /\ r.lapsed = y.lapsed
           /\ \/ /\ Browsing!Gives(c) /\ c[2] = y.gen
                 /\ r.end = "live" /\ r.gen = y.gen + 1
              \/ /\ ~Browsing!Gives(c) /\ c[2] = y.gen - 1
                 /\ r.end = "replayed" /\ r.gen = y.gen
  BY <1>1, RefreshedIs
<1>5. CASE \E r \in GrantRows :
           /\ Browsing!Refreshed(c) = [grant EXCEPT ![c[1]] = r]
           /\ y.end = "live" /\ r.lapsed = y.lapsed
           /\ \/ /\ Browsing!Gives(c) /\ c[2] = y.gen
                 /\ r.end = "live" /\ r.gen = y.gen + 1
              \/ /\ ~Browsing!Gives(c) /\ c[2] = y.gen - 1
                 /\ r.end = "replayed" /\ r.gen = y.gen
  <2>1. PICK r \in GrantRows :
           /\ Browsing!Refreshed(c) = [grant EXCEPT ![c[1]] = r]
           /\ y.end = "live" /\ r.lapsed = y.lapsed
           /\ \/ /\ Browsing!Gives(c) /\ c[2] = y.gen
                 /\ r.end = "live" /\ r.gen = y.gen + 1
              \/ /\ ~Browsing!Gives(c) /\ c[2] = y.gen - 1
                 /\ r.end = "replayed" /\ r.gen = y.gen
    BY <1>5
  <2>2. grant' = [grant EXCEPT ![c[1]] = r]
    BY <2>1
  <2>3. \/ /\ Browsing!Gives(c) /\ c[2] = y.gen
           /\ r.end = "live" /\ r.gen = c[2] + 1 /\ r.lapsed = c[2]
        \/ /\ ~Browsing!Gives(c) /\ losses /= 0 /\ c[2] = y.gen - 1
           /\ r.end = "replayed" /\ r.gen = y.gen
    BY <2>1, <1>3
  <2> QED BY <2>1, <2>2, <2>3
<1> QED BY <1>2, <1>4, <1>5

LEMMA AnswerKeeps ==
    ASSUME BrowserInv, Browsing!Answer PROVE BrowserInv'
<1> DEFINE c == renewing.c
<1>1. /\ renewing.phase = "asks" /\ Browsing!Within(c)
      /\ grant' = Browsing!Refreshed(c)
      /\ renewing' = [renewing EXCEPT
             !.phase = IF Browsing!Gives(c) THEN "given" ELSE "refused"]
      /\ UNCHANGED <<kept, save, options, losses>>
  BY DEF Browsing!Answer
<1>2. /\ renewing'.c = c /\ renewing' \in Renewals
      /\ renewing'.phase = IF Browsing!Gives(c) THEN "given" ELSE "refused"
      /\ renewing'.phase /= "none"
  BY <1>1, RowTypes DEF Renewals
<1>3. kept = <<0, 0>> \/ c[1] < kept[1] \/ kept = c
  BY <1>1 DEF BrowserInv, RenewalInOrder
<1>4. CASE /\ UNCHANGED grant /\ ~Browsing!Gives(c)
           /\ grant[c[1]].end /= "live"
  <2>1. Browsing!TypeOK'
    BY <1>1, <1>2, <1>4, RowTypes, TypedNext
  <2>2. GrantsInOrder' /\ SavesInOrder' /\ OptionsInOrder'
    BY <1>1, <1>2, <1>4, SaveStays DEF BrowserInv, GrantsInOrder,
       SavesInOrder, OptionsInOrder, Issued
  <2>3. KeptInOrder'
    BY <1>1, <1>2, <1>4 DEF BrowserInv, KeptInOrder, Issued, Upto,
       Browsing!Live
  <2>4. RenewalInOrder' /\ Browsing!NotReplayed'
    BY <1>1, <1>2, <1>4 DEF BrowserInv, RenewalInOrder, Issued,
       Browsing!Live, Browsing!NotReplayed
  <2> QED BY <2>1, <2>2, <2>3, <2>4 DEF BrowserInv
<1>5. ASSUME NEW r \in GrantRows,
             grant' = [grant EXCEPT ![c[1]] = r],
             grant[c[1]].end = "live", r.lapsed = grant[c[1]].lapsed,
             \/ /\ Browsing!Gives(c) /\ c[2] = grant[c[1]].gen
                /\ r.end = "live" /\ r.gen = c[2] + 1 /\ r.lapsed = c[2]
             \/ /\ ~Browsing!Gives(c) /\ losses /= 0
                /\ c[2] = grant[c[1]].gen - 1
                /\ r.end = "replayed" /\ r.gen = grant[c[1]].gen
      PROVE  BrowserInv'
  <2>1. /\ grant' \in [Browsing!GrantIds -> GrantRows]
        /\ GrantsInOrder'
        /\ \A d \in Browsing!Connections : Issued(d) => Issued(d)'
        /\ \A h \in Browsing!GrantIds :
              /\ grant'[h].lapsed = grant[h].lapsed
              /\ grant'[h].end = "unmade" <=> grant[h].end = "unmade"
              /\ grant'[h].end = "live" => grant[h].end = "live"
              /\ h /= c[1] => grant'[h] = grant[h]
        /\ grant'[c[1]] = r
    BY <1>1, <1>5, Asks, GrantTurns
  <2>2. Browsing!TypeOK'
    BY <1>1, <1>2, <2>1, RowTypes, TypedNext
  <2>3. options.phase = "connects" =>
          grant'[options.c[1]].gen = grant[options.c[1]].gen
    <3>1. options.phase = "connects" =>
            options.c[1] \in Browsing!GrantIds /\ c[1] /= options.c[1]
      BY <1>1, Asks, RowTypes DEF BrowserInv, OptionsInOrder, Issued
    <3> QED BY <2>1, <3>1
  <2>4. kept /= <<0, 0>> /\ Browsing!Live(kept[1])' =>
          /\ grant'[kept[1]].gen - 1 <= kept[2]
          /\ losses' = 0 =>
                \/ kept[2] = grant'[kept[1]].gen
                \/ /\ renewing'.phase \in {"given", "stores"}
                   /\ renewing.c = kept
    <3>1. SUFFICES ASSUME kept /= <<0, 0>>, grant'[kept[1]].end = "live"
                   PROVE  /\ grant'[kept[1]].gen - 1 <= kept[2]
                          /\ losses = 0 =>
                                \/ kept[2] = grant'[kept[1]].gen
                                \/ /\ renewing'.phase \in {"given", "stores"}
                                   /\ renewing.c = kept
      BY <1>1 DEF Browsing!Live
    <3>2. kept[1] \in Browsing!GrantIds /\ c[1] \in Browsing!GrantIds
      BY <1>1, <3>1, Asks, RowTypes DEF BrowserInv, KeptInOrder, Issued
    <3>3. CASE kept[1] /= c[1]
      <4>1. grant'[kept[1]] = grant[kept[1]]
        BY <2>1, <3>2, <3>3
      <4> QED BY <1>1, <3>1, <4>1 DEF BrowserInv, KeptInOrder, Browsing!Live
    <3>4. CASE kept[1] = c[1]
      <4>1. kept = c
        BY <1>3, <3>1, <3>2, <3>4, BrowserTyped
      <4>2. r.end = "live"
        BY <2>1, <3>1, <3>4
      <4> QED BY <1>2, <1>5, <2>1, <4>1, <4>2, <1>1, Asks
    <3> QED BY <3>3, <3>4
  <2>5. SavesInOrder' /\ OptionsInOrder' /\ KeptInOrder'
    BY <1>1, <1>2, <2>1, <2>3, <2>4, OthersAfterTurn
  <2>6. RenewalInOrder'
    <3>1. Issued(renewing.c)'
      BY <1>1, <1>2, <2>1, Asks DEF Issued
    <3>2. \E s \in Saves : save'[s].phase = "renews"
                            /\ save'[s].c = renewing'.c
      BY <1>1, <1>2 DEF BrowserInv, RenewalInOrder
    <3> QED BY <1>1, <1>2, <1>3, <1>5, <2>1, <3>1, <3>2
           DEF RenewalInOrder, Browsing!Live
  <2>7. Browsing!NotReplayed'
    BY <1>1, <1>5, <2>1 DEF BrowserInv, Browsing!NotReplayed
  <2> QED BY <2>1, <2>2, <2>5, <2>6, <2>7 DEF BrowserInv
<1> QED BY <1>1, <1>4, <1>5, AnsweredIs

\* What becomes of the grants as a renewal is answered and nobody hears it, or
\* its request never arrives.
LEMMA UnheardIs ==
    ASSUME BrowserInv, UNCHANGED kept,
           \/ UNCHANGED grant
           \/ /\ renewing.phase = "asks" /\ Browsing!Within(renewing.c)
              /\ grant' = Browsing!Refreshed(renewing.c)
    PROVE  /\ grant' \in [Browsing!GrantIds -> GrantRows]
           /\ GrantsInOrder'
           /\ \A c \in Browsing!Connections : Issued(c) => Issued(c)'
           /\ \A h \in Browsing!GrantIds :
                 /\ grant'[h].lapsed = grant[h].lapsed
                 /\ grant'[h].end = "unmade" <=> grant[h].end = "unmade"
                 /\ grant'[h].end = "live" => grant[h].end = "live"
           /\ options.phase = "connects" =>
                 grant'[options.c[1]].gen = grant[options.c[1]].gen
           /\ kept /= <<0, 0>> /\ Browsing!Live(kept[1])' =>
                 grant'[kept[1]].gen - 1 <= kept[2]
<1>1. ASSUME UNCHANGED grant
      PROVE  /\ grant' \in [Browsing!GrantIds -> GrantRows]
             /\ GrantsInOrder'
             /\ \A c \in Browsing!Connections : Issued(c) => Issued(c)'
             /\ kept /= <<0, 0>> /\ Browsing!Live(kept[1])' =>
                   grant'[kept[1]].gen - 1 <= kept[2]
  <2>1. grant' \in [Browsing!GrantIds -> GrantRows] /\ GrantsInOrder'
    BY <1>1, RowTypes DEF BrowserInv, GrantsInOrder
  <2>2. \A c \in Browsing!Connections : Issued(c) => Issued(c)'
    BY <1>1 DEF Issued
  <2>3. kept /= <<0, 0>> /\ Browsing!Live(kept[1])' =>
           grant'[kept[1]].gen - 1 <= kept[2]
    BY <1>1 DEF BrowserInv, KeptInOrder, Browsing!Live
  <2> QED BY <2>1, <2>2, <2>3
<1>2. CASE /\ renewing.phase = "asks" /\ Browsing!Within(renewing.c)
           /\ grant' = Browsing!Refreshed(renewing.c)
  <2> DEFINE c == renewing.c
  <2>1. CASE UNCHANGED grant
    BY <1>1, <2>1
  <2>3. UNCHANGED grant \/ \E r \in GrantRows :
               /\ grant' = [grant EXCEPT ![c[1]] = r]
               /\ grant[c[1]].end = "live" /\ r.lapsed = grant[c[1]].lapsed
               /\ \/ /\ Browsing!Gives(c) /\ c[2] = grant[c[1]].gen
                     /\ r.end = "live" /\ r.gen = c[2] + 1 /\ r.lapsed = c[2]
                  \/ /\ ~Browsing!Gives(c) /\ losses /= 0
                     /\ c[2] = grant[c[1]].gen - 1
                     /\ r.end = "replayed" /\ r.gen = grant[c[1]].gen
    BY <1>2, AnsweredIs
  <2>4. CASE \E r \in GrantRows :
               /\ grant' = [grant EXCEPT ![c[1]] = r]
               /\ grant[c[1]].end = "live" /\ r.lapsed = grant[c[1]].lapsed
               /\ \/ /\ Browsing!Gives(c) /\ c[2] = grant[c[1]].gen
                     /\ r.end = "live" /\ r.gen = c[2] + 1 /\ r.lapsed = c[2]
                  \/ /\ ~Browsing!Gives(c) /\ losses /= 0
                     /\ c[2] = grant[c[1]].gen - 1
                     /\ r.end = "replayed" /\ r.gen = grant[c[1]].gen
    <3>1. PICK r \in GrantRows :
               /\ grant' = [grant EXCEPT ![c[1]] = r]
               /\ grant[c[1]].end = "live" /\ r.lapsed = grant[c[1]].lapsed
               /\ \/ /\ Browsing!Gives(c) /\ c[2] = grant[c[1]].gen
                     /\ r.end = "live" /\ r.gen = c[2] + 1 /\ r.lapsed = c[2]
                  \/ /\ ~Browsing!Gives(c) /\ losses /= 0
                     /\ c[2] = grant[c[1]].gen - 1
                     /\ r.end = "replayed" /\ r.gen = grant[c[1]].gen
      BY <2>4
    <3>7. /\ grant' \in [Browsing!GrantIds -> GrantRows]
          /\ GrantsInOrder'
          /\ \A d \in Browsing!Connections : Issued(d) => Issued(d)'
          /\ \A h \in Browsing!GrantIds :
                /\ grant'[h].lapsed = grant[h].lapsed
                /\ grant'[h].end = "unmade" <=> grant[h].end = "unmade"
                /\ grant'[h].end = "live" => grant[h].end = "live"
                /\ h /= c[1] => grant'[h] = grant[h]
          /\ grant'[c[1]] = r
      BY <1>2, <3>1, Asks, GrantTurns
    <3>8. options.phase = "connects" =>
              grant'[options.c[1]].gen = grant[options.c[1]].gen
      <4>1. options.phase = "connects" =>
              options.c[1] \in Browsing!GrantIds /\ c[1] /= options.c[1]
        BY <1>2, Asks, RowTypes DEF BrowserInv, OptionsInOrder, Issued
      <4> QED BY <3>7, <4>1
    <3>9. ASSUME kept /= <<0, 0>>, grant'[kept[1]].end = "live"
          PROVE  grant'[kept[1]].gen - 1 <= kept[2]
      <4>1. kept[1] \in Browsing!GrantIds /\ c[1] \in Browsing!GrantIds
            /\ c[2] \in Int
        BY <1>2, <3>9, Asks, RowTypes DEF BrowserInv, KeptInOrder, Issued
      <4>2. CASE kept[1] /= c[1]
        <5>1. grant'[kept[1]] = grant[kept[1]]
          BY <3>7, <4>1, <4>2
        <5> QED BY <3>9, <5>1 DEF BrowserInv, KeptInOrder, Browsing!Live
      <4>3. CASE kept[1] = c[1]
        <5>1. kept = <<0, 0>> \/ c[1] < kept[1] \/ kept = c
          BY <1>2 DEF BrowserInv, RenewalInOrder
        <5>2. kept = c
          BY <3>9, <4>1, <4>3, <5>1, BrowserTyped
        <5>3. r.end = "live"
          BY <3>7, <3>9, <4>3
        <5>4. grant'[kept[1]].gen = kept[2] + 1 /\ kept[2] \in Int
          BY <3>1, <3>7, <4>1, <5>2, <5>3
        <5> QED BY <5>4
      <4> QED BY <4>2, <4>3
    <3> QED BY <3>7, <3>8, <3>9 DEF Browsing!Live
  <2> QED BY <2>1, <2>3, <2>4
<1> QED BY <1>1, <1>2

LEMMA NoAnswerKeeps ==
    ASSUME BrowserInv, Browsing!NoAnswer PROVE BrowserInv'
<1> DEFINE c == renewing.c
<1>1. /\ renewing.phase = "asks" /\ losses < MaxBrowserFaults
      /\ UNCHANGED grant \/ (Browsing!Within(c)
                             /\ grant' = Browsing!Refreshed(c))
      /\ renewing' = [renewing EXCEPT !.phase = "failed"]
      /\ losses' = losses + 1 /\ UNCHANGED <<kept, save, options>>
  BY DEF Browsing!NoAnswer
<1>2. /\ renewing'.c = c /\ renewing' \in Renewals
      /\ renewing'.phase = "failed"
  BY <1>1, RowTypes DEF Renewals
<1>3. losses' \in 0..MaxBrowserFaults /\ losses' /= 0
  BY <1>1, RowTypes, BrowserTyped
<1>4. /\ grant' \in [Browsing!GrantIds -> GrantRows]
      /\ GrantsInOrder'
      /\ \A d \in Browsing!Connections : Issued(d) => Issued(d)'
      /\ \A h \in Browsing!GrantIds :
            /\ grant'[h].lapsed = grant[h].lapsed
            /\ grant'[h].end = "unmade" <=> grant[h].end = "unmade"
            /\ grant'[h].end = "live" => grant[h].end = "live"
      /\ options.phase = "connects" =>
            grant'[options.c[1]].gen = grant[options.c[1]].gen
      /\ kept /= <<0, 0>> /\ Browsing!Live(kept[1])' =>
            grant'[kept[1]].gen - 1 <= kept[2]
  BY <1>1, UnheardIs
<1>5. Browsing!TypeOK'
  BY <1>1, <1>2, <1>3, <1>4, RowTypes, TypedNext
<1>6. SavesInOrder' /\ OptionsInOrder' /\ KeptInOrder'
  BY <1>1, <1>2, <1>3, <1>4, OthersAfterTurn
<1>7. RenewalInOrder'
  <2>1. Issued(renewing.c)'
    BY <1>1, <1>2, <1>4, Asks DEF Issued
  <2>2. \E s \in Saves : save'[s].phase = "renews"
                          /\ save'[s].c = renewing'.c
    BY <1>1, <1>2 DEF BrowserInv, RenewalInOrder
  <2> QED BY <1>2, <2>1, <2>2 DEF RenewalInOrder
<1>8. Browsing!NotReplayed'
  BY <1>3 DEF Browsing!NotReplayed
<1> QED BY <1>4, <1>5, <1>6, <1>7, <1>8 DEF BrowserInv

LEMMA WorkerEndsKeeps ==
    ASSUME BrowserInv, Browsing!WorkerEnds PROVE BrowserInv'
<1>1. /\ losses < MaxBrowserFaults
      /\ \/ UNCHANGED grant
         \/ /\ renewing.phase = "asks" /\ Browsing!Within(renewing.c)
            /\ grant' = Browsing!Refreshed(renewing.c)
      /\ save' = [s \in Saves |-> [phase |-> "idle", c |-> <<0, 0>>,
                                   tried |-> FALSE]]
      /\ renewing' = [phase |-> "none", c |-> <<0, 0>>]
      /\ losses' = losses + 1 /\ UNCHANGED <<kept, options>>
  BY DEF Browsing!WorkerEnds, Browsing!Idle, Browsing!NoRenewal,
     Browsing!None
<1>2. /\ renewing' \in Renewals /\ save' \in [Saves -> SaveRows]
      /\ \A s \in Saves : save'[s] = [phase |-> "idle", c |-> <<0, 0>>,
                                      tried |-> FALSE]
      /\ renewing'.phase = "none" /\ renewing'.c = <<0, 0>>
      /\ \A s \in Saves : save'[s].c = <<0, 0>>
  BY <1>1, BrowserTyped DEF Renewals, SaveRows
<1>3. losses' \in 0..MaxBrowserFaults /\ losses' /= 0
  BY <1>1, RowTypes, BrowserTyped
<1>4. /\ grant' \in [Browsing!GrantIds -> GrantRows]
      /\ GrantsInOrder'
      /\ \A d \in Browsing!Connections : Issued(d) => Issued(d)'
      /\ \A h \in Browsing!GrantIds :
            /\ grant'[h].lapsed = grant[h].lapsed
            /\ grant'[h].end = "unmade" <=> grant[h].end = "unmade"
            /\ grant'[h].end = "live" => grant[h].end = "live"
      /\ options.phase = "connects" =>
            grant'[options.c[1]].gen = grant[options.c[1]].gen
      /\ kept /= <<0, 0>> /\ Browsing!Live(kept[1])' =>
            grant'[kept[1]].gen - 1 <= kept[2]
  BY <1>1, UnheardIs
<1>5. Browsing!TypeOK'
  BY <1>1, <1>2, <1>3, <1>4, RowTypes, TypedNext
<1>6. SavesInOrder'
  BY <1>2 DEF SavesInOrder, SaveInOrder
<1>7. OptionsInOrder'
  <2>1. Issued(options.c) => /\ Issued(options.c)'
                             /\ options.c[1] \in Browsing!GrantIds
    BY <1>1, <1>4, RowTypes DEF Issued
  <2>2. options.phase = "connects" => 0 < options.c[1]
    BY <2>1, BrowserTyped DEF BrowserInv, OptionsInOrder
  <2> QED BY <1>1, <1>2, <1>4, <2>1, <2>2 DEF BrowserInv, OptionsInOrder
<1>8. KeptInOrder'
  <2>1. SUFFICES ASSUME kept /= <<0, 0>> PROVE KeptInOrder'
    BY <1>1 DEF KeptInOrder
  <2>2. Issued(kept)'
    BY <1>1, <1>4, <2>1, RowTypes DEF BrowserInv, KeptInOrder, Issued
  <2>3. \A h \in Browsing!GrantIds :
           kept[1] < h /\ grant'[h].end /= "unmade" =>
              options'.phase = "connects" /\ options'.c = <<h, 1>>
    BY <1>1, <1>4, <2>1 DEF BrowserInv, KeptInOrder
  <2>4. Upto(<<0, 0>>, kept)
    BY <2>1, RowTypes, BrowserTyped DEF Upto
  <2> QED BY <1>1, <1>2, <1>3, <1>4, <2>1, <2>2, <2>3, <2>4
         DEF KeptInOrder, Upto
<1>9. RenewalInOrder'
  BY <1>2 DEF RenewalInOrder
<1>10. Browsing!NotReplayed'
  BY <1>3 DEF Browsing!NotReplayed
<1> QED BY <1>4, <1>5, <1>6, <1>7, <1>8, <1>9, <1>10 DEF BrowserInv

-----------------------------------------------------------------------------
(* What the page does, and what happens meanwhile.                          *)

\* Whoever goes by a grant goes by one made before the next.
LEMMA MadeBefore ==
    ASSUME BrowserInv, NEW g \in Browsing!GrantIds, grant[g].end = "unmade",
           NEW c \in Browsing!Connections, c = <<0, 0>> \/ Issued(c)
    PROVE  c[1] < g
<1>1. CASE c = <<0, 0>>
  <2>1. c[1] = 0 /\ g \in Int /\ g >= 1
    BY <1>1, BrowserTyped
  <2> QED BY <2>1
<1>2. CASE Issued(c)
  <2>1. c[1] \in Browsing!GrantIds /\ grant[c[1]].end /= "unmade"
    BY <1>2 DEF Issued
  <2>2. ~(g < c[1]) /\ g /= c[1]
    BY <2>1 DEF BrowserInv, GrantsInOrder
  <2> QED BY <2>1, <2>2, BrowserTyped
<1> QED BY <1>1, <1>2

LEMMA MadeAll ==
    ASSUME BrowserInv, NEW g \in Browsing!GrantIds, grant[g].end = "unmade"
    PROVE  /\ kept[1] < g /\ renewing.c[1] < g
           /\ \A s \in Saves : save[s].c[1] < g
<1>1. kept[1] < g
  BY MadeBefore, RowTypes DEF BrowserInv, KeptInOrder
<1>2. renewing.c[1] < g
  BY MadeBefore, RowTypes DEF BrowserInv, RenewalInOrder
<1>3. ASSUME NEW s \in Saves PROVE save[s].c[1] < g
  <2>1. save[s].c = <<0, 0>> \/ Issued(save[s].c)
    BY DEF BrowserInv, SavesInOrder, SaveInOrder
  <2> QED BY <2>1, MadeBefore, RowTypes
<1> QED BY <1>1, <1>2, <1>3

LEMMA ConnectKeeps ==
    ASSUME BrowserInv, NEW g \in Browsing!GrantIds, Browsing!connect(g)
    PROVE  BrowserInv'
<1> DEFINE r == [end |-> "live", gen |-> 1, lapsed |-> 0]
<1>1. /\ options.phase = "rests" /\ grant[g].end = "unmade"
      /\ \A h \in Browsing!GrantIds : h < g =>
            grant[h] /= [end |-> "unmade", gen |-> 0, lapsed |-> 0]
      /\ grant' = [grant EXCEPT ![g] = r]
      /\ options' = [phase |-> "connects", c |-> <<g, 1>>]
      /\ UNCHANGED <<kept, save, renewing, losses>>
  BY DEF Browsing!connect, Browsing!Resting, Browsing!NotMade
<1>2. /\ kept[1] < g /\ renewing.c[1] < g
      /\ \A s \in Saves : save[s].c[1] < g
  BY <1>1, MadeAll
<1>3. 1 \in Browsing!Tokens /\ 0 \in 0..MaxTokens /\ 1 \in 0..MaxTokens
  BY OneServiceAssumption DEF Browsing!Tokens
<1>4. /\ r \in GrantRows /\ r.end = "live" /\ r.gen = 1 /\ r.lapsed = 0
      /\ <<g, 1>> \in Browsing!Connections
  BY <1>3 DEF GrantRows, Browsing!Connections
<1>5. /\ grant' \in [Browsing!GrantIds -> GrantRows] /\ grant'[g] = r
      /\ \A h \in Browsing!GrantIds : h /= g => grant'[h] = grant[h]
  BY <1>1, <1>4, RowTypes
<1>6. /\ options' \in PageRows /\ options'.c = <<g, 1>>
      /\ options'.phase = "connects" /\ <<g, 1>>[1] = g /\ <<g, 1>>[2] = 1
  BY <1>1, <1>4 DEF PageRows
<1>7. Browsing!TypeOK'
  BY <1>1, <1>5, <1>6, RowTypes, TypedNext
<1>8. \A h \in Browsing!GrantIds : g < h => grant[h].end = "unmade"
  BY <1>1 DEF BrowserInv, GrantsInOrder
<1>9. \A h \in Browsing!GrantIds : h < g => grant[h].end /= "unmade"
  <2>1. SUFFICES ASSUME NEW h \in Browsing!GrantIds, h < g,
                        grant[h].end = "unmade"
                 PROVE  FALSE
    OBVIOUS
  <2>2. /\ grant[h] \in GrantRows /\ grant[h].gen = 0
        /\ grant[h].lapsed <= grant[h].gen
    BY <2>1, RowTypes DEF BrowserInv, GrantsInOrder
  <2>3. grant[h].lapsed = 0
    BY <2>2, BrowserTyped DEF GrantRows
  <2>4. grant[h] = [end |-> "unmade", gen |-> 0, lapsed |-> 0]
    BY <2>1, <2>2, <2>3 DEF GrantRows
  <2> QED BY <1>1, <2>1, <2>4
<1>10. GrantsInOrder'
  <2>1. SUFFICES ASSUME NEW h \in Browsing!GrantIds
                 PROVE  /\ grant'[h].lapsed <= grant'[h].gen
                        /\ grant'[h].end = "unmade" =>
                              /\ grant'[h].gen = 0
                              /\ \A k \in Browsing!GrantIds : h < k =>
                                    grant'[k].end = "unmade"
                        /\ grant'[h].end /= "unmade" => 1 <= grant'[h].gen
    BY DEF GrantsInOrder
  <2>2. CASE h = g
    BY <1>4, <1>5, <2>2
  <2>3. CASE h /= g
    <3>1. grant'[h] = grant[h]
      BY <1>5, <2>3
    <3>2. ASSUME grant[h].end = "unmade", NEW k \in Browsing!GrantIds, h < k
          PROVE  grant'[k].end = "unmade"
      <4>1. ~(h < g)
        BY <1>9, <3>2
      <4>2. k /= g
        BY <3>2, <4>1
      <4> QED BY <1>5, <3>2, <4>2 DEF BrowserInv, GrantsInOrder
    <3> QED BY <3>1, <3>2 DEF BrowserInv, GrantsInOrder
  <2> QED BY <2>2, <2>3
<1>11. OptionsInOrder'
  <2>1. Issued(<<g, 1>>)'
    BY <1>3, <1>4, <1>5, <1>6 DEF Issued
  <2>2. \A h \in Browsing!GrantIds : g < h => grant'[h].end = "unmade"
    <3>1. SUFFICES ASSUME NEW h \in Browsing!GrantIds, g < h
                   PROVE  grant'[h].end = "unmade"
      OBVIOUS
    <3>2. h /= g
      BY <3>1, BrowserTyped
    <3> QED BY <1>5, <1>8, <3>1, <3>2
  <2> QED BY <1>1, <1>2, <1>4, <1>5, <1>6, <2>1, <2>2 DEF OptionsInOrder
<1>12. \A c \in Browsing!Connections :
          c[1] < g => /\ Issued(c) => Issued(c)'
                      /\ c[1] \in Browsing!GrantIds =>
                            grant'[c[1]] = grant[c[1]]
  <2>1. SUFFICES ASSUME NEW c \in Browsing!Connections, c[1] < g
                 PROVE  /\ Issued(c) => Issued(c)'
                        /\ c[1] \in Browsing!GrantIds =>
                              grant'[c[1]] = grant[c[1]]
    OBVIOUS
  <2>2. c[1] /= g
    BY <2>1, BrowserTyped
  <2>3. c[1] \in Browsing!GrantIds => grant'[c[1]] = grant[c[1]]
    BY <1>5, <2>2
  <2> QED BY <2>3 DEF Issued
<1>13. KeptInOrder'
  <2>1. SUFFICES ASSUME kept /= <<0, 0>> PROVE KeptInOrder'
    BY <1>1 DEF KeptInOrder
  <2>2. /\ Issued(kept) /\ Issued(kept)' /\ kept[1] \in Browsing!GrantIds
        /\ grant'[kept[1]] = grant[kept[1]]
    BY <1>1, <1>2, <1>12, <2>1, RowTypes DEF BrowserInv, KeptInOrder, Issued
  <2>3. \A h \in Browsing!GrantIds :
           kept[1] < h /\ grant'[h].end /= "unmade" =>
              options'.phase = "connects" /\ options'.c = <<h, 1>>
    BY <1>1, <1>5, <1>6, <2>1 DEF BrowserInv, KeptInOrder
  <2> QED BY <1>1, <2>1, <2>2, <2>3 DEF BrowserInv, KeptInOrder, Upto,
         Browsing!Live
<1>14. SavesInOrder'
  <2>1. SUFFICES ASSUME NEW s \in Saves PROVE SaveInOrder(save[s])'
    BY DEF SavesInOrder
  <2>2. PICK x \in SaveRows : x = save[s]
    BY RowTypes
  <2>3. SaveInOrder(x) /\ x.c \in Browsing!Connections /\ x.c[1] < g
    BY <1>2, <2>2, RowTypes DEF BrowserInv, SavesInOrder
  <2>4. Issued(x.c) => /\ Issued(x.c)'
                       /\ grant'[x.c[1]] = grant[x.c[1]]
    BY <1>12, <2>3 DEF Issued
  <2>5. \A h \in Browsing!GrantIds :
           grant[h].lapsed = 0 => grant'[h].lapsed = 0
    BY <1>4, <1>5
  <2>6. SaveInOrder(x)'
    BY <1>1, <2>3, <2>4, <2>5 DEF SaveInOrder, Browsing!Live,
       Browsing!Lapsed
  <2> QED BY <1>1, <2>2, <2>6
<1>15. RenewalInOrder'
  <2>1. Issued(renewing.c) => /\ Issued(renewing.c)'
                              /\ grant'[renewing.c[1]] = grant[renewing.c[1]]
    BY <1>1, <1>2, <1>12, RowTypes DEF Issued
  <2> QED BY <1>1, <2>1 DEF BrowserInv, RenewalInOrder, Browsing!Live
<1>16. Browsing!NotReplayed'
  BY <1>1, <1>4, <1>5 DEF BrowserInv, Browsing!NotReplayed
<1> QED BY <1>7, <1>10, <1>11, <1>13, <1>14, <1>15, <1>16 DEF BrowserInv

LEMMA ConnectedKeeps ==
    ASSUME ~Gaps, BrowserInv, Browsing!Connected PROVE BrowserInv'
<1> DEFINE d == options.c
<1>1. /\ options.phase = "connects" /\ renewing.phase /= "stores"
      /\ kept' = d /\ options' = [phase |-> "rests", c |-> <<0, 0>>]
      /\ UNCHANGED <<grant, save, renewing, losses>>
  BY DEF Browsing!Connected, Browsing!PageStores, Browsing!Resting,
     Browsing!None
<1>2. /\ Issued(d) /\ d[2] = 1 /\ grant[d[1]].gen = 1
      /\ \A h \in Browsing!GrantIds : d[1] < h => grant[h].end = "unmade"
      /\ kept[1] < d[1] /\ renewing.c[1] < d[1]
      /\ \A s \in Saves : save[s].c[1] < d[1]
      /\ d \in Browsing!Connections
  BY <1>1, RowTypes DEF BrowserInv, OptionsInOrder
<1>3. options' \in PageRows /\ options'.phase = "rests"
  BY <1>1, BrowserTyped DEF PageRows
<1>4. Browsing!TypeOK'
  BY <1>1, <1>2, <1>3, RowTypes, TypedNext
<1>5. GrantsInOrder' /\ OptionsInOrder' /\ Browsing!NotReplayed'
  BY <1>1, <1>3 DEF BrowserInv, GrantsInOrder, OptionsInOrder,
     Browsing!NotReplayed
<1>6. KeptInOrder'
  BY <1>1, <1>2 DEF KeptInOrder, Issued, Upto, Browsing!Live
<1>7. SavesInOrder'
  <2>1. SUFFICES ASSUME NEW s \in Saves PROVE SaveInOrder(save[s])'
    BY DEF SavesInOrder
  <2>2. PICK x \in SaveRows : x = save[s]
    BY RowTypes
  <2>3. SaveInOrder(x) /\ x.c[1] < d[1]
    BY <1>2, <2>2 DEF BrowserInv, SavesInOrder
  <2>4. kept'[1] /= x.c[1]
    BY <1>1, <1>2, <2>2, <2>3, RowTypes, BrowserTyped
  <2>5. SaveInOrder(x)'
    BY <1>1, <2>3, <2>4 DEF SaveInOrder, Issued, Browsing!Live,
       Browsing!Lapsed
  <2> QED BY <1>1, <2>2, <2>5
<1>8. RenewalInOrder'
  BY <1>1, <1>2 DEF BrowserInv, RenewalInOrder, Issued, Browsing!Live
<1> QED BY <1>4, <1>5, <1>6, <1>7, <1>8 DEF BrowserInv

LEMMA DisconnectKeeps ==
    ASSUME BrowserInv, Browsing!disconnect PROVE BrowserInv'
<1>1. /\ options.phase = "rests" /\ kept /= <<0, 0>>
      /\ options' = [phase |-> "drops", c |-> kept]
      /\ UNCHANGED <<grant, kept, save, renewing, losses>>
  BY DEF Browsing!disconnect, Browsing!Resting, Browsing!None
<1>2. options' \in PageRows /\ options'.phase = "drops" /\ options'.c = kept
  BY <1>1, RowTypes DEF PageRows
<1>3. Browsing!TypeOK'
  BY <1>1, <1>2, RowTypes, TypedNext
<1>4. GrantsInOrder' /\ OptionsInOrder' /\ Browsing!NotReplayed'
  BY <1>1, <1>2 DEF BrowserInv, GrantsInOrder, OptionsInOrder, KeptInOrder,
     Browsing!NotReplayed, Issued
<1>5. KeptInOrder'
  BY <1>1 DEF BrowserInv, KeptInOrder, Issued, Upto, Browsing!Live
<1>6. SavesInOrder'
  BY <1>1, SaveStays DEF BrowserInv, SavesInOrder
<1>7. RenewalInOrder'
  BY <1>1 DEF BrowserInv, RenewalInOrder, Issued, Browsing!Live
<1> QED BY <1>3, <1>4, <1>5, <1>6, <1>7 DEF BrowserInv

LEMMA DropKeeps ==
    ASSUME ~Gaps, BrowserInv, Browsing!Drop PROVE BrowserInv'
<1>1. /\ options.phase = "drops" /\ renewing.phase /= "stores"
      /\ kept' = <<0, 0>> /\ options' = [options EXCEPT !.phase = "tells"]
      /\ UNCHANGED <<grant, save, renewing, losses>>
  BY DEF Browsing!Drop, Browsing!PageStores, Browsing!None
<1>2. options' \in PageRows /\ options'.phase = "tells"
      /\ options'.c = options.c
  BY <1>1, RowTypes DEF PageRows
<1>3. kept' \in Browsing!Connections /\ kept'[1] = 0
  BY <1>1, BrowserTyped
<1>4. Browsing!TypeOK'
  BY <1>1, <1>2, <1>3, RowTypes, TypedNext
<1>5. GrantsInOrder' /\ OptionsInOrder' /\ Browsing!NotReplayed'
  BY <1>1, <1>2 DEF BrowserInv, GrantsInOrder, OptionsInOrder,
     Browsing!NotReplayed, Issued
<1>6. KeptInOrder'
  BY <1>1 DEF KeptInOrder
<1>7. SavesInOrder'
  <2>1. SUFFICES ASSUME NEW s \in Saves PROVE SaveInOrder(save[s])'
    BY DEF SavesInOrder
  <2>2. PICK x \in SaveRows : x = save[s]
    BY RowTypes
  <2>3. SaveInOrder(x)
    BY <2>2 DEF BrowserInv, SavesInOrder
  <2>4. Issued(x.c) => kept'[1] /= x.c[1]
    BY <1>3, BrowserTyped DEF Issued
  <2>5. SaveInOrder(x)'
    BY <1>1, <2>3, <2>4 DEF SaveInOrder, Issued, Browsing!Live,
       Browsing!Lapsed
  <2> QED BY <1>1, <2>2, <2>5
<1>8. RenewalInOrder'
  BY <1>1 DEF BrowserInv, RenewalInOrder, Issued, Browsing!Live
<1> QED BY <1>4, <1>5, <1>6, <1>7, <1>8 DEF BrowserInv

\* Whoever ends a grant that stands.
LEMMA RevokedKeeps ==
    ASSUME BrowserInv, NEW g \in Browsing!GrantIds, Browsing!Live(g),
           grant' = [grant EXCEPT ![g].end = "revoked"],
           UNCHANGED <<kept, save, renewing, losses>>,
           \/ options' = options
           \/ /\ options.phase = "tells"
              /\ options' = [phase |-> "rests", c |-> <<0, 0>>]
    PROVE  BrowserInv'
<1>1. PICK r \in GrantRows :
         /\ grant' = [grant EXCEPT ![g] = r] /\ r.end = "revoked"
         /\ r.gen = grant[g].gen /\ r.lapsed = grant[g].lapsed
         /\ grant[g].end = "live"
  <2>1. grant[g] \in GrantRows
    BY RowTypes
  <2>2. [grant[g] EXCEPT !.end = "revoked"] \in GrantRows
    BY <2>1 DEF GrantRows
  <2> QED BY <2>1, <2>2 DEF GrantRows, Browsing!Live
<1>2. /\ grant' \in [Browsing!GrantIds -> GrantRows]
      /\ GrantsInOrder'
      /\ \A c \in Browsing!Connections : Issued(c) => Issued(c)'
      /\ \A h \in Browsing!GrantIds :
            /\ grant'[h].lapsed = grant[h].lapsed
            /\ grant'[h].end = "unmade" <=> grant[h].end = "unmade"
            /\ grant'[h].end = "live" => grant[h].end = "live"
            /\ h /= g => grant'[h] = grant[h]
      /\ grant'[g] = r
  BY <1>1, GrantTurns
<1>3. \A h \in Browsing!GrantIds :
         /\ grant'[h].gen = grant[h].gen
         /\ grant'[h].end = "replayed" => grant[h].end = "replayed"
  BY <1>1, <1>2
<1>4. options' \in PageRows
  BY RowTypes, BrowserTyped DEF PageRows
<1>5. Browsing!TypeOK'
  BY <1>2, <1>4, RowTypes, TypedNext
<1>6. options.phase = "connects" =>
         /\ options' = options
         /\ grant'[options.c[1]].gen = grant[options.c[1]].gen
  BY <1>3 DEF BrowserInv, OptionsInOrder, Issued
<1>7. kept /= <<0, 0>> /\ Browsing!Live(kept[1])' =>
         /\ grant'[kept[1]].gen - 1 <= kept[2]
         /\ losses' = 0 =>
               \/ kept[2] = grant'[kept[1]].gen
               \/ /\ renewing'.phase \in {"given", "stores"}
                  /\ renewing.c = kept
  <2>1. SUFFICES ASSUME kept /= <<0, 0>>, grant'[kept[1]].end = "live"
                 PROVE  /\ grant'[kept[1]].gen - 1 <= kept[2]
                        /\ losses = 0 =>
                              \/ kept[2] = grant'[kept[1]].gen
                              \/ /\ renewing.phase \in {"given", "stores"}
                                 /\ renewing.c = kept
    BY DEF Browsing!Live
  <2>2. kept[1] \in Browsing!GrantIds
    BY <2>1, RowTypes DEF BrowserInv, KeptInOrder, Issued
  <2> QED BY <1>2, <1>3, <2>1, <2>2 DEF BrowserInv, KeptInOrder,
         Browsing!Live
<1>8. SavesInOrder' /\ KeptInOrder'
  BY <1>2, <1>6, <1>7, OthersAfterTurn
<1>9. OptionsInOrder'
  <2>1. CASE options' = options
    BY <1>2, <1>6, <2>1, OthersAfterTurn
  <2>2. CASE options' = [phase |-> "rests", c |-> <<0, 0>>]
    BY <2>2 DEF OptionsInOrder
  <2> QED BY <2>1, <2>2
<1>10. RenewalInOrder'
  <2>1. Issued(renewing.c) => /\ Issued(renewing.c)'
                              /\ renewing.c[1] \in Browsing!GrantIds
    BY <1>2, RowTypes DEF Issued
  <2> QED BY <1>2, <1>3, <2>1 DEF BrowserInv, RenewalInOrder, Browsing!Live
<1>11. Browsing!NotReplayed'
  BY <1>3 DEF BrowserInv, Browsing!NotReplayed
<1> QED BY <1>2, <1>5, <1>8, <1>9, <1>10, <1>11 DEF BrowserInv

LEMMA TellKeeps ==
    ASSUME BrowserInv, Browsing!Tell PROVE BrowserInv'
<1>1. /\ options.phase = "tells"
      /\ grant' \in {Browsing!RevokedByToken(options.c), grant}
      /\ options' = [phase |-> "rests", c |-> <<0, 0>>]
      /\ UNCHANGED <<kept, save, renewing, losses>>
  BY DEF Browsing!Tell, Browsing!Resting, Browsing!None
<1>2. options.c[1] \in Browsing!GrantIds
  BY <1>1 DEF BrowserInv, OptionsInOrder, Issued
<1>3. CASE /\ Browsing!Live(options.c[1])
           /\ grant' = [grant EXCEPT ![options.c[1]].end = "revoked"]
  BY <1>1, <1>2, <1>3, RevokedKeeps
<1>4. CASE UNCHANGED grant
  <2>1. options' \in PageRows /\ options'.phase = "rests"
    BY <1>1, BrowserTyped DEF PageRows
  <2>2. Browsing!TypeOK'
    BY <1>1, <1>4, <2>1, RowTypes, TypedNext
  <2>3. GrantsInOrder' /\ OptionsInOrder' /\ Browsing!NotReplayed'
    BY <1>1, <1>4, <2>1 DEF BrowserInv, GrantsInOrder, OptionsInOrder,
       Browsing!NotReplayed
  <2>4. KeptInOrder'
    BY <1>1, <1>4 DEF BrowserInv, KeptInOrder, Issued, Upto, Browsing!Live
  <2>5. SavesInOrder'
    BY <1>1, <1>4, SaveStays DEF BrowserInv, SavesInOrder
  <2>6. RenewalInOrder'
    BY <1>1, <1>4 DEF BrowserInv, RenewalInOrder, Issued, Browsing!Live
  <2> QED BY <2>2, <2>3, <2>4, <2>5, <2>6 DEF BrowserInv
<1> QED BY <1>1, <1>3, <1>4 DEF Browsing!RevokedByToken, Browsing!Gives

LEMMA LapseKeeps ==
    ASSUME BrowserInv, NEW g \in Browsing!GrantIds, Browsing!Lapse(g)
    PROVE  BrowserInv'
<1>1. /\ grant[g].lapsed < grant[g].gen
      /\ options /= [phase |-> "connects", c |-> <<g, 1>>]
      /\ \A s \in Saves : save[s] /= Browsing!Idle =>
            \/ g < save[s].c[1]
            \/ /\ g = save[s].c[1]
               /\ grant[g].lapsed + (IF save[s].tried THEN 2 ELSE 1)
                    <= save[s].c[2]
      /\ grant' = [grant EXCEPT ![g].lapsed = @ + 1]
      /\ UNCHANGED <<kept, save, renewing, options, losses>>
  BY DEF Browsing!Lapse
<1>2. /\ grant[g] \in GrantRows /\ grant[g].lapsed \in Int
      /\ grant[g].gen \in Int /\ grant[g].lapsed >= 0
      /\ grant[g].gen <= MaxTokens
  BY RowTypes, BrowserTyped DEF GrantRows
<1>3. PICK r \in GrantRows :
         /\ grant' = [grant EXCEPT ![g] = r] /\ r.end = grant[g].end
         /\ r.gen = grant[g].gen /\ r.lapsed = grant[g].lapsed + 1
  <2>1. grant[g].lapsed + 1 \in 0..MaxTokens
    BY <1>1, <1>2, BrowserTyped
  <2>2. [grant[g] EXCEPT !.lapsed = @ + 1] \in GrantRows
    BY <1>2, <2>1 DEF GrantRows
  <2> QED BY <1>1, <1>2, <2>2 DEF GrantRows
<1>4. /\ grant' \in [Browsing!GrantIds -> GrantRows] /\ grant'[g] = r
      /\ \A h \in Browsing!GrantIds :
            /\ h /= g => grant'[h] = grant[h]
            /\ grant'[h].end = grant[h].end /\ grant'[h].gen = grant[h].gen
  BY <1>3, RowTypes
<1>5. Browsing!TypeOK'
  BY <1>1, <1>4, RowTypes, TypedNext
<1>6. GrantsInOrder'
  <2>1. r.lapsed <= r.gen
    BY <1>1, <1>2, <1>3
  <2>2. \A h \in Browsing!GrantIds : grant'[h].lapsed <= grant'[h].gen
    BY <1>4, <2>1 DEF BrowserInv, GrantsInOrder
  <2> QED BY <1>4, <2>2 DEF BrowserInv, GrantsInOrder
<1>7. \A c \in Browsing!Connections : Issued(c) => Issued(c)'
  BY <1>4 DEF Issued
<1>8. OptionsInOrder'
  <2>1. options.phase = "connects" => options.c[1] /= g
    <3>1. SUFFICES ASSUME options.phase = "connects", options.c[1] = g
                   PROVE  FALSE
      OBVIOUS
    <3>2. options.c = <<g, 1>>
      BY <3>1, RowTypes, BrowserTyped DEF BrowserInv, OptionsInOrder
    <3>3. options = [phase |-> "connects", c |-> <<g, 1>>]
      BY <3>1, <3>2, RowTypes DEF PageRows
    <3> QED BY <1>1, <3>3
  <2>2. Issued(options.c) => /\ Issued(options.c)'
                             /\ options.c[1] \in Browsing!GrantIds
    BY <1>1, <1>7, RowTypes DEF Issued
  <2> QED BY <1>1, <1>4, <2>1, <2>2 DEF BrowserInv, OptionsInOrder
<1>9. KeptInOrder'
  <2>1. SUFFICES ASSUME kept /= <<0, 0>> PROVE KeptInOrder'
    BY <1>1 DEF KeptInOrder
  <2>2. Issued(kept)' /\ kept[1] \in Browsing!GrantIds
    BY <1>1, <1>7, <2>1, RowTypes DEF BrowserInv, KeptInOrder, Issued
  <2> QED BY <1>1, <1>4, <2>1, <2>2 DEF BrowserInv, KeptInOrder, Upto,
         Browsing!Live
<1>10. ASSUME NEW x \in SaveRows, SaveInOrder(x), x /= Browsing!Idle,
              \/ g < x.c[1]
              \/ /\ g = x.c[1]
                 /\ grant[g].lapsed + (IF x.tried THEN 2 ELSE 1) <= x.c[2]
       PROVE  /\ SaveInOrder(x)'
              /\ g = x.c[1] => grant[g].lapsed < x.c[2]
  <2>1. /\ x.phase /= "idle" /\ Issued(x.c)
        /\ x.c[1] \in Browsing!GrantIds /\ x.c[1] \in Int /\ x.c[2] \in Int
        /\ grant[x.c[1]].lapsed \in Int
    BY <1>10, RowTypes, BrowserTyped DEF SaveInOrder, SaveRows, Issued,
       Browsing!Idle, Browsing!None, GrantRows
  <2>2. Issued(x.c)'
    BY <1>7, <2>1 DEF Issued, SaveRows
  <2>3. \A h \in Browsing!GrantIds : x.c[1] < h => grant'[h].lapsed = 0
    <3>1. SUFFICES ASSUME NEW h \in Browsing!GrantIds, x.c[1] < h
                   PROVE  grant'[h].lapsed = 0
      OBVIOUS
    <3>2. h /= g
      BY <1>10, <2>1, <3>1, BrowserTyped
    <3> QED BY <1>4, <1>10, <2>1, <3>1, <3>2 DEF SaveInOrder
  <2>4. grant'[x.c[1]].lapsed = IF x.c[1] = g THEN grant[g].lapsed + 1
                                ELSE grant[x.c[1]].lapsed
    BY <1>3, <1>4, <2>1
  <2>5. g = x.c[1] => /\ grant[g].lapsed + 1 <= x.c[2]
                      /\ x.tried => grant[g].lapsed + 1 < x.c[2]
    BY <1>2, <1>10, <2>1, BrowserTyped
  <2>6. grant'[x.c[1]].end = grant[x.c[1]].end
    BY <1>4, <2>1
  <2>7. Browsing!Lapsed(x.c) => Browsing!Lapsed(x.c)'
    BY <2>1, <2>4 DEF Browsing!Lapsed
  <2>8. /\ x.phase = "sends" => grant'[x.c[1]].lapsed <= x.c[2]
        /\ x.phase = "sends" /\ x.tried => grant'[x.c[1]].lapsed < x.c[2]
        /\ x.phase = "refused" => grant'[x.c[1]].lapsed < x.c[2]
        /\ x.phase = "renews" /\ x.tried => grant'[x.c[1]].lapsed <= x.c[2]
    BY <1>10, <2>1, <2>4, <2>5 DEF SaveInOrder
  <2>9. SaveInOrder(x)'
    BY <1>1, <1>10, <2>1, <2>2, <2>3, <2>6, <2>7, <2>8 DEF SaveInOrder,
       Browsing!Live
  <2> QED BY <1>2, <2>1, <2>5, <2>9
<1>11. SavesInOrder'
  <2>1. SUFFICES ASSUME NEW s \in Saves PROVE SaveInOrder(save[s])'
    BY DEF SavesInOrder
  <2>2. PICK x \in SaveRows : x = save[s]
    BY RowTypes
  <2>3. SaveInOrder(x)
    BY <2>2 DEF BrowserInv, SavesInOrder
  <2>4. CASE x = Browsing!Idle
    BY <1>1, <2>2, <2>4 DEF SaveInOrder, Browsing!Idle, Browsing!None
  <2>5. CASE x /= Browsing!Idle
    <3>1. SaveInOrder(x)'
      BY <1>1, <1>10, <2>2, <2>3, <2>5
    <3> QED BY <1>1, <2>2, <3>1
  <2> QED BY <2>4, <2>5
<1>12. RenewalInOrder'
  <2>1. Issued(renewing.c) => /\ Issued(renewing.c)'
                              /\ renewing.c[1] \in Browsing!GrantIds
    BY <1>1, <1>7, RowTypes DEF Issued
  <2>2. renewing.phase \in {"given", "stores"} => renewing.c[1] /= g
    <3>1. SUFFICES ASSUME renewing.phase \in {"given", "stores"},
                          renewing.c[1] = g
                   PROVE  FALSE
      OBVIOUS
    <3>2. PICK s \in Saves :
             save[s].phase = "renews" /\ save[s].c = renewing.c
      BY <3>1 DEF BrowserInv, RenewalInOrder
    <3>3. SaveInOrder(save[s]) /\ save[s] \in SaveRows
          /\ save[s] /= Browsing!Idle
      BY <3>2, RowTypes DEF BrowserInv, SavesInOrder
    <3>4. \/ g < save[s].c[1]
          \/ /\ g = save[s].c[1]
             /\ grant[g].lapsed + (IF save[s].tried THEN 2 ELSE 1)
                  <= save[s].c[2]
      BY <1>1, <3>3
    <3>5. g = save[s].c[1] => grant[g].lapsed < save[s].c[2]
      BY <1>10, <3>3, <3>4
    <3>6. grant[g].lapsed = renewing.c[2]
      BY <3>1 DEF BrowserInv, RenewalInOrder
    <3> QED BY <1>2, <3>1, <3>2, <3>5, <3>6
  <2> QED BY <1>1, <1>4, <2>1, <2>2 DEF BrowserInv, RenewalInOrder,
         Browsing!Live
<1>13. Browsing!NotReplayed'
  BY <1>1, <1>4 DEF BrowserInv, Browsing!NotReplayed
<1> QED BY <1>5, <1>6, <1>8, <1>9, <1>11, <1>12, <1>13 DEF BrowserInv

LEMMA BrowserStep ==
    ASSUME ~Gaps, BrowserInv, [Browsing!Next]_(Browsing!vars)
    PROVE  BrowserInv'
<1>1. ASSUME NEW s \in Saves,
             \/ Browsing!Start(s) \/ Browsing!SendEnds(s)
             \/ Browsing!Unauthorized(s) \/ Browsing!Forget(s)
      PROVE  BrowserInv'
  BY <1>1, StartSaveKeeps, SendEndsKeeps, UnauthorizedKeeps, ForgetKeeps
<1>2. CASE Browsing!Renew \/ Browsing!Look \/ Browsing!Store
  BY <1>2, RenewKeeps, LookAgainKeeps, StoreKeeps
<1>3. CASE Browsing!Answer \/ Browsing!NoAnswer \/ Browsing!WorkerEnds
  BY <1>3, AnswerKeeps, NoAnswerKeeps, WorkerEndsKeeps
<1>4. CASE Browsing!Refuse \/ Browsing!Fail
  BY <1>4, RefuseFailKeeps
<1>5. CASE \/ Browsing!Connected \/ Browsing!disconnect \/ Browsing!Drop
           \/ Browsing!Tell
  BY <1>5, ConnectedKeeps, DisconnectKeeps, DropKeeps, TellKeeps
<1>6. ASSUME NEW g \in Browsing!GrantIds,
             \/ Browsing!connect(g) \/ Browsing!Revoked(g)
             \/ Browsing!Lapse(g)
      PROVE  BrowserInv'
  <2>1. CASE Browsing!Revoked(g)
    BY <2>1, RevokedKeeps DEF Browsing!Revoked
  <2> QED BY <1>6, <2>1, ConnectKeeps, LapseKeeps
<1>7. CASE UNCHANGED Browsing!vars
  <2>1. UNCHANGED <<grant, kept, save, renewing, options, losses>>
    BY <1>7 DEF Browsing!vars
  <2> QED BY <2>1 DEF BrowserInv, Browsing!TypeOK, GrantsInOrder,
         OptionsInOrder, KeptInOrder, SavesInOrder, SaveInOrder,
         RenewalInOrder, Browsing!NotReplayed, Issued, Upto,
         Browsing!Live, Browsing!Lapsed
<1> QED BY <1>1, <1>2, <1>3, <1>4, <1>5, <1>6, <1>7 DEF Browsing!Next,
       Browsing!Worker

\* What is kept changes as the page has it, or as the worker stores, or is
\* refused.
LEMMA KeptChanges ==
    ASSUME ~Gaps, BrowserInv, [Browsing!Next]_(Browsing!vars),
           options' = options, kept' /= kept
    PROVE  \/ /\ kept /= <<0, 0>> /\ kept' = <<kept[1], kept[2] + 1>>
           \/ kept' = <<0, 0>> /\ Browsing!Refuse
           \/ kept' = <<0, 0>> /\ \E s \in Saves : Browsing!Forget(s)
<1>1. CASE Browsing!Store
  <2>1. kept = renewing.c /\ kept' = <<kept[1], kept[2] + 1>>
        /\ Issued(kept)
    BY <1>1 DEF Browsing!Store, Browsing!NextTokens, BrowserInv,
       RenewalInOrder
  <2>2. kept /= <<0, 0>>
    BY <2>1, RowTypes, BrowserTyped DEF Issued
  <2> QED BY <2>1, <2>2
<1>2. CASE Browsing!Refuse
  BY <1>2 DEF Browsing!Refuse, Browsing!None
<1>3. ASSUME NEW s \in Saves, Browsing!Forget(s)
      PROVE  kept' = <<0, 0>>
  BY <1>3 DEF Browsing!Forget, Browsing!Forgotten, Browsing!None
<1>4. ~Browsing!Connected /\ ~Browsing!Drop
  <2>1. ~Browsing!Connected
    BY DEF Browsing!Connected, Browsing!Resting
  <2>2. ~Browsing!Drop
    <3>1. SUFFICES ASSUME Browsing!Drop PROVE FALSE
      OBVIOUS
    <3>2. /\ options.phase = "drops"
          /\ options' = [options EXCEPT !.phase = "tells"]
      BY <3>1 DEF Browsing!Drop
    <3>3. options'.phase = "tells"
      BY <3>2, RowTypes DEF PageRows
    <3> QED BY <3>2, <3>3
  <2> QED BY <2>1, <2>2
<1>5. ASSUME NEW s \in Saves,
             \/ Browsing!Start(s) \/ Browsing!SendEnds(s)
             \/ Browsing!Unauthorized(s)
      PROVE  FALSE
  BY <1>5 DEF Browsing!Start, Browsing!SendEnds, Browsing!Unauthorized
<1>6. ~(\/ Browsing!Renew \/ Browsing!Answer \/ Browsing!NoAnswer
        \/ Browsing!Fail \/ Browsing!Look \/ Browsing!WorkerEnds
        \/ Browsing!disconnect \/ Browsing!Tell)
  BY DEF Browsing!Renew, Browsing!Answer, Browsing!NoAnswer, Browsing!Fail,
     Browsing!Look, Browsing!WorkerEnds, Browsing!disconnect, Browsing!Tell
<1>7. ASSUME NEW g \in Browsing!GrantIds,
             \/ Browsing!connect(g) \/ Browsing!Revoked(g)
             \/ Browsing!Lapse(g)
      PROVE  FALSE
  BY <1>7 DEF Browsing!connect, Browsing!Revoked, Browsing!Lapse
<1>8. ~(UNCHANGED Browsing!vars)
  BY DEF Browsing!vars
<1> QED BY <1>1, <1>2, <1>3, <1>4, <1>5, <1>6, <1>7, <1>8
       DEF Browsing!Next, Browsing!Worker

\* A save that waits with a grant that stands waits because it has lapsed.
LEMMA WaitsForCause ==
    ASSUME BrowserInv, NEW s \in Saves, save[s].phase = "renews",
           Browsing!Live(save[s].c[1])
    PROVE  grant[save[s].c[1]].lapsed /= 0
<1>1. PICK x \in SaveRows : x = save[s]
  BY RowTypes
<1>2. SaveInOrder(x)
  BY <1>1 DEF BrowserInv, SavesInOrder
<1>3. Issued(x.c) /\ Browsing!Lapsed(x.c)
  BY <1>1, <1>2 DEF SaveInOrder, SaveRows
<1>4. x.c[2] >= 1 /\ x.c[2] <= grant[x.c[1]].lapsed /\ x.c[2] \in Int
  BY <1>3, BrowserTyped DEF Issued, Browsing!Lapsed
<1> QED BY <1>1, <1>4

LEMMA EndedIsDropped ==
    ASSUME BrowserInv, kept /= <<0, 0>>, Browsing!Live(kept[1]),
           Browsing!Refuse \/ \E s \in Saves : Browsing!Forget(s),
           NEW c \in Browsing!WasRefused
    PROVE  c[1] /= kept[1]
<1>1. kept[1] \in Browsing!GrantIds /\ kept[1] \in Int
      /\ kept \in Browsing!Connections
  BY RowTypes, BrowserTyped DEF BrowserInv, KeptInOrder, Issued
<1>2. PICK lost \in Saves :
        /\ save[lost].phase \in {"renews", "refused"}
        /\ ~Browsing!Live(save[lost].c[1])
        /\ c \in {renewing.c} \cup
                   {save[s].c : s \in {t \in Saves : save[t].phase = "renews"}}
           \/ c = save[lost].c
        /\ c = renewing.c => renewing.phase \in {"none", "refused"}
                             \/ save[lost].phase = "refused"
  <2>1. CASE Browsing!Refuse
    <3>1. renewing.phase = "refused"
      BY <2>1 DEF Browsing!Refuse, Browsing!Refusals
    <3>2. PICK i \in Saves :
             save[i].phase = "renews" /\ save[i].c = renewing.c
      BY <3>1 DEF BrowserInv, RenewalInOrder
    <3>3. ~Browsing!Live(save[i].c[1])
      BY <3>1, <3>2 DEF BrowserInv, RenewalInOrder
    <3>4. \A t \in Saves : save'[t] /= save[t] => save[t].phase = "renews"
      BY <2>1 DEF Browsing!Refuse, Browsing!Settled
    <3> QED BY <3>1, <3>2, <3>3, <3>4 DEF Browsing!WasRefused
  <2>2. ASSUME NEW s \in Saves, Browsing!Forget(s)
        PROVE  /\ save[s].phase = "refused"
               /\ ~Browsing!Live(save[s].c[1])
               /\ c = renewing.c \/ c = save[s].c
    <3>1. /\ save[s].phase = "refused"
          /\ save' = [save EXCEPT ![s] = Browsing!Idle]
      BY <2>2 DEF Browsing!Forget
    <3>2. \A t \in Saves : save'[t] /= save[t] => t = s
      BY <3>1, RowTypes
    <3>3. SaveInOrder(save[s])
      BY DEF BrowserInv, SavesInOrder
    <3> QED BY <3>1, <3>2, <3>3 DEF SaveInOrder, Browsing!WasRefused
  <2> QED BY <2>1, <2>2
<1>3. PICK x \in SaveRows : x = save[lost]
  BY RowTypes
<1>4. SaveInOrder(x) /\ x.phase /= "idle" /\ ~Browsing!Live(x.c[1])
      /\ Issued(x.c) /\ Upto(x.c, kept)
  BY <1>2, <1>3 DEF BrowserInv, SavesInOrder, SaveInOrder, KeptInOrder
<1>5. x.c[1] < kept[1]
  <2>1. x.c[1] /= kept[1]
    BY <1>4
  <2> QED BY <1>4, <2>1 DEF Upto
<1>6. grant[kept[1]].lapsed = 0
  BY <1>1, <1>4, <1>5 DEF SaveInOrder
<1>7. ASSUME NEW s \in Saves, save[s].phase = "renews"
      PROVE  save[s].c[1] /= kept[1]
  BY <1>6, <1>7, WaitsForCause
<1>8. renewing.c[1] /= kept[1]
  <2>1. CASE renewing.phase = "none"
    BY <1>1, <2>1, BrowserTyped DEF BrowserInv, RenewalInOrder
  <2>2. CASE renewing.phase /= "none"
    <3>1. PICK i \in Saves :
             save[i].phase = "renews" /\ save[i].c = renewing.c
      BY <2>2 DEF BrowserInv, RenewalInOrder
    <3> QED BY <3>1, <1>7
  <2> QED BY <2>1, <2>2
<1> QED BY <1>2, <1>3, <1>4, <1>7, <1>8

LEMMA ToldStays ==
    ASSUME BrowserInv, [Browsing!Next]_(Browsing!vars), NEW s \in Saves,
           save[s].phase = "refused", save'[s] = Browsing!Idle,
           losses' = losses
    PROVE  kept' = <<0, 0>>
<1>1. Browsing!Idle.phase = "idle"
  BY DEF Browsing!Idle
<1>2. save'[s] /= save[s]
  BY <1>1
<1>3. ASSUME NEW r \in Saves,
             \/ Browsing!Start(r) \/ Browsing!SendEnds(r)
             \/ Browsing!Unauthorized(r)
      PROVE  FALSE
  <2>1. save[r].phase /= "refused"
    BY <1>1, <1>3 DEF Browsing!Start, Browsing!SendEnds,
       Browsing!Unauthorized
  <2>2. r /= s /\ \A t \in Saves : t /= r => save'[t] = save[t]
    BY <1>3, <2>1, RowTypes DEF Browsing!Start, Browsing!SendEnds,
       Browsing!Unauthorized
  <2> QED BY <1>2, <2>2
<1>4. ASSUME NEW r \in Saves, Browsing!Forget(r) PROVE kept' = <<0, 0>>
  BY <1>4 DEF Browsing!Forget, Browsing!Forgotten, Browsing!None
<1>5. ASSUME NEW result, Browsing!Settled(result) PROVE FALSE
  BY <1>2, <1>5 DEF Browsing!Settled
<1>6. ~(\/ Browsing!Renew \/ Browsing!Refuse \/ Browsing!Fail
        \/ Browsing!Look \/ Browsing!Store)
  BY <1>2, <1>5 DEF Browsing!Renew, Browsing!Refuse, Browsing!Fail,
     Browsing!Look, Browsing!Store
<1>7. ~Browsing!WorkerEnds
  <2>1. losses \in Int
    BY RowTypes, BrowserTyped
  <2> QED BY <2>1 DEF Browsing!WorkerEnds
<1>8. ~(\/ Browsing!Answer \/ Browsing!NoAnswer \/ Browsing!Connected
        \/ Browsing!disconnect \/ Browsing!Drop \/ Browsing!Tell
        \/ UNCHANGED Browsing!vars)
  BY <1>2 DEF Browsing!Answer, Browsing!NoAnswer, Browsing!Connected,
     Browsing!disconnect, Browsing!Drop, Browsing!Tell, Browsing!vars
<1>9. ASSUME NEW g \in Browsing!GrantIds,
             \/ Browsing!connect(g) \/ Browsing!Revoked(g)
             \/ Browsing!Lapse(g)
      PROVE  FALSE
  BY <1>2, <1>9 DEF Browsing!connect, Browsing!Revoked, Browsing!Lapse
<1> QED BY <1>3, <1>4, <1>6, <1>7, <1>8, <1>9 DEF Browsing!Next,
       Browsing!Worker

LEMMA BrowserHolds ==
    ASSUME ~Gaps, BrowserInv, [Browsing!Next]_(Browsing!vars)
    PROVE  Browsing!ConnectionStands
<1>1. Browsing!WorkerAddsNone
  BY KeptChanges DEF Browsing!WorkerAddsNone, Browsing!None
<1>2. Browsing!DropsTheEnded
  <2>1. SUFFICES ASSUME options' = options, kept' = <<0, 0>>,
                        kept /= <<0, 0>>, Browsing!Live(kept[1]),
                        NEW c \in Browsing!WasRefused
                 PROVE  c[1] /= kept[1]
    BY DEF Browsing!DropsTheEnded, Browsing!None
  <2>2. kept' /= <<kept[1], kept[2] + 1>>
    BY <2>1, RowTypes, BrowserTyped
  <2>3. Browsing!Refuse \/ \E s \in Saves : Browsing!Forget(s)
    BY <2>1, <2>2, KeptChanges
  <2> QED BY <2>1, <2>3, EndedIsDropped
<1>3. Browsing!ToldToConnect
  BY ToldStays DEF Browsing!ToldToConnect, Browsing!None
<1>4. Browsing!NotReplayed' /\ Browsing!NoneLeftWaiting'
  <2>1. BrowserInv'
    BY BrowserStep
  <2>2. Browsing!NotReplayed'
    BY <2>1 DEF BrowserInv
  <2>3. renewing'.phase /= "none" => renewing' /= Browsing!NoRenewal
    BY DEF Browsing!NoRenewal
  <2>4. \A s \in Saves : SaveInOrder(save[s])'
    BY <2>1 DEF BrowserInv, SavesInOrder
  <2> QED BY <2>2, <2>3, <2>4 DEF Browsing!NoneLeftWaiting, SaveInOrder
<1> QED BY <1>1, <1>2, <1>3, <1>4 DEF Browsing!ConnectionStands

HIDE DEF grant, kept, save, renewing, options, losses

-----------------------------------------------------------------------------
(* The parts in one behaviour.                                              *)

LEMMA OnlyItsOwn ==
    ASSUME [OneNext]_OneVars
    PROVE  /\ part' = part
           /\ part = "ScimDoor" => [Door!Next]_(Door!vars)
           /\ part = "SetUp" => [Making!Next]_(Making!vars)
           /\ part = "ClientApproval" => [Letting!Next]_(Letting!vars)
           /\ part = "ClientLookup" => [Naming!Next]_(Naming!vars)
           /\ part = "BrowserClient" => [Browsing!Next]_(Browsing!vars)
<1>1. CASE OneNext
  BY <1>1 DEF OneNext
<1>2. CASE UNCHANGED OneVars
  BY <1>2 DEF OneVars, slots, Door!vars, Making!vars, Letting!vars,
     Naming!vars, Browsing!vars
<1> QED BY <1>1, <1>2

\* Whatever requests, revocations and failures interleave, what the door has
\* counted stands for what the log was told (scim routes.ts, limiter.ts).
THEOREM DoorStaysInOrder == OneSpec => [](part = "ScimDoor" => DoorInv)
<1> DEFINE I == part = "ScimDoor" => DoorInv
<1>1. OneInit => I
  BY DoorBegins DEF OneInit
<1>2. I /\ [OneNext]_OneVars => I'
  BY OnlyItsOwn, DoorStep
<1> QED BY <1>1, <1>2, PTL DEF OneSpec

\* Guesses never turn the tenant's own token away; the log is told of as many
\* as are allowed, and of one more at most for each request beside them, twice
\* that once the token is over; each is in one summary; and a request that
\* was let in is audited as what it did (scim routes.ts, limiter.ts).
THEOREM DoorStaysFair == OneSpec => []DoorIsFair
<1>1. (part = "ScimDoor" => DoorInv) => DoorIsFair
  BY DoorHolds DEF DoorIsFair
<1> QED BY <1>1, DoorStaysInOrder, PTL

\* Whichever commands run beside one another, one connect at a time, and
\* whatever fails or is cut short: what each of them has read and written, and
\* may still take back, is in order (solo.ts, team.ts, connect.ts).
THEOREM SetUpStaysInOrder ==
    ASSUME ~TwoConnects
    PROVE  OneSpec => [](part = "SetUp" => SetUpInv)
<1> DEFINE I == part = "SetUp" => SetUpInv
<1>1. OneInit => I
  BY SetUpBegins DEF OneInit
<1>2. I /\ [OneNext]_OneVars => I'
  BY OnlyItsOwn, SetUpStep
<1> QED BY <1>1, <1>2, PTL DEF OneSpec

\* config.json names a tenant wholly set up, no init leaves a tenant beside
\* another's, one left unfinished can be finished, and what connect did is
\* recorded or undone (solo.ts, team.ts, connect.ts).
THEOREM SetUpStaysWhole ==
    ASSUME ~TwoConnects
    PROVE  OneSpec => []SetUpIsWhole
<1>1. (part = "SetUp" => SetUpInv) => SetUpIsWhole
  BY SetUpHolds DEF SetUpIsWhole
<1> QED BY <1>1, SetUpStaysInOrder, PTL

\* While one version of the server runs, and the browser's page doesn't store
\* in the moment between the worker's look at the storage and its own store:
\* a client's row is as the app last decided, or the config; no two calls
\* fetch one client, and what is counted of them comes back; and the browser
\* keeps the newest connection it was given, or the one its renewal is about
\* to replace (oauth routes.ts, allowlist.ts, clients.ts, extension lib.ts).
THEOREM ClientsStayInOrder ==
    ASSUME ~Rolling, ~Gaps
    PROVE  OneSpec => []( /\ part = "ClientApproval" => ApprovalInv
                          /\ part = "ClientLookup" => LookupInv
                          /\ part = "BrowserClient" => BrowserInv )
<1> DEFINE I == /\ part = "ClientApproval" => ApprovalInv
                /\ part = "ClientLookup" => LookupInv
                /\ part = "BrowserClient" => BrowserInv
<1>1. OneInit => I
  BY ApprovalBegins, LookupBegins, BrowserBegins DEF OneInit
<1>2. I /\ [OneNext]_OneVars => I'
  BY OnlyItsOwn, ApprovalStep, LookupStep, BrowserStep
<1> QED BY <1>1, <1>2, PTL DEF OneSpec

\* A client gets what the app's last decision and the config give it, an admin
\* decides of it as it was shown, and a consent makes a code of one let in by
\* then only; of fetching a client's document nobody stays shut out; and the
\* browser renews its connection once for all its saves and drops what the
\* server won't have (oauth routes.ts, allowlist.ts, admin-api.ts, clients.ts,
\* extension lib.ts).
THEOREM ClientsStayAsDecided ==
    ASSUME ~Rolling, ~Gaps
    PROVE  OneSpec => ClientsAsDecided
<1> DEFINE I == /\ part = "ClientApproval" => ApprovalInv
                /\ part = "ClientLookup" => LookupInv
                /\ part = "BrowserClient" => BrowserInv
           A == /\ part = "ClientApproval" => Letting!AsDecided
                /\ part = "ClientLookup" => Naming!LookupsAreFair'
                /\ part = "BrowserClient" => Browsing!ConnectionStands
<1>1. I /\ [OneNext]_OneVars => A
  BY OnlyItsOwn, ApprovalHolds, LookupHolds, BrowserHolds
<1>2. I /\ [OneNext]_OneVars => [A]_OneVars
  BY <1>1
<1>3. OneSpec => []I
  BY ClientsStayInOrder
<1> QED BY <1>2, <1>3, PTL DEF OneSpec, ClientsAsDecided

\* The state of either has its types.
THEOREM ServicesAreTyped ==
    ASSUME ~TwoConnects
    PROVE  OneSpec => []( /\ part = "ScimDoor" => Door!TypeOK
                          /\ part = "SetUp" => Making!TypeOK )
<1>1. (part = "ScimDoor" => DoorInv) => (part = "ScimDoor" => Door!TypeOK)
  BY DoorHolds
<1>2. (part = "SetUp" => SetUpInv) => (part = "SetUp" => Making!TypeOK)
  BY SetUpHolds
<1> QED BY <1>1, <1>2, DoorStaysInOrder, SetUpStaysInOrder, PTL
=============================================================================
