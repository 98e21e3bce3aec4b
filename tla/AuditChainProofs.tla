-------------------------- MODULE AuditChainProofs --------------------------
(***************************************************************************)
(* Theorems about AuditChain, for every number of transactions, events and *)
(* damaged rows.                                                           *)
(***************************************************************************)
EXTENDS AuditChain, TLAPS, SequenceTheorems

\* What has this shape, whatever is said in it.
IsChain(t) == \E S : t \in Seq(S)
IsRow(r)   == r = [seq |-> r.seq, what |-> r.what, prev |-> r.prev,
                   hash |-> r.hash]
IsTx(x)    == x = [pc |-> x.pc, level |-> x.level, head |-> x.head]

-----------------------------------------------------------------------------
(* What is appended leaves what was there.                                  *)

LEMMA Grows ==
    ASSUME NEW t, IsChain(t), NEW x
    PROVE  /\ IsChain(Append(t, x)) /\ Len(t) \in Nat
           /\ Len(Append(t, x)) = Len(t) + 1
           /\ \A i \in 1..Len(t) : Append(t, x)[i] = t[i]
           /\ Append(t, x)[Len(t) + 1] = x
  <1>1. PICK S : t \in Seq(S)
    BY DEF IsChain
  <1>2. t \in Seq(S \cup {x}) /\ x \in S \cup {x}
    BY <1>1, SeqMonotonic
  <1>3. Append(t, x) \in Seq(S \cup {x})
    BY <1>2
  <1> QED
    BY <1>2, <1>3 DEF IsChain

LEMMA PrefixesStay ==
    ASSUME NEW t, IsChain(t), NEW x
    PROVE  /\ SubSeq(t, 1, Len(t)) = t
           /\ \A k \in 0..Len(t) : SubSeq(Append(t, x), 1, k) = SubSeq(t, 1, k)
  <1>1. PICK S : t \in Seq(S)
    BY DEF IsChain
  <1>2. SubSeq(t, 1, Len(t)) = t
    BY <1>1, SubSeqFull
  <1>3. ASSUME NEW k \in 0..Len(t)
        PROVE  SubSeq(Append(t, x), 1, k) = SubSeq(t, 1, k)
    <2> DEFINE a == SubSeq(Append(t, x), 1, k)
               b == SubSeq(t, 1, k)
    <2>1. /\ k \in Nat /\ k \in Int /\ 1 \in Int /\ Len(t) \in Nat
          /\ 1..k \subseteq 1..Len(t)
      BY <1>1
    <2>2. \A i \in 1..k : t[i] \in S /\ Append(t, x)[i] \in S
                          /\ Append(t, x)[i] = t[i]
      BY <1>1, <2>1, Grows DEF IsChain
    <2>3. /\ a \in Seq(S) /\ Len(a) = (IF 1 <= k THEN k - 1 + 1 ELSE 0)
          /\ \A i \in 1..(k - 1 + 1) : a[i] = Append(t, x)[1 + i - 1]
      BY <2>1, <2>2, SubSeqProperties
    <2>4. /\ b \in Seq(S) /\ Len(b) = (IF 1 <= k THEN k - 1 + 1 ELSE 0)
          /\ \A i \in 1..(k - 1 + 1) : b[i] = t[1 + i - 1]
      BY <2>1, <2>2, SubSeqProperties
    <2> HIDE DEF a, b
    <2>5. Len(a) = k /\ Len(b) = k
      BY <2>1, <2>3, <2>4
    <2>6. \A i \in 1..k : a[i] = b[i]
      <3> SUFFICES ASSUME NEW i \in 1..k PROVE a[i] = b[i]
        OBVIOUS
      <3>1. i \in 1..(k - 1 + 1) /\ 1 + i - 1 = i
        BY <2>1
      <3> QED
        BY <2>2, <2>3, <2>4, <3>1
    <2>7. a = b
      BY <2>3, <2>4, <2>5, <2>6, SeqEqual
    <2> QED
      BY <2>7 DEF a, b
  <1> QED
    BY <1>2, <1>3

-----------------------------------------------------------------------------
(* The invariant.                                                           *)

Holding == {"locked", "headed"}

\* A row's place, and what it says of all that was appended before it.
Placed(r) ==
    /\ IsRow(r) /\ r.seq \in 1..Len(truth)
    /\ r.prev = SubSeq(truth, 1, r.seq - 1)
    /\ r.hash = SubSeq(truth, 1, r.seq)
    /\ r.seq \notin damaged => r.what = truth[r.seq]

\* Nobody alters where the newest row is, or what it says was before it.
Chained ==
    /\ IsChain(truth)
    /\ \A r \in rows : Placed(r)
    /\ \A r, s \in rows : r.seq = s.seq => r = s
    /\ \A n \in 1..Len(truth) :
          n \notin damaged \/ n = Len(truth) => \E r \in rows : r.seq = n

Newest == [seq |-> Len(truth), hash |-> truth]

\* One transaction holds the lock, and what it read under it is so.
Held ==
    /\ writer = [w \in Writers |-> writer[w]]
    /\ \A w \in Writers :
          /\ IsTx(writer[w])
          /\ writer[w].pc \in {"idle", "acting", "locked", "headed"}
          /\ writer[w].pc = "headed" /\ writer[w].level # "serializable"
                => writer[w].head = Newest
    /\ \A v, w \in Writers :
          writer[v].pc \in Holding /\ writer[w].pc \in Holding => v = w

ChainInv == Chained /\ Held

LEMMA TopIsNewest ==
    ASSUME Chained
    PROVE  Top = Newest
  <1>1. Len(truth) \in Nat /\ IsChain(truth)
    BY Grows DEF Chained
  <1>2. CASE rows = {}
    <2>1. Len(truth) = 0
      <3>1. Len(truth) \notin 1..Len(truth)
        BY <1>2 DEF Chained
      <3> QED
        BY <1>1, <3>1
    <2>2. truth = <<>>
      BY <1>1, <2>1 DEF IsChain
    <2> QED
      BY <1>2, <2>1, <2>2 DEF Top, NoHead, Genesis, Newest
  <1>3. CASE rows # {}
    <2> DEFINE r == CHOOSE x \in rows : \A y \in rows : y.seq <= x.seq
    <2>1. PICK y \in rows : y \in rows
      BY <1>3
    <2>2. Len(truth) \in 1..Len(truth)
      BY <1>1, <2>1 DEF Chained, Placed
    <2>3. PICK n \in rows : n.seq = Len(truth)
      BY <2>2 DEF Chained
    <2>4. \A z \in rows : z.seq \in 1..Len(truth)
      BY DEF Chained, Placed
    <2>5. \A z \in rows : z.seq <= n.seq
      BY <1>1, <2>3, <2>4
    <2>6. r \in rows /\ \A z \in rows : z.seq <= r.seq
      BY <2>3, <2>5
    <2> HIDE DEF r
    <2>7. r.seq = Len(truth)
      BY <1>1, <2>3, <2>4, <2>6
    <2>8. r.hash = truth
      <3>1. r.hash = SubSeq(truth, 1, r.seq)
        BY <2>6 DEF Chained, Placed
      <3>2. SubSeq(truth, 1, Len(truth)) = truth
        BY <1>1, PrefixesStay
      <3> QED
        BY <2>7, <3>1, <3>2
    <2> QED
      BY <1>3, <2>7, <2>8 DEF Top, r, Newest
  <1> QED
    BY <1>2, <1>3

LEMMA Initially == Init => ChainInv
  <1> SUFFICES ASSUME Init PROVE ChainInv
    OBVIOUS
  <1>1. truth \in Seq({}) /\ Len(truth) = 0 /\ rows = {}
    BY DEF Init
  <1>2. Chained
    BY <1>1 DEF Chained, IsChain
  <1>3. Held
    BY DEF Init, Resting, Held, IsTx, Holding
  <1> QED
    BY <1>2, <1>3 DEF ChainInv

\* An event that follows the last one.
LEMMA AppendKeeps ==
    ASSUME Chained, NEW what, Inserted(what, Newest), UNCHANGED damaged
    PROVE  Chained'
  <1> DEFINE n == Len(truth)
  <1>1. PICK l : l = Linked(Newest, what)
    OBVIOUS
  <1>2. /\ truth' = Append(truth, what) /\ rows' = rows \cup {l}
        /\ damaged' = damaged
    BY <1>1 DEF Inserted
  <1>3. /\ IsChain(truth) /\ IsChain(truth') /\ n \in Nat
        /\ Len(truth') = n + 1 /\ truth'[n + 1] = what
        /\ \A i \in 1..n : truth'[i] = truth[i]
    BY <1>2, Grows DEF Chained
  <1>4. /\ \A k \in 0..n : SubSeq(truth', 1, k) = SubSeq(truth, 1, k)
        /\ SubSeq(truth, 1, n) = truth /\ SubSeq(truth', 1, n + 1) = truth'
    <2>1. SubSeq(truth', 1, Len(truth')) = truth'
      BY <1>3, PrefixesStay
    <2> QED
      BY <1>2, <1>3, <2>1, PrefixesStay
  <1>5. /\ l.seq = n + 1 /\ l.what = what /\ l.prev = truth /\ l.hash = truth'
        /\ IsRow(l)
    BY <1>1, <1>2 DEF Linked, Newest, IsRow
  <1> HIDE DEF n
  <1>6. Placed(l)'
    <2>1. n \in 0..n /\ n + 1 \in 1..(n + 1) /\ n + 1 - 1 = n
      BY <1>3
    <2>2. l.prev = SubSeq(truth', 1, n + 1 - 1)
      BY <1>4, <1>5, <2>1
    <2> QED
      BY <1>3, <1>4, <1>5, <2>1, <2>2 DEF Placed
  <1>7. ASSUME NEW r \in rows PROVE Placed(r)' /\ r.seq # l.seq
    <2>1. Placed(r) /\ r.seq \in 1..n
      BY DEF Chained, Placed, n
    <2>2. /\ r.seq \in 1..(n + 1) /\ r.seq # n + 1
          /\ r.seq \in 0..n /\ r.seq - 1 \in 0..n
      BY <1>3, <2>1
    <2> QED
      BY <1>2, <1>3, <1>4, <1>5, <2>1, <2>2 DEF Placed
  <1>8. ASSUME NEW m \in 1..Len(truth'),
               m \notin damaged' \/ m = Len(truth')
        PROVE  \E r \in rows' : r.seq = m
    <2>1. CASE m = n + 1
      BY <1>2, <1>5, <2>1
    <2>2. CASE m # n + 1
      <3>1. m \in 1..n /\ m \notin damaged
        BY <1>2, <1>3, <1>8, <2>2
      <3>2. PICK r \in rows : r.seq = m
        BY <3>1 DEF Chained, n
      <3> QED
        BY <1>2, <3>2
    <2> QED
      BY <2>1, <2>2
  <1>9. \A r, s \in rows' : r.seq = s.seq => r = s
    BY <1>2, <1>7 DEF Chained
  <1>10. \A r \in rows' : Placed(r)'
    BY <1>2, <1>6, <1>7
  <1> QED
    BY <1>3, <1>8, <1>9, <1>10 DEF Chained

LEMMA DamageKeeps ==
    ASSUME ChainInv, Damage
    PROVE  ChainInv'
  <1>1. PICK r \in rows :
           /\ \/ rows' = (rows \ {r}) \cup {[r EXCEPT !.what = <<"altered">>]}
              \/ r.seq < Top.seq /\ rows' = rows \ {r}
           /\ damaged' = damaged \cup {r.seq}
    BY DEF Damage
  <1>2. /\ Chained /\ Placed(r) /\ Top.seq = Len(truth)
        /\ UNCHANGED <<truth, writer>> /\ Len(truth) \in Nat
    BY TopIsNewest, Grows DEF ChainInv, Chained, Damage, Newest
  <1>3. PICK a : a = [r EXCEPT !.what = <<"altered">>]
    OBVIOUS
  <1>4. /\ a.seq = r.seq /\ a.prev = r.prev /\ a.hash = r.hash /\ IsRow(a)
    BY <1>2, <1>3 DEF Placed, IsRow
  <1>5. ASSUME NEW x \in rows PROVE Placed(x)'
    BY <1>1, <1>2 DEF Chained, Placed
  <1>6. Placed(a)'
    BY <1>1, <1>2, <1>4 DEF Placed
  <1>7. Chained'
    <2>1. CASE rows' = (rows \ {r}) \cup {a}
      <3>1. \A x \in rows' : Placed(x)'
        BY <1>5, <1>6, <2>1
      <3>2. \A x, y \in rows' : x.seq = y.seq => x = y
        BY <1>2, <1>4, <2>1 DEF Chained
      <3>3. ASSUME NEW n \in 1..Len(truth), \E x \in rows : x.seq = n
            PROVE  \E x \in rows' : x.seq = n
        BY <1>4, <2>1, <3>3
      <3> QED
        BY <1>1, <1>2, <3>1, <3>2, <3>3 DEF Chained
    <2>2. CASE r.seq < Len(truth) /\ rows' = rows \ {r}
      <3>1. /\ \A x \in rows' : Placed(x)'
            /\ \A x, y \in rows' : x.seq = y.seq => x = y
        BY <1>2, <1>5, <2>2 DEF Chained
      <3>2. r.seq # Len(truth)
        BY <1>2, <2>2 DEF Placed
      <3>3. ASSUME NEW n \in 1..Len(truth), n \notin damaged' \/ n = Len(truth)
            PROVE  \E x \in rows' : x.seq = n
        <4>1. PICK x \in rows : x.seq = n
          BY <1>1, <1>2, <3>3 DEF Chained
        <4>2. n # r.seq
          BY <1>1, <3>2, <3>3
        <4> QED
          BY <2>2, <4>1, <4>2
      <3> QED
        BY <1>1, <1>2, <3>1, <3>3 DEF Chained
    <2> QED
      BY <1>1, <1>2, <1>3, <2>1, <2>2
  <1>8. Held'
    BY <1>2 DEF ChainInv, Held, Newest
  <1> QED
    BY <1>7, <1>8 DEF ChainInv

\* A transaction's step that appends nothing.
LEMMA WriterKeeps ==
    ASSUME ChainInv, NEW w \in Writers, NEW x, IsTx(x), Writes(w, x),
           UNCHANGED <<rows, truth, damaged>>,
           x.pc \in {"idle", "acting", "locked", "headed"},
           x.pc = "headed" /\ x.level # "serializable" => x.head = Newest,
           x.pc \in Holding => LockIsFree \/ writer[w].pc \in Holding
    PROVE  ChainInv'
  <1>1. /\ writer' = [v \in Writers |-> IF v = w THEN x ELSE writer[v]]
        /\ writer' = [v \in Writers |-> writer'[v]]
    BY Zenon DEF ChainInv, Held, Writes
  <1>2. /\ writer'[w] = x
        /\ \A v \in Writers : v # w => writer'[v] = writer[v]
    BY <1>1
  <1>3. Newest' = Newest
    BY DEF Newest
  <1>4. \A v \in Writers :
          /\ IsTx(writer'[v])
          /\ writer'[v].pc \in {"idle", "acting", "locked", "headed"}
          /\ writer'[v].pc = "headed" /\ writer'[v].level # "serializable"
                => writer'[v].head = Newest
    BY <1>2 DEF ChainInv, Held
  <1>5. ASSUME NEW u \in Writers, NEW v \in Writers,
               writer'[u].pc \in Holding, writer'[v].pc \in Holding
        PROVE  u = v
    <2>1. ASSUME LockIsFree, NEW z \in Writers PROVE writer[z].pc \notin Holding
      BY <2>1 DEF LockIsFree, Holding
    <2> QED
      BY <1>2, <1>5, <2>1 DEF ChainInv, Held
  <1>6. Held'
    BY <1>1, <1>3, <1>4, <1>5 DEF Held
  <1>7. Chained'
    BY DEF ChainInv, Chained, Placed
  <1> QED
    BY <1>6, <1>7 DEF ChainInv

LEMMA InsertKeeps ==
    ASSUME ChainInv, NEW w \in Writers, Insert(w)
    PROVE  ChainInv'
  <1>1. /\ writer[w].pc = "headed" /\ writer[w].head = Newest
        /\ Inserted(Act, Newest) /\ UNCHANGED damaged /\ Writes(w, Resting)
    BY TopIsNewest DEF Insert, Extends, ChainInv
  <1>2. Chained'
    BY <1>1, AppendKeeps DEF ChainInv
  <1>3. /\ IsTx(Resting) /\ Resting.pc = "idle"
    BY DEF Resting, IsTx
  <1>4. /\ writer' = [v \in Writers |-> writer'[v]] /\ writer'[w] = Resting
        /\ \A v \in Writers : v # w => writer'[v] = writer[v]
    <2>1. writer' = [v \in Writers |-> IF v = w THEN Resting ELSE writer[v]]
      BY <1>1, Zenon DEF ChainInv, Held, Writes
    <2> QED
      BY <2>1
  <1>5. \A v \in Writers : v # w => writer[v].pc \notin Holding
    BY <1>1 DEF ChainInv, Held, Holding
  <1>6. Held'
    BY <1>3, <1>4, <1>5 DEF ChainInv, Held, Holding
  <1> QED
    BY <1>2, <1>6 DEF ChainInv

LEMMA RecordKeeps ==
    ASSUME ChainInv, RecordExport
    PROVE  ChainInv'
  <1>1. /\ LockIsFree /\ UNCHANGED <<damaged, writer>>
        /\ Inserted(Export(Len(reader.out), reader.pc = "cut"), Newest)
    BY TopIsNewest DEF RecordExport, ChainInv
  <1>2. Chained'
    BY <1>1, AppendKeeps DEF ChainInv
  <1>3. \A w \in Writers : writer[w].pc # "headed"
    BY <1>1 DEF LockIsFree
  <1>4. Held'
    BY <1>1, <1>3 DEF ChainInv, Held
  <1> QED
    BY <1>2, <1>4 DEF ChainInv

LEMMA ReaderKeeps ==
    ASSUME ChainInv, UNCHANGED <<rows, truth, damaged, writer>>
    PROVE  ChainInv'
  BY DEF ChainInv, Chained, Placed, Held, Newest

LEMMA ChainInvariant == Spec => []ChainInv
  <1>1. ASSUME ChainInv, [Next]_vars PROVE ChainInv'
    <2>1. ASSUME NEW w \in Writers, Begin(w) PROVE ChainInv'
      <3>1. PICK level \in {"read committed", "serializable"} :
               Writes(w, [pc |-> "acting", level |-> level, head |-> Top])
        BY <2>1 DEF Begin
      <3> DEFINE x == [pc |-> "acting", level |-> level, head |-> Top]
      <3>2. IsTx(x) /\ x.pc = "acting" /\ x.pc \notin Holding
        BY DEF IsTx, Holding
      <3>3. UNCHANGED <<rows, truth, damaged>> /\ Writes(w, x)
        BY <2>1, <3>1 DEF Begin
      <3> HIDE DEF x
      <3> QED
        BY <1>1, <3>2, <3>3, WriterKeeps
    <2>2. ASSUME NEW w \in Writers, Lock(w) PROVE ChainInv'
      <3> DEFINE x == [writer[w] EXCEPT !.pc = "locked"]
      <3>1. IsTx(x) /\ x.pc = "locked"
        BY <1>1 DEF ChainInv, Held, IsTx
      <3>2. /\ LockIsFree /\ Writes(w, x)
            /\ UNCHANGED <<rows, truth, damaged>>
        BY <2>2 DEF Lock
      <3> HIDE DEF x
      <3> QED
        BY <1>1, <3>1, <3>2, WriterKeeps
    <2>3. ASSUME NEW w \in Writers, ReadHead(w) PROVE ChainInv'
      <3>1. PICK h : h = HeadFor(w)
        OBVIOUS
      <3>2. PICK x : x = [writer[w] EXCEPT !.pc = "headed", !.head = h]
        OBVIOUS
      <3>3. writer[w] = [pc |-> writer[w].pc, level |-> writer[w].level,
                         head |-> writer[w].head]
        BY <1>1 DEF ChainInv, Held, IsTx
      <3>4. /\ x = [pc |-> "headed", level |-> writer[w].level, head |-> h]
            /\ IsTx(x)
        BY <3>2, <3>3 DEF IsTx
      <3>5. /\ Writes(w, x) /\ UNCHANGED <<rows, truth, damaged>>
            /\ writer[w].pc \in Holding
        BY <2>3, <3>1, <3>2 DEF ReadHead, Holding
      <3>6. x.level # "serializable" => x.head = Newest
        BY <1>1, <3>1, <3>4, TopIsNewest DEF HeadFor, ChainInv
      <3> QED
        BY <1>1, <3>4, <3>5, <3>6, WriterKeeps
    <2>4. ASSUME NEW w \in Writers, Insert(w) PROVE ChainInv'
      BY <1>1, <2>4, InsertKeeps
    <2>5. ASSUME NEW w \in Writers, Conflict(w) PROVE ChainInv'
      <3>1. writer[w].level = "serializable"
        BY <1>1, <2>5, TopIsNewest DEF Conflict, Extends, ChainInv, Held
      <3>2. /\ Writes(w, Resting) /\ UNCHANGED <<rows, truth, damaged>>
        BY <2>5, <3>1 DEF Conflict
      <3>3. IsTx(Resting) /\ Resting.pc = "idle" /\ Resting.pc \notin Holding
        BY DEF IsTx, Resting, Holding
      <3> QED
        BY <1>1, <3>2, <3>3, WriterKeeps
    <2>6. ASSUME NEW w \in Writers, RollBack(w) PROVE ChainInv'
      <3>1. /\ Writes(w, Resting) /\ UNCHANGED <<rows, truth, damaged>>
        BY <2>6 DEF RollBack
      <3>2. IsTx(Resting) /\ Resting.pc = "idle" /\ Resting.pc \notin Holding
        BY DEF IsTx, Resting, Holding
      <3> QED
        BY <1>1, <3>1, <3>2, WriterKeeps
    <2>7. CASE Damage
      BY <1>1, <2>7, DamageKeeps
    <2>8. CASE RecordExport
      BY <1>1, <2>8, RecordKeeps
    <2>9. CASE Start \/ VerifyPage \/ ExportPage \/ SinkFails \/ Finish
               \/ RecordFails \/ HandOver \/ ListPage
      <3>1. UNCHANGED <<rows, truth, damaged, writer>>
        BY <2>9 DEF Start, VerifyPage, ExportPage, SinkFails, Finish,
                    RecordFails, HandOver, ListPage, Reads
      <3> QED
        BY <1>1, <3>1, ReaderKeeps
    <2>10. CASE UNCHANGED vars
      BY <1>1, <2>10, ReaderKeeps DEF vars
    <2> QED
      BY <1>1, <2>1, <2>2, <2>3, <2>4, <2>5, <2>6, <2>7, <2>8, <2>9, <2>10
      DEF Next
  <1> QED
    BY <1>1, Initially, PTL DEF Spec

\* However many transactions append at once, at either isolation level, and
\* whatever rows somebody alters or takes out meanwhile, the chain stays one
\* line of all that was appended, and no append at read committed fails for
\* another's (store.ts appendEvent(): the lock, then the head).
THEOREM ChainNeverForks == Spec => []NeverForks
  <1>1. ChainInv => NeverForks
    <2> SUFFICES ASSUME ChainInv PROVE NeverForks
      OBVIOUS
    <2>1. \A r \in rows : /\ r.prev = SubSeq(truth, 1, r.seq - 1)
                          /\ r.seq \notin damaged => r.what = truth[r.seq]
      BY DEF ChainInv, Chained, Placed
    <2>2. \A s \in 1..Len(truth) :
             s \notin damaged => \E r \in rows : r.seq = s
      BY DEF ChainInv, Chained
    <2>3. \A w \in Writers : writer[w].pc # "failed"
      BY DEF ChainInv, Held
    <2> QED
      BY <2>1, <2>2, <2>3 DEF NeverForks
  <1> QED
    BY <1>1, ChainInvariant, PTL

=============================================================================
