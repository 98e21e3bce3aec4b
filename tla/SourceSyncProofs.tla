-------------------------- MODULE SourceSyncProofs --------------------------
(***************************************************************************)
(* Theorems about SourceSync, for every number of items, runners, changes  *)
(* and faults, and every guard, while runs do not overlap.                 *)
(***************************************************************************)
EXTENDS SourceSync, TLAPS, FiniteSetTheorems, WellFoundedInduction

-----------------------------------------------------------------------------
(* Operators.                                                               *)

LEMMA MinIsFirst ==
    ASSUME NEW S \in SUBSET Items, S # {}
    PROVE  Min(S) \in S /\ \A c \in S : Min(S) <= c
  <1>1. IsWellFoundedOn(OpToRel(<, Nat), Nat)
    BY NatLessThanWellFounded
  <1>2. S \subseteq Nat
    BY SyncAssumption DEF Items
  <1>3. PICK x \in S : \A y \in S : ~(<<y, x>> \in OpToRel(<, Nat))
    BY <1>1, <1>2, WFMin, Zenon
  <1>4. \A y \in S : y \in Nat /\ (~(y < x) => x <= y)
    BY <1>2
  <1>5. \A y \in S : ~(y < x)
    BY <1>2, <1>3 DEF OpToRel
  <1>6. \E z \in S : \A y \in S : z <= y
    BY <1>4, <1>5
  <1> QED BY <1>6 DEF Min

LEMMA ItemsFinite ==
    /\ IsFiniteSet(Items) /\ Cardinality(Items) = NumItems
    /\ \A S \in SUBSET Items :
          /\ IsFiniteSet(S) /\ Cardinality(S) \in 0..NumItems
          /\ \A T \in SUBSET S : Cardinality(T) <= Cardinality(S)
  <1>1. IsFiniteSet(Items) /\ Cardinality(Items) = NumItems
    BY FS_Interval, SyncAssumption DEF Items
  <1>2. ASSUME NEW S \in SUBSET Items
        PROVE  /\ IsFiniteSet(S) /\ Cardinality(S) \in 0..NumItems
               /\ \A T \in SUBSET S : Cardinality(T) <= Cardinality(S)
    <2>1. IsFiniteSet(S) /\ Cardinality(S) <= NumItems
      BY <1>1, FS_Subset
    <2>2. Cardinality(S) \in Nat
      BY <2>1, FS_CardinalityType
    <2> QED BY <2>1, <2>2, FS_Subset, SyncAssumption
  <1> QED BY <1>1, <1>2

\* A batch takes from what it is given, and something if there is anything.
LEMMA FirstTakes ==
    ASSUME NEW S \in SUBSET Items
    PROVE  /\ First(BatchSize, S) \subseteq S
           /\ S # {} => First(BatchSize, S) # {}
  <1>1. First(BatchSize, S) \subseteq S
    BY DEF First
  <1>2. ASSUME S # {} PROVE First(BatchSize, S) # {}
    <2>1. Min(S) \in S /\ \A c \in S : Min(S) <= c
      BY <1>2, MinIsFirst
    <2>2. S \subseteq Int
      BY SyncAssumption DEF Items
    <2>3. {j \in S : j < Min(S)} = {}
      <3>1. PICK m \in S : m = Min(S)
        BY <2>1
      <3>2. \A c \in S : m <= c /\ c \in Int /\ m \in Int
        BY <2>1, <2>2, <3>1
      <3>3. \A c \in S : ~(c < m)
        BY <3>2
      <3> QED BY <3>1, <3>3
    <2>4. Cardinality({j \in S : j < Min(S)}) = 0
      BY <2>3, FS_EmptySet
    <2>5. 0 < BatchSize
      BY SyncAssumption
    <2> QED BY <2>1, <2>4, <2>5 DEF First
  <1> QED BY <1>1, <1>2
-----------------------------------------------------------------------------
(* Typing.                                                                  *)

Rows == [phase : {"crawl", "delta"}, token : Tokens, from : BOOLEAN,
         held : 0..NumItems, confirmed : 0..NumItems,
         deferred : BOOLEAN, stopped : BOOLEAN,
         identity : {"none", "disk", "empty"}]

Cats == [rev : Revisions, live : BOOLEAN]

Types ==
    /\ src \in [Items -> Revisions]
    /\ log \in Seq(Items) /\ Len(log) <= MaxChanges
    /\ mounted \in BOOLEAN /\ connector \in Connectors
    /\ cat \in [Items -> Cats]
    /\ fresh \subseteq Items
    /\ skips \subseteq Items /\ skipsMet \subseteq skips
    /\ row \in Rows
    /\ lease \in Runners \cup {NoRunner}
    /\ run \in [Runners -> Runs]
    /\ faults \in 0..MaxFaults /\ acts \in 0..MaxActs
    /\ moves \in 0..MaxMoves

LEMMA Typed == (TypeOK <=> Types) /\ (TypeOK' <=> Types')
  BY DEF TypeOK, Types, Rows, Cats

LEMMA ConstantsTyped ==
    /\ NumItems \in Nat /\ MaxChanges \in Nat /\ MaxFaults \in Nat
    /\ MaxActs \in Nat /\ MaxMoves \in Nat /\ BatchSize \in Nat \ {0}
    /\ Items = 1..NumItems /\ Revisions = 0..MaxChanges + 1
    /\ NoToken \in Tokens /\ Idle \in Runs /\ NoRunner \notin Runners
    /\ 0 \in Revisions
  BY SyncAssumption DEF Items, Revisions, NoToken, Tokens, Idle, Runs, Pcs

LEMMA RowTypes ==
    ASSUME NEW w \in Rows
    PROVE  /\ CrawlAnew(w) \in Rows /\ Decided(w) \in Rows
           /\ CrawlAnew(w).phase = "crawl" /\ CrawlAnew(w).token = NoToken
           /\ CrawlAnew(w).from = TRUE
           /\ CrawlAnew(w).held = w.held
           /\ CrawlAnew(w).confirmed = w.confirmed
           /\ CrawlAnew(w).deferred = w.deferred
           /\ Decided(w).phase = w.phase /\ Decided(w).token = w.token
           /\ Decided(w).from = w.from /\ Decided(w).held = 0
           /\ Decided(w).confirmed = 0 /\ Decided(w).deferred = FALSE
  <1>1. NoToken \in Tokens /\ 0 \in 0..NumItems
    BY ConstantsTyped
  <1>2. CrawlAnew(w) \in Rows
    BY <1>1 DEF CrawlAnew, Rows
  <1>3. Decided(w) \in Rows
    BY <1>1 DEF Decided, Rows
  <1>4. /\ CrawlAnew(w).phase = "crawl" /\ CrawlAnew(w).token = NoToken
        /\ CrawlAnew(w).from = TRUE
        /\ CrawlAnew(w).held = w.held
        /\ CrawlAnew(w).confirmed = w.confirmed
        /\ CrawlAnew(w).deferred = w.deferred
    BY DEF CrawlAnew, Rows
  <1>5. /\ Decided(w).phase = w.phase /\ Decided(w).token = w.token
        /\ Decided(w).from = w.from /\ Decided(w).held = 0
        /\ Decided(w).confirmed = 0 /\ Decided(w).deferred = FALSE
    BY DEF Decided, Rows
  <1> QED BY <1>2, <1>3, <1>4, <1>5

\* What a listing shows of an item has an item's revision.
LEMMA ThereTyped ==
    ASSUME Types, NEW i \in Items, NEW d \in BOOLEAN
    PROVE  There(i, d) \in Revisions
  BY ConstantsTyped DEF Types, There

LEMMA LogTyped ==
    ASSUME Types
    PROVE  /\ Len(log) \in Nat
           /\ \A k \in 1..Len(log) : log[k] \in Items
  BY DEF Types

\* A run whose state is replaced by a well typed one.
LEMMA RunSet ==
    ASSUME Types, NEW r \in Runners, NEW w \in Runs, Set(r, w)
    PROVE  /\ run' \in [Runners -> Runs] /\ run'[r] = w
           /\ \A q \in Runners : q # r => run'[q] = run[q]
  BY DEF Types, Set
-----------------------------------------------------------------------------
(* What each step makes of its run and of the source's row.                 *)

Others(r) == \A q \in Runners : q # r => run'[q] = run[q]

\* The run as a step finds it, but for where it is.
Apart(s, w) ==
    /\ w.phase = s.phase /\ w.token = s.token /\ w.left = s.left
    /\ w.cleared = s.cleared /\ w.reconciling = s.reconciling
    /\ w.counted = s.counted /\ w.batch = s.batch /\ w.last = s.last
    /\ w.aborted = s.aborted /\ w.item = s.item /\ w.rev = s.rev
    /\ w.from = s.from

LEMMA GoDoes ==
    ASSUME Types, NEW r \in Runners, NEW pc \in Pcs, Go(r, pc)
    PROVE  /\ run' \in [Runners -> Runs] /\ Others(r)
           /\ run'[r].pc = pc /\ Apart(run[r], run'[r])
  <1>1. run \in [Runners -> Runs] /\ run[r] \in Runs
    BY DEF Types
  <1> DEFINE w == [run[r] EXCEPT !.pc = pc]
  <1>2. w \in Runs /\ w.pc = pc /\ Apart(run[r], w)
    BY <1>1 DEF Runs, Apart
  <1>3. run' = [run EXCEPT ![r] = w]
    BY <1>1 DEF Go
  <1> HIDE DEF w
  <1> QED BY <1>1, <1>2, <1>3 DEF Others

LEMMA EndDoes ==
    ASSUME Types, NEW r \in Runners, NEW st \in {"ok", "failed"}, End(r, st)
    PROVE  /\ run' \in [Runners -> Runs] /\ Others(r)
           /\ run'[r].pc = "record"
  <1>1. run \in [Runners -> Runs] /\ run[r] \in Runs
    BY DEF Types
  <1> DEFINE w == [run[r] EXCEPT !.pc = "record", !.status = st]
  <1>2. w \in Runs /\ w.pc = "record"
    BY <1>1 DEF Runs, Pcs
  <1>3. run' = [run EXCEPT ![r] = w]
    BY <1>1 DEF End, Set
  <1> HIDE DEF w
  <1> QED BY <1>1, <1>2, <1>3 DEF Others

LEMMA IdleDoes ==
    ASSUME Types, NEW r \in Runners, Set(r, Idle)
    PROVE  /\ run' \in [Runners -> Runs] /\ Others(r)
           /\ run'[r].pc = "idle"
  BY RunSet, ConstantsTyped DEF Others, Idle

LEMMA BeginDoes ==
    ASSUME Types, NEW r \in Runners, Begin(r)
    PROVE  /\ run' \in [Runners -> Runs] /\ Others(r)
           /\ run'[r].pc = "read"
           /\ run'[r].left = {} /\ run'[r].cleared = {}
  <1> DEFINE w == [Idle EXCEPT !.pc = "read"]
  <1>1. w \in Runs /\ w.pc = "read" /\ w.left = {} /\ w.cleared = {}
    <2>1. Idle \in Runs
      BY ConstantsTyped
    <2>2. w \in Runs /\ w.pc = "read"
      BY <2>1 DEF Runs, Pcs
    <2>3. w.left = {} /\ w.cleared = {}
      BY DEF Idle
    <2> QED BY <2>2, <2>3
  <1>2. Set(r, w)
    BY DEF Begin
  <1> HIDE DEF w
  <1> QED BY <1>1, <1>2, RunSet DEF Others

LEMMA ReadStateDoes ==
    ASSUME Types, NEW r \in Runners, ReadState(r)
    PROVE  /\ run' \in [Runners -> Runs] /\ Others(r)
           /\ run'[r].pc = "identity"
           /\ run'[r].phase = row.phase /\ run'[r].token = row.token
           /\ run'[r].from = row.from
           /\ run'[r].reconciling = (row.phase = "crawl" /\ row.from)
           /\ run'[r].left = run[r].left /\ run'[r].cleared = run[r].cleared
  <1>1. run[r] \in Runs /\ row \in Rows
    BY DEF Types
  <1> DEFINE rec == row.phase = "crawl" /\ row.from
             w   == [run[r] EXCEPT
                 !.pc = "identity", !.phase = row.phase, !.token = row.token,
                 !.from = row.from, !.identity = row.identity,
                 !.reconciling = rec]
  <1>2. Set(r, w)
    BY DEF ReadState
  <1>3. rec \in BOOLEAN
    OBVIOUS
  <1>4. row.phase \in {"crawl", "delta"} /\ row.token \in Tokens
        /\ row.from \in BOOLEAN /\ row.identity \in {"none", "disk", "empty"}
    BY <1>1 DEF Rows
  <1> HIDE DEF rec
  <1>5. /\ w \in Runs /\ w.pc = "identity" /\ w.phase = row.phase
        /\ w.token = row.token /\ w.from = row.from /\ w.reconciling = rec
        /\ w.left = run[r].left /\ w.cleared = run[r].cleared
    BY <1>1, <1>3, <1>4 DEF Runs, Pcs
  <1> HIDE DEF w
  <1> QED BY <1>2, <1>5, RunSet DEF Others, rec

LEMMA RestartDoes ==
    ASSUME Types, NEW r \in Runners, NEW again \in BOOLEAN, Restart(r, again)
    PROVE  /\ run' \in [Runners -> Runs] /\ Others(r)
           /\ run'[r].pc = "loop" /\ run'[r].phase = "crawl"
           /\ run'[r].token = NoToken /\ run'[r].reconciling = TRUE
           /\ run'[r].left = {} /\ run'[r].cleared = {}
           /\ row' \in Rows /\ fresh' = {} /\ skipsMet' = {}
           /\ UNCHANGED <<cat, skips>>
           /\ row'.phase = "crawl" /\ row'.token = NoToken /\ row'.from = TRUE
           /\ row'.held = row.held /\ row'.confirmed = row.confirmed
  <1>1. run[r] \in Runs /\ row \in Rows /\ NoToken \in Tokens
    BY ConstantsTyped DEF Types
  <1> DEFINE w == [run[r] EXCEPT
                 !.pc = "loop", !.phase = "crawl", !.token = NoToken,
                 !.reconciling = TRUE, !.resynced = again,
                 !.left = {}, !.cleared = {}]
  <1>2. Set(r, w)
    BY DEF Restart
  <1>3. /\ w \in Runs /\ w.pc = "loop" /\ w.phase = "crawl"
        /\ w.token = NoToken /\ w.reconciling = TRUE
        /\ w.left = {} /\ w.cleared = {}
    BY <1>1 DEF Runs, Pcs
  <1> HIDE DEF w
  <1>4. row' = CrawlAnew(row)
    BY DEF Restart
  <1>5. /\ row' \in Rows
        /\ row'.phase = "crawl" /\ row'.token = NoToken /\ row'.from = TRUE
        /\ row'.held = row.held /\ row'.confirmed = row.confirmed
    BY <1>1, <1>4, RowTypes
  <1>6. /\ run' \in [Runners -> Runs] /\ run'[r] = w
        /\ Others(r)
    BY <1>2, <1>3, RunSet DEF Others
  <1>7. fresh' = {} /\ skipsMet' = {} /\ UNCHANGED <<cat, skips>>
    BY DEF Restart
  <1> QED BY <1>3, <1>5, <1>6, <1>7

LEMMA StartStreamDoes ==
    ASSUME Types, NEW r \in Runners, StartStream(r)
    PROVE  LET s == run[r] w == run'[r] IN
           /\ run' \in [Runners -> Runs] /\ Others(r)
           /\ w.pc = "stream" /\ w.phase = s.phase
           /\ Resumes(r) => w.token = s.token
           /\ ~Resumes(r) => /\ w.token.at = 0 /\ w.token.pos = Len(log)
                             /\ w.token.disk = mounted
           /\ w.left = s.left /\ w.cleared = s.cleared
           /\ w.reconciling = s.reconciling /\ w.aborted = s.aborted
  <1>1. run[r] \in Runs /\ Len(log) \in 0..MaxChanges /\ mounted \in BOOLEAN
    BY LogTyped DEF Types
  <1> DEFINE new == [at |-> 0, pos |-> Len(log), disk |-> mounted]
             T   == IF Resumes(r) THEN run[r].token ELSE new
             w   == [run[r] EXCEPT !.pc = "stream", !.token = T]
  <1>2. Set(r, w)
    BY DEF StartStream
  <1>3. run[r].token \in Tokens
    BY <1>1 DEF Runs
  <1>4. /\ new \in Tokens
        /\ new.at = 0 /\ new.pos = Len(log) /\ new.disk = mounted
    BY <1>1, ConstantsTyped DEF Tokens
  <1> HIDE DEF new
  <1>5. T \in Tokens
    BY <1>3, <1>4
  <1> HIDE DEF T
  <1>6. /\ w \in Runs /\ w.pc = "stream" /\ w.phase = run[r].phase
        /\ w.token = T /\ w.left = run[r].left /\ w.cleared = run[r].cleared
        /\ w.reconciling = run[r].reconciling /\ w.aborted = run[r].aborted
    BY <1>1, <1>5 DEF Runs, Pcs
  <1> HIDE DEF w
  <1> QED BY <1>2, <1>4, <1>6, RunSet DEF Others, T

LEMMA ListItemDoes ==
    ASSUME Types, NEW r \in Runners, ListItem(r)
    PROVE  LET s == run[r] w == run'[r] IN
           /\ run' \in [Runners -> Runs] /\ Others(r)
           /\ w.pc = "apply" /\ w.phase = s.phase
           /\ w.item \in Items /\ w.token.at = w.item
           /\ w.token.pos = s.token.pos /\ w.token.disk = s.token.disk
           /\ w.item \in ToList(r) /\ \A c \in ToList(r) : w.item <= c
           /\ w.rev = There(w.item, mounted)
           /\ w.left = s.left /\ w.cleared = s.cleared
           /\ w.reconciling = s.reconciling /\ w.aborted = s.aborted
  <1> DEFINE i == Min(ToList(r))
             v == There(i, mounted)
             w == [run[r] EXCEPT !.pc = "apply", !.token.at = i,
                                 !.item = i, !.rev = v]
  <1>1. /\ ToList(r) \subseteq Items /\ ToList(r) # {}
    BY DEF ListItem, ToList
  <1>2. /\ i \in ToList(r) /\ i \in Items
        /\ \A c \in ToList(r) : i <= c
    BY <1>1, MinIsFirst
  <1>3. Set(r, w)
    BY DEF ListItem
  <1>4. v \in Revisions
    BY <1>2, ThereTyped DEF Types
  <1>5. run[r] \in Runs /\ run[r].token \in Tokens
    BY DEF Types, Runs
  <1>6. i \in 0..NumItems
    BY <1>2, ConstantsTyped
  <1> HIDE DEF i, v
  <1> DEFINE T == [run[r].token EXCEPT !.at = i]
  <1>7. /\ T \in Tokens /\ T.at = i /\ T.pos = run[r].token.pos
        /\ T.disk = run[r].token.disk
    BY <1>5, <1>6 DEF Tokens
  <1>8. w = [run[r] EXCEPT !.pc = "apply", !.token = T, !.item = i, !.rev = v]
    BY <1>5 DEF Runs
  <1> HIDE DEF T
  <1>9. /\ w \in Runs /\ w.pc = "apply" /\ w.phase = run[r].phase
        /\ w.token = T /\ w.item = i /\ w.rev = v /\ w.left = run[r].left
        /\ w.cleared = run[r].cleared /\ w.reconciling = run[r].reconciling
        /\ w.aborted = run[r].aborted
    <2>1. w \in Runs
      BY <1>4, <1>5, <1>6, <1>7, <1>8 DEF Runs, Pcs
    <2>2. /\ w.pc = "apply" /\ w.phase = run[r].phase
          /\ w.token = T /\ w.item = i /\ w.rev = v
      BY <1>5, <1>8 DEF Runs
    <2>3. /\ w.left = run[r].left /\ w.cleared = run[r].cleared
          /\ w.reconciling = run[r].reconciling
          /\ w.aborted = run[r].aborted
      BY <1>5, <1>8 DEF Runs
    <2> QED BY <2>1, <2>2, <2>3
  <1> HIDE DEF w
  <1>10. run' \in [Runners -> Runs] /\ run'[r] = w /\ Others(r)
    BY <1>3, <1>9, RunSet DEF Others
  <1> QED BY <1>2, <1>7, <1>9, <1>10 DEF v

LEMMA DeltaEventDoes ==
    ASSUME Types, NEW r \in Runners, DeltaEvent(r)
    PROVE  LET s == run[r] w == run'[r] IN
           /\ run' \in [Runners -> Runs] /\ Others(r)
           /\ w.pc = "apply" /\ w.phase = s.phase
           /\ w.token.at = s.token.at /\ w.token.disk = s.token.disk
           /\ w.token.pos = s.token.pos + 1 /\ w.token.pos <= Len(log)
           /\ w.item \in Items /\ w.item = log[w.token.pos]
           /\ w.rev = There(w.item, mounted)
           /\ w.left = s.left /\ w.cleared = s.cleared
           /\ w.reconciling = s.reconciling /\ w.aborted = s.aborted
  <1> DEFINE k == run[r].token.pos + 1
             i == log[k]
             v == There(i, mounted)
             w == [run[r] EXCEPT !.pc = "apply", !.token.pos = k,
                                 !.item = i, !.rev = v]
  <1>1. run[r] \in Runs /\ run[r].token \in Tokens
    BY DEF Types, Runs
  <1>2. run[r].token.pos \in 0..MaxChanges /\ Len(log) \in Nat
        /\ Len(log) <= MaxChanges
    BY <1>1, LogTyped DEF Tokens, Types
  <1>12. run[r].token.pos < Len(log)
    BY DEF DeltaEvent
  <1>3. k \in 1..Len(log) /\ k \in 0..MaxChanges
        /\ k = run[r].token.pos + 1
    <2>1. \A p, n, m \in Nat : p < n /\ n <= m
            => p + 1 \in 1..n /\ p + 1 \in 0..m
      OBVIOUS
    <2>2. run[r].token.pos \in Nat /\ MaxChanges \in Nat
      BY <1>2, ConstantsTyped
    <2> QED BY <1>2, <1>12, <2>1, <2>2
  <1>4. i \in Items /\ i \in 0..NumItems
    BY <1>3, LogTyped, ConstantsTyped
  <1>5. v \in Revisions
    BY <1>4, ThereTyped DEF Types
  <1>6. Set(r, w)
    BY DEF DeltaEvent
  <1>7. i = log[k] /\ v = There(i, mounted)
    OBVIOUS
  <1> HIDE DEF k, i, v
  <1> DEFINE T == [run[r].token EXCEPT !.pos = k]
  <1>8. /\ T \in Tokens /\ T.pos = k /\ T.at = run[r].token.at
        /\ T.disk = run[r].token.disk
    BY <1>1, <1>3 DEF Tokens
  <1>9. w = [run[r] EXCEPT !.pc = "apply", !.token = T, !.item = i, !.rev = v]
    BY <1>1 DEF Runs
  <1> HIDE DEF T
  <1>10. /\ w \in Runs /\ w.pc = "apply" /\ w.phase = run[r].phase
         /\ w.token = T /\ w.item = i /\ w.rev = v /\ w.left = run[r].left
         /\ w.cleared = run[r].cleared /\ w.reconciling = run[r].reconciling
         /\ w.aborted = run[r].aborted
    BY <1>1, <1>4, <1>5, <1>8, <1>9 DEF Runs, Pcs
  <1> HIDE DEF w
  <1>11. run' \in [Runners -> Runs] /\ run'[r] = w /\ Others(r)
    BY <1>6, <1>10, RunSet DEF Others
  <1> QED BY <1>2, <1>3, <1>4, <1>7, <1>8, <1>10, <1>11

LEMMA UnreadableDoes ==
    ASSUME Types, NEW r \in Runners, Unreadable(r)
    PROVE  LET s == run[r] w == run'[r] IN
           /\ run' \in [Runners -> Runs] /\ Others(r)
           /\ w.pc = s.pc /\ w.phase = s.phase
           /\ w.token.at \in Items /\ s.token.at < w.token.at
           /\ w.token.pos = s.token.pos /\ w.token.disk = s.token.disk
           /\ w.left = s.left /\ w.cleared = s.cleared
           /\ w.reconciling = FALSE /\ w.aborted = s.aborted
           /\ s.reconciling => /\ row'.from = FALSE /\ row'.deferred = TRUE
           /\ ~s.reconciling => row' = row
           /\ row' \in Rows
           /\ row'.phase = row.phase /\ row'.token = row.token
           /\ row'.held = row.held /\ row'.confirmed = row.confirmed
  <1>1. /\ run[r] \in Runs /\ run[r].token \in Tokens /\ row \in Rows
        /\ run[r].reconciling \in BOOLEAN
    BY DEF Types, Runs
  <1>2. PICK i \in Items :
          /\ i > run[r].token.at
          /\ Set(r, [run[r] EXCEPT !.token.at = i, !.reconciling = FALSE])
    BY DEF Unreadable
  <1>3. i \in 0..NumItems /\ run[r].token.at \in 0..NumItems
    BY <1>1, ConstantsTyped DEF Tokens
  <1> DEFINE w == [run[r] EXCEPT !.token.at = i, !.reconciling = FALSE]
             T == [run[r].token EXCEPT !.at = i]
  <1>4. /\ T \in Tokens /\ T.at = i /\ T.pos = run[r].token.pos
        /\ T.disk = run[r].token.disk
    BY <1>1, <1>3 DEF Tokens
  <1>5. w = [run[r] EXCEPT !.token = T, !.reconciling = FALSE]
    BY <1>1 DEF Runs
  <1> HIDE DEF T
  <1>6. /\ w \in Runs /\ w.pc = run[r].pc /\ w.phase = run[r].phase
        /\ w.token = T /\ w.left = run[r].left
        /\ w.cleared = run[r].cleared /\ w.reconciling = FALSE
        /\ w.aborted = run[r].aborted
    BY <1>1, <1>4, <1>5 DEF Runs
  <1>7. Set(r, w)
    BY <1>2
  <1> HIDE DEF w
  <1>8. run' \in [Runners -> Runs] /\ run'[r] = w /\ Others(r)
    BY <1>6, <1>7, RunSet DEF Others
  <1>9. run[r].token.at < i
    BY <1>2, <1>3, ConstantsTyped
  <1>10. /\ w.token.at \in Items /\ run[r].token.at < w.token.at
         /\ w.token.pos = run[r].token.pos /\ w.token.disk = run[r].token.disk
    BY <1>2, <1>4, <1>6, <1>9
  <1>11. row' = IF run[r].reconciling
                  THEN [row EXCEPT !.from = FALSE, !.deferred = TRUE]
                  ELSE row
    BY DEF Unreadable
  <1>12. CASE run[r].reconciling
    <2>1. row' = [row EXCEPT !.from = FALSE, !.deferred = TRUE]
      BY <1>11, <1>12
    <2>2. /\ row' \in Rows /\ row'.from = FALSE /\ row'.deferred = TRUE
          /\ row'.phase = row.phase /\ row'.token = row.token
          /\ row'.held = row.held /\ row'.confirmed = row.confirmed
      BY <1>1, <2>1 DEF Rows
    <2> QED BY <1>6, <1>8, <1>10, <1>12, <2>2
  <1>13. CASE ~run[r].reconciling
    <2>1. row' = row
      BY <1>11, <1>13
    <2> QED BY <1>1, <1>6, <1>8, <1>10, <1>13, <2>1
  <1> QED BY <1>12, <1>13

\* The end of an event: its item is cleared, or left out.
Settling(s, w) ==
    /\ w.pc = "stream" /\ w.phase = s.phase /\ w.token = s.token
    /\ w.reconciling = s.reconciling /\ w.aborted = s.aborted

LEMMA ClearedDoes ==
    ASSUME Types, NEW r \in Runners, NEW i \in Items, Cleared(r, i)
    PROVE  /\ run' \in [Runners -> Runs] /\ Others(r)
           /\ Settling(run[r], run'[r])
           /\ run'[r].left = run[r].left \ {i}
           /\ run'[r].cleared = run[r].cleared \cup {i}
  <1>1. run[r] \in Runs
    BY DEF Types
  <1> DEFINE L == run[r].left \ {i}
             C == run[r].cleared \cup {i}
             w == [run[r] EXCEPT !.pc = "stream", !.left = L, !.cleared = C]
  <1>2. Set(r, w)
    BY DEF Cleared
  <1>3. L \in SUBSET Items /\ C \in SUBSET Items
    BY <1>1 DEF Runs
  <1> HIDE DEF L, C
  <1>4. /\ w \in Runs /\ Settling(run[r], w) /\ w.left = L /\ w.cleared = C
    BY <1>1, <1>3 DEF Runs, Pcs, Settling
  <1> HIDE DEF w
  <1>5. run' \in [Runners -> Runs] /\ run'[r] = w /\ Others(r)
    BY <1>2, <1>4, RunSet DEF Others
  <1> QED BY <1>4, <1>5 DEF L, C

LEMMA LeftOutDoes ==
    ASSUME Types, NEW r \in Runners, NEW i \in Items, LeftOut(r, i)
    PROVE  /\ run' \in [Runners -> Runs] /\ Others(r)
           /\ Settling(run[r], run'[r])
           /\ run'[r].left = run[r].left \cup {i}
           /\ run'[r].cleared = run[r].cleared \ {i}
  <1>1. run[r] \in Runs
    BY DEF Types
  <1> DEFINE L == run[r].left \cup {i}
             C == run[r].cleared \ {i}
             w == [run[r] EXCEPT !.pc = "stream", !.left = L, !.cleared = C]
  <1>2. Set(r, w)
    BY DEF LeftOut
  <1>3. L \in SUBSET Items /\ C \in SUBSET Items
    BY <1>1 DEF Runs
  <1> HIDE DEF L, C
  <1>4. /\ w \in Runs /\ Settling(run[r], w) /\ w.left = L /\ w.cleared = C
    BY <1>1, <1>3 DEF Runs, Pcs, Settling
  <1> HIDE DEF w
  <1>5. run' \in [Runners -> Runs] /\ run'[r] = w /\ Others(r)
    BY <1>2, <1>4, RunSet DEF Others
  <1> QED BY <1>4, <1>5 DEF L, C

LEMMA SaveDoes ==
    ASSUME Types, NEW r \in Runners, NEW phase \in {"crawl", "delta"},
           NEW token \in Tokens, Save(r, phase, token)
    PROVE  /\ row' \in Rows /\ row'.phase = phase /\ row'.token = token
           /\ row'.from = row.from /\ row'.deferred = row.deferred
           /\ row'.held = row.held /\ row'.confirmed = row.confirmed
           /\ skips' = (skips \ run[r].cleared) \cup run[r].left
           /\ skipsMet' = (skipsMet \ run[r].cleared) \cup run[r].left
  <1>1. row \in Rows /\ row' = [row EXCEPT !.phase = phase, !.token = token]
    BY DEF Types, Save
  <1>2. /\ row' \in Rows /\ row'.phase = phase /\ row'.token = token
        /\ row'.from = row.from /\ row'.deferred = row.deferred
        /\ row'.held = row.held /\ row'.confirmed = row.confirmed
    BY <1>1 DEF Rows
  <1> QED BY <1>2 DEF Save

LEMMA CheckpointDoes ==
    ASSUME Types, NEW r \in Runners, Checkpoint(r)
    PROVE  LET s == run[r] w == run'[r] IN
           /\ run' \in [Runners -> Runs] /\ Others(r)
           /\ w.pc \in {"stream", "record"} /\ w.phase = s.phase
           /\ w.token = s.token /\ w.left = {} /\ w.cleared = {}
           /\ w.reconciling = s.reconciling /\ w.aborted = s.aborted
           /\ s.token \in Tokens /\ s.phase \in {"crawl", "delta"}
           /\ Save(r, s.phase, s.token)
  <1>1. /\ run[r] \in Runs /\ run[r].pc = "stream"
        /\ run[r].token \in Tokens /\ run[r].phase \in {"crawl", "delta"}
    BY DEF Types, Checkpoint, Listening, At, Runs
  <1> DEFINE w == [run[r] EXCEPT !.left = {}, !.cleared = {}]
             v == [w EXCEPT !.pc = "record"]
  <1>2. Set(r, w) \/ Set(r, v)
    BY DEF Checkpoint, Saved
  <1>3. /\ w \in Runs /\ w.pc = "stream" /\ w.phase = run[r].phase
        /\ w.token = run[r].token /\ w.left = {} /\ w.cleared = {}
        /\ w.reconciling = run[r].reconciling /\ w.aborted = run[r].aborted
    BY <1>1 DEF Runs
  <1> HIDE DEF w
  <1>4. /\ v \in Runs /\ v.pc = "record" /\ v.phase = w.phase
        /\ v.token = w.token /\ v.left = w.left /\ v.cleared = w.cleared
        /\ v.reconciling = w.reconciling /\ v.aborted = w.aborted
    BY <1>3 DEF Runs, Pcs
  <1> HIDE DEF v
  <1>5. run' \in [Runners -> Runs] /\ run'[r] \in {v, w} /\ Others(r)
    BY <1>2, <1>3, <1>4, RunSet DEF Others
  <1>6. Save(r, run[r].phase, run[r].token)
    BY DEF Checkpoint
  <1> QED BY <1>1, <1>3, <1>4, <1>5, <1>6

LEMMA DoneDoes ==
    ASSUME Types, NEW r \in Runners, Done(r)
    PROVE  LET s == run[r] w == run'[r]
               T == [s.token EXCEPT !.at = 0] IN
           /\ run' \in [Runners -> Runs] /\ Others(r)
           /\ w.pc = IF s.reconciling THEN "count" ELSE "record"
           /\ w.last = TRUE
           /\ T \in Tokens /\ T.at = 0 /\ T.pos = s.token.pos
           /\ T.disk = s.token.disk
           /\ Save(r, "delta", T)
  <1>1. /\ run[r] \in Runs /\ run[r].token \in Tokens
        /\ run[r].reconciling \in BOOLEAN /\ NumItems \in Nat
    BY ConstantsTyped DEF Types, Runs
  <1> DEFINE pc == IF run[r].reconciling THEN "count" ELSE "record"
             v  == [run[r] EXCEPT !.left = {}, !.cleared = {}]
             w  == [v EXCEPT !.pc = pc, !.last = TRUE]
  <1>2. Set(r, w)
    BY DEF Done, Saved
  <1>3. pc \in Pcs
    BY DEF Pcs
  <1>4. v \in Runs
    BY <1>1 DEF Runs
  <1> HIDE DEF v
  <1>5. w \in Runs /\ w.pc = pc /\ w.last = TRUE
    BY <1>3, <1>4 DEF Runs
  <1> HIDE DEF w
  <1>6. run' \in [Runners -> Runs] /\ run'[r] = w /\ Others(r)
    BY <1>2, <1>5, RunSet DEF Others
  <1> DEFINE T == [run[r].token EXCEPT !.at = 0]
  <1>7. /\ T \in Tokens /\ T.at = 0 /\ T.pos = run[r].token.pos
        /\ T.disk = run[r].token.disk
    BY <1>1 DEF Tokens
  <1>8. Save(r, "delta", T)
    BY DEF Done
  <1> QED BY <1>5, <1>6, <1>7, <1>8

LEMMA CountDoes ==
    ASSUME Types, NEW r \in Runners, Count(r)
    PROVE  LET s == run[r] w == run'[r] IN
           /\ run' \in [Runners -> Runs] /\ Others(r)
           /\ w.pc = IF Held(Cardinality(Stale)) THEN "hold" ELSE "stale"
           /\ w.counted = Stale /\ w.last = s.last
           /\ w.phase = s.phase /\ w.token = s.token
           /\ w.left = s.left /\ w.cleared = s.cleared
  <1>1. run[r] \in Runs
    BY DEF Types
  <1> DEFINE pc == IF Held(Cardinality(Stale)) THEN "hold" ELSE "stale"
             w  == [run[r] EXCEPT !.counted = Stale, !.pc = pc]
  <1>2. Set(r, w)
    BY DEF Count
  <1>3. pc \in Pcs
    BY DEF Pcs
  <1>4. Stale \in SUBSET Items
    BY DEF Stale, Live
  <1>7. pc = IF Held(Cardinality(Stale)) THEN "hold" ELSE "stale"
    OBVIOUS
  <1> HIDE DEF pc
  <1>5. /\ w \in Runs /\ w.pc = pc /\ w.counted = Stale
        /\ w.last = run[r].last /\ w.phase = run[r].phase
        /\ w.token = run[r].token /\ w.left = run[r].left
        /\ w.cleared = run[r].cleared
    BY <1>1, <1>3, <1>4 DEF Runs
  <1> HIDE DEF w
  <1>6. run' \in [Runners -> Runs] /\ run'[r] = w /\ Others(r)
    BY <1>2, <1>5, RunSet DEF Others
  <1> QED BY <1>5, <1>6, <1>7

LEMMA HoldDoes ==
    ASSUME Types, NEW r \in Runners, Hold(r)
    PROVE  /\ run' \in [Runners -> Runs] /\ Others(r)
           /\ run'[r].pc = "record"
           /\ row' \in Rows /\ row'.held = Cardinality(run[r].counted)
           /\ row'.phase = row.phase /\ row'.token = row.token
           /\ row'.from = row.from /\ row'.deferred = row.deferred
           /\ row'.confirmed = row.confirmed
  <1>1. row \in Rows /\ run[r] \in Runs
    BY DEF Types
  <1>2. run[r].counted \in SUBSET Items
    BY <1>1 DEF Runs
  <1> DEFINE n == Cardinality(run[r].counted)
  <1>3. n \in 0..NumItems
    BY <1>2, ItemsFinite
  <1>4. row' = [row EXCEPT !.held = n]
    BY DEF Hold
  <1> HIDE DEF n
  <1>5. /\ row' \in Rows /\ row'.held = n
        /\ row'.phase = row.phase /\ row'.token = row.token
        /\ row'.from = row.from /\ row'.deferred = row.deferred
        /\ row'.confirmed = row.confirmed
    BY <1>1, <1>3, <1>4 DEF Rows
  <1>6. End(r, "failed")
    BY DEF Hold
  <1>7. run' \in [Runners -> Runs] /\ Others(r) /\ run'[r].pc = "record"
    BY <1>6, EndDoes
  <1> QED BY <1>5, <1>7 DEF n

LEMMA ReadStaleDoes ==
    ASSUME Types, NEW r \in Runners, ReadStale(r)
    PROVE  LET s == run[r] w == run'[r] IN
           /\ run' \in [Runners -> Runs] /\ Others(r)
           /\ w.pc = IF Stale = {} THEN "finish" ELSE "remove"
           /\ w.batch \subseteq Stale
           /\ Stale # {} => w.batch # {}
           /\ w.counted = s.counted /\ w.last = s.last
           /\ w.phase = s.phase /\ w.token = s.token
           /\ w.left = s.left /\ w.cleared = s.cleared
  <1>1. run[r] \in Runs
    BY DEF Types
  <1> DEFINE pc == IF Stale = {} THEN "finish" ELSE "remove"
             b  == First(BatchSize, Stale)
             w  == [run[r] EXCEPT !.batch = b, !.pc = pc]
  <1>2. Set(r, w)
    BY DEF ReadStale
  <1>3. pc \in Pcs /\ pc = IF Stale = {} THEN "finish" ELSE "remove"
    BY DEF Pcs
  <1>4. Stale \in SUBSET Items
    BY DEF Stale, Live
  <1>5. /\ b \subseteq Stale
        /\ Stale # {} => b # {}
    BY <1>4, FirstTakes
  <1> HIDE DEF pc, b
  <1>6. /\ w \in Runs /\ w.pc = pc /\ w.batch = b
        /\ w.counted = run[r].counted
        /\ w.last = run[r].last /\ w.phase = run[r].phase
        /\ w.token = run[r].token /\ w.left = run[r].left
        /\ w.cleared = run[r].cleared
    BY <1>1, <1>3, <1>4, <1>5 DEF Runs
  <1> HIDE DEF w
  <1>7. run' \in [Runners -> Runs] /\ run'[r] = w /\ Others(r)
    BY <1>2, <1>6, RunSet DEF Others
  <1> QED BY <1>3, <1>5, <1>6, <1>7

LEMMA RemoveStaleDoes ==
    ASSUME Types, NEW r \in Runners, RemoveStale(r)
    PROVE  LET s == run[r] w == run'[r] i == Min(s.batch) IN
           /\ run' \in [Runners -> Runs] /\ Others(r)
           /\ w.pc = IF s.batch = {i} THEN "stale" ELSE "remove"
           /\ w.batch = s.batch \ {i}
           /\ w.counted = s.counted /\ w.last = s.last
           /\ w.phase = s.phase /\ w.token = s.token
           /\ w.left = s.left /\ w.cleared = s.cleared
           /\ cat' = [cat EXCEPT ![i].live = FALSE]
           /\ s.batch # {} => i \in s.batch
  <1>1. run[r] \in Runs /\ run[r].pc = "remove"
    BY DEF Types, RemoveStale, At
  <1>2. run[r].batch \in SUBSET Items
    BY <1>1 DEF Runs
  <1> DEFINE i  == Min(run[r].batch)
             pc == IF run[r].batch = {i} THEN "stale" ELSE "remove"
             b  == run[r].batch \ {i}
             w  == [run[r] EXCEPT !.batch = b, !.pc = pc]
  <1>3. run[r].batch # {} => i \in run[r].batch
    BY <1>2, MinIsFirst
  <1>4. cat' = [cat EXCEPT ![i].live = FALSE]
    BY DEF RemoveStale, removeFromSource
  <1>5. Set(r, [run[r] EXCEPT
                        !.batch = @ \ {i},
                        !.pc = IF run[r].batch = {i} THEN "stale" ELSE @])
    BY DEF RemoveStale
  <1> HIDE DEF i
  <1>6. Set(r, w)
    BY <1>1, <1>5 DEF Runs
  <1>7. b \in SUBSET Items /\ b = run[r].batch \ {i}
    BY <1>2
  <1>8. pc \in Pcs /\ pc = IF run[r].batch = {i} THEN "stale" ELSE "remove"
    BY DEF Pcs
  <1> HIDE DEF pc, b
  <1>9. /\ w \in Runs /\ w.pc = pc /\ w.batch = b
        /\ w.counted = run[r].counted
        /\ w.last = run[r].last /\ w.phase = run[r].phase
        /\ w.token = run[r].token /\ w.left = run[r].left
        /\ w.cleared = run[r].cleared
    BY <1>1, <1>7, <1>8 DEF Runs
  <1> HIDE DEF w
  <1>10. run' \in [Runners -> Runs] /\ run'[r] = w /\ Others(r)
    BY <1>6, <1>9, RunSet DEF Others
  <1> QED BY <1>3, <1>4, <1>7, <1>8, <1>9, <1>10 DEF i

LEMMA FinishDoes ==
    ASSUME Types, NEW r \in Runners, Finish(r)
    PROVE  LET s == run[r] w == run'[r] IN
           /\ run' \in [Runners -> Runs] /\ Others(r)
           /\ w.pc = IF s.last THEN "record" ELSE "loop"
           /\ w.reconciling = FALSE
           /\ w.phase = s.phase /\ w.token = s.token
           /\ w.left = s.left /\ w.cleared = s.cleared
           /\ row' \in Rows /\ row'.from = FALSE /\ row'.held = 0
           /\ row'.confirmed = 0 /\ row'.deferred = FALSE
           /\ row'.phase = row.phase /\ row'.token = row.token
  <1>1. run[r] \in Runs /\ row \in Rows /\ 0 \in 0..NumItems
    BY ConstantsTyped DEF Types
  <1> DEFINE pc == IF run[r].last THEN "record" ELSE "loop"
             w  == [run[r] EXCEPT !.reconciling = FALSE, !.pc = pc]
  <1>2. Set(r, w)
    BY DEF Finish
  <1>3. pc \in Pcs /\ pc = IF run[r].last THEN "record" ELSE "loop"
    BY DEF Pcs
  <1> HIDE DEF pc
  <1>4. /\ w \in Runs /\ w.pc = pc /\ w.reconciling = FALSE
        /\ w.phase = run[r].phase /\ w.token = run[r].token
        /\ w.left = run[r].left /\ w.cleared = run[r].cleared
    BY <1>1, <1>3 DEF Runs
  <1> HIDE DEF w
  <1>5. run' \in [Runners -> Runs] /\ run'[r] = w /\ Others(r)
    BY <1>2, <1>4, RunSet DEF Others
  <1>6. row' = [row EXCEPT !.from = FALSE, !.held = 0, !.confirmed = 0,
                           !.deferred = FALSE]
    BY DEF Finish
  <1>7. /\ row' \in Rows /\ row'.from = FALSE /\ row'.held = 0
        /\ row'.confirmed = 0 /\ row'.deferred = FALSE
        /\ row'.phase = row.phase /\ row'.token = row.token
    BY <1>1, <1>6 DEF Rows
  <1> QED BY <1>3, <1>4, <1>5, <1>7

\* What the cover and the guard look at, of the source's row.
SameRow ==
    /\ row'.phase = row.phase /\ row'.token = row.token
    /\ row'.from = row.from /\ row'.deferred = row.deferred
    /\ row'.held = row.held /\ row'.confirmed = row.confirmed

LEMMA CheckIdentityDoes ==
    ASSUME Types, NEW r \in Runners, CheckIdentity(r)
    PROVE  /\ run' \in [Runners -> Runs] /\ Others(r)
           /\ row' \in Rows /\ SameRow
           /\ \/ run'[r].pc = "record"
              \/ /\ run'[r].pc = Settled(r) /\ Apart(run[r], run'[r])
  <1>1. run[r] \in Runs /\ row \in Rows
        /\ Identity(mounted) \in {"none", "disk", "empty"}
    BY DEF Types, Identity
  <1>2. row' \in Rows /\ SameRow
    <2>1. \/ row' = row
          \/ row' = [row EXCEPT !.identity = Identity(mounted)]
      BY DEF CheckIdentity
    <2>2. CASE row' = row
      BY <1>1, <2>2 DEF SameRow
    <2>3. CASE row' = [row EXCEPT !.identity = Identity(mounted)]
      BY <1>1, <2>3 DEF SameRow, Rows
    <2> QED BY <2>1, <2>2, <2>3
  <1>3. End(r, "failed") \/ Go(r, Settled(r))
    BY DEF CheckIdentity
  <1>4. Settled(r) \in Pcs
    BY DEF Settled, Pcs
  <1> QED BY <1>2, <1>3, <1>4, EndDoes, GoDoes

LEMMA RecordDoes ==
    ASSUME Types, NEW r \in Runners, Record(r)
    PROVE  /\ run' \in [Runners -> Runs] /\ Others(r)
           /\ run'[r].pc = "idle" /\ row' \in Rows /\ SameRow
  <1>1. run' \in [Runners -> Runs] /\ Others(r) /\ run'[r].pc = "idle"
    BY IdleDoes DEF Record
  <1> DEFINE b == row.stopped \/ run[r].status = "failed"
  <1>2. row' = [row EXCEPT !.stopped = b] /\ row \in Rows
    BY DEF Record, Types
  <1>3. b \in BOOLEAN
    OBVIOUS
  <1> HIDE DEF b
  <1>4. row' \in Rows /\ SameRow
    BY <1>2, <1>3 DEF Rows, SameRow
  <1> QED BY <1>1, <1>4

LEMMA ExpireDoes ==
    ASSUME Types, NEW r \in Runners, Expire(r)
    PROVE  /\ run' \in [Runners -> Runs] /\ Others(r)
           /\ LET s == run[r] w == run'[r] IN
              /\ w.pc = s.pc /\ w.phase = s.phase /\ w.token = s.token
              /\ w.from = s.from /\ w.left = s.left /\ w.cleared = s.cleared
              /\ w.reconciling = s.reconciling /\ w.counted = s.counted
              /\ w.batch = s.batch /\ w.last = s.last
              /\ w.item = s.item /\ w.rev = s.rev
  <1>1. run \in [Runners -> Runs] /\ run[r] \in Runs
    BY DEF Types
  <1> DEFINE w == [run[r] EXCEPT !.aborted = TRUE]
  <1>2. LET s == run[r] IN
        /\ w \in Runs /\ w.pc = s.pc /\ w.phase = s.phase
        /\ w.token = s.token /\ w.from = s.from /\ w.left = s.left
        /\ w.cleared = s.cleared /\ w.reconciling = s.reconciling
        /\ w.counted = s.counted /\ w.batch = s.batch /\ w.last = s.last
        /\ w.item = s.item /\ w.rev = s.rev
    BY <1>1 DEF Runs
  <1>3. run' = [run EXCEPT ![r] = w]
    BY <1>1 DEF Expire
  <1> HIDE DEF w
  <1> QED BY <1>1, <1>2, <1>3 DEF Others
-----------------------------------------------------------------------------
(* Type correctness: an event that is being applied is of an item.          *)

Eventful(s) == s.pc = "apply" => s.item \in Items

Typing == Types /\ \A r \in Runners : Eventful(run[r])

\* What a run's step changes besides the runs, all of it well typed.
RestTyped ==
    /\ src' \in [Items -> Revisions]
    /\ log' \in Seq(Items) /\ Len(log') <= MaxChanges
    /\ mounted' \in BOOLEAN /\ connector' \in Connectors
    /\ cat' \in [Items -> Cats]
    /\ fresh' \subseteq Items
    /\ skips' \subseteq Items /\ skipsMet' \subseteq skips'
    /\ row' \in Rows
    /\ lease' \in Runners \cup {NoRunner}
    /\ faults' \in 0..MaxFaults /\ acts' \in 0..MaxActs
    /\ moves' \in 0..MaxMoves

LEMMA TypingKept ==
    ASSUME Typing, NEW r \in Runners, RestTyped,
           run' \in [Runners -> Runs], Others(r), Eventful(run'[r])
    PROVE  Typing'
  BY DEF Typing, Types, RestTyped, Others, Eventful

LEMMA FaultTyped ==
    ASSUME Types, Fault
    PROVE  faults' \in 0..MaxFaults
  BY ConstantsTyped DEF Types, Fault

\* An item's entry in the catalog is replaced by a well typed one.
LEMMA CatTyped ==
    ASSUME Types
    PROVE  /\ \A i \in Items, v \in Revisions :
                [cat EXCEPT ![i] = [rev |-> v, live |-> TRUE]]
                   \in [Items -> Cats]
           /\ \A i : [cat EXCEPT ![i].live = FALSE] \in [Items -> Cats]
  <1>1. ASSUME NEW i \in Items, NEW v \in Revisions
        PROVE  [cat EXCEPT ![i] = [rev |-> v, live |-> TRUE]]
                   \in [Items -> Cats]
    BY DEF Types, Cats
  <1>2. ASSUME NEW i
        PROVE  [cat EXCEPT ![i].live = FALSE] \in [Items -> Cats]
    <2> DEFINE c == [cat[i] EXCEPT !.live = FALSE]
               f == [cat EXCEPT ![i].live = FALSE]
    <2>1. cat \in [Items -> Cats] /\ \A j \in Items : cat[j] \in Cats
      BY DEF Types
    <2>2. CASE i \in Items
      <3>1. c \in Cats
        BY <2>1, <2>2 DEF Cats
      <3>2. f = [cat EXCEPT ![i] = c]
        BY <2>1
      <3> HIDE DEF c
      <3> QED BY <2>1, <2>2, <3>1, <3>2
    <2>3. CASE i \notin Items
      <3>1. f = cat
        BY <2>1, <2>3
      <3> QED BY <2>1, <3>1
    <2> QED BY <2>2, <2>3
  <1> QED BY <1>1, <1>2

LEMMA InitTyping == Init => Typing
  <1> SUFFICES ASSUME Init PROVE Typing
    OBVIOUS
  <1>1. src \in [Items -> Revisions]
    BY ConstantsTyped DEF Init
  <1>6. {[rev |-> 0, live |-> FALSE], [rev |-> 1, live |-> TRUE]}
           \subseteq Cats
    BY ConstantsTyped DEF Cats
  <1>7. cat \in [Items -> {[rev |-> 0, live |-> FALSE],
                          [rev |-> 1, live |-> TRUE]}]
    BY DEF Init
  <1>2. cat \in [Items -> Cats]
    BY <1>6, <1>7, Zenon
  <1>3. row \in Rows
    BY ConstantsTyped DEF Init, Rows
  <1>4. run \in [Runners -> Runs] /\ \A r \in Runners : run[r].pc = "idle"
    BY ConstantsTyped DEF Init, Idle
  <1>5. log \in Seq(Items) /\ Len(log) = 0
    BY DEF Init
  <1> QED BY <1>1, <1>2, <1>3, <1>4, <1>5, ConstantsTyped
          DEF Init, Typing, Types, Eventful

LEMMA ReadingTypes ==
    ASSUME Typing, NEW r \in Runners,
           Begin(r) \/ ReadState(r) \/ CheckIdentity(r) \/ Cancel(r)
             \/ Record(r) \/ Fail(r) \/ Crash(r) \/ Expire(r)
    PROVE  Typing'
  <1> USE DEF Eventful, source, items, left, bounds
  <1>1. Types
    BY DEF Typing
  <1>2. CASE Begin(r)
    <2>1. RestTyped
      BY <1>1, <1>2 DEF Types, RestTyped, Begin
    <2>2. run' \in [Runners -> Runs] /\ Others(r) /\ run'[r].pc = "read"
      BY <1>1, <1>2, BeginDoes
    <2> QED BY <2>1, <2>2, TypingKept
  <1>3. CASE ReadState(r)
    <2>1. RestTyped
      BY <1>1, <1>3 DEF Types, RestTyped, ReadState
    <2>2. run' \in [Runners -> Runs] /\ Others(r) /\ run'[r].pc = "identity"
      BY <1>1, <1>3, ReadStateDoes
    <2> QED BY <2>1, <2>2, TypingKept
  <1>4. CASE CheckIdentity(r)
    <2>1. /\ run' \in [Runners -> Runs] /\ Others(r) /\ row' \in Rows
          /\ run'[r].pc \in {"record", "count", "loop"}
      BY <1>1, <1>4, CheckIdentityDoes DEF Settled
    <2>2. RestTyped
      BY <1>1, <1>4, <2>1 DEF Types, RestTyped, CheckIdentity
    <2> QED BY <2>1, <2>2, TypingKept
  <1>5. CASE Cancel(r)
    <2>1. RestTyped
      BY <1>1, <1>5 DEF Types, RestTyped, Cancel
    <2>2. End(r, "ok")
      BY <1>5 DEF Cancel
    <2>3. run' \in [Runners -> Runs] /\ Others(r) /\ run'[r].pc = "record"
      BY <1>1, <2>2, EndDoes
    <2> QED BY <2>1, <2>3, TypingKept
  <1>6. CASE Record(r)
    <2>1. /\ run' \in [Runners -> Runs] /\ Others(r) /\ row' \in Rows
          /\ run'[r].pc = "idle"
      BY <1>1, <1>6, RecordDoes
    <2>2. RestTyped
      BY <1>1, <1>6, <2>1 DEF Types, RestTyped, Record
    <2> QED BY <2>1, <2>2, TypingKept
  <1>7. CASE Fail(r)
    <2>1. faults' \in 0..MaxFaults
      BY <1>1, <1>7, FaultTyped DEF Fail
    <2>2. RestTyped
      BY <1>1, <1>7, <2>1 DEF Types, RestTyped, Fail
    <2>3. \E status \in {"ok", "failed"} : End(r, status)
      BY <1>7 DEF Fail
    <2>4. run' \in [Runners -> Runs] /\ Others(r) /\ run'[r].pc = "record"
      BY <1>1, <2>3, EndDoes
    <2> QED BY <2>2, <2>4, TypingKept
  <1>8. CASE Crash(r)
    <2>1. faults' \in 0..MaxFaults
      BY <1>1, <1>8, FaultTyped DEF Crash
    <2>2. RestTyped
      BY <1>1, <1>8, <2>1 DEF Types, RestTyped, Crash
    <2>3. Set(r, Idle)
      BY <1>8 DEF Crash
    <2>4. run' \in [Runners -> Runs] /\ Others(r) /\ run'[r].pc = "idle"
      BY <1>1, <2>3, IdleDoes
    <2> QED BY <2>2, <2>4, TypingKept
  <1>9. CASE Expire(r)
    <2>1. faults' \in 0..MaxFaults
      BY <1>1, <1>9, FaultTyped DEF Expire
    <2>2. RestTyped
      BY <1>1, <1>9, <2>1 DEF Types, RestTyped, Expire
    <2>3. /\ run' \in [Runners -> Runs] /\ Others(r)
          /\ run'[r].pc = run[r].pc /\ run'[r].item = run[r].item
      BY <1>1, <1>9, ExpireDoes
    <2>4. Eventful(run'[r])
      BY <2>3 DEF Typing
    <2> QED BY <2>2, <2>3, <2>4, TypingKept
  <1> QED BY <1>2, <1>3, <1>4, <1>5, <1>6, <1>7, <1>8, <1>9

LEMMA FollowingTypes ==
    ASSUME Typing, NEW r \in Runners, Follow(r)
    PROVE  Typing'
  <1> USE DEF Eventful, source, items, left, bounds
  <1>1. Types
    BY DEF Typing
  <1>2. ASSUME NEW again \in BOOLEAN, Restart(r, again),
               UNCHANGED <<source, lease, acts, moves>>,
               faults' \in 0..MaxFaults
        PROVE  Typing'
    <2>1. /\ run' \in [Runners -> Runs] /\ Others(r) /\ row' \in Rows
          /\ run'[r].pc = "loop" /\ fresh' = {} /\ skipsMet' = {}
          /\ UNCHANGED <<cat, skips>>
      BY <1>1, <1>2, RestartDoes
    <2>2. RestTyped
      BY <1>1, <1>2, <2>1 DEF Types, RestTyped
    <2> QED BY <2>1, <2>2, TypingKept
  <1>3. CASE CrawlAgain(r)
    <2>1. run[r].resynced \in BOOLEAN /\ faults' \in 0..MaxFaults
      BY <1>1, <1>3 DEF CrawlAgain, Types, Runs
    <2> QED BY <1>2, <1>3, <2>1 DEF CrawlAgain
  <1>4. CASE StartStream(r)
    <2>1. run' \in [Runners -> Runs] /\ Others(r) /\ run'[r].pc = "stream"
      BY <1>1, <1>4, StartStreamDoes
    <2>2. RestTyped
      BY <1>1, <1>4 DEF Types, RestTyped, StartStream
    <2> QED BY <2>1, <2>2, TypingKept
  <1>5. CASE Resync(r)
    <2>1. faults' \in 0..MaxFaults
      BY <1>1, <1>5, FaultTyped DEF Resync, Types
    <2>2. CASE Restart(r, TRUE)
      BY <1>2, <1>5, <2>1, <2>2 DEF Resync
    <2>3. CASE End(r, "ok") /\ UNCHANGED <<items, left, row>>
      <3>1. run' \in [Runners -> Runs] /\ Others(r) /\ run'[r].pc = "record"
        BY <1>1, <2>3, EndDoes
      <3>2. UNCHANGED <<source, lease, acts, moves>>
        BY <1>5 DEF Resync
      <3>3. RestTyped
        BY <1>1, <2>1, <2>3, <3>2 DEF Types, RestTyped
      <3> QED BY <3>1, <3>3, TypingKept
    <2> QED BY <1>5, <2>2, <2>3 DEF Resync
  <1>6. CASE ListItem(r)
    <2>1. /\ run' \in [Runners -> Runs] /\ Others(r)
          /\ run'[r].item \in Items
      BY <1>1, <1>6, ListItemDoes
    <2>2. RestTyped
      BY <1>1, <1>6 DEF Types, RestTyped, ListItem
    <2> QED BY <2>1, <2>2, TypingKept
  <1>7. CASE DeltaEvent(r)
    <2>1. /\ run' \in [Runners -> Runs] /\ Others(r)
          /\ run'[r].item \in Items
      BY <1>1, <1>7, DeltaEventDoes
    <2>2. RestTyped
      BY <1>1, <1>7 DEF Types, RestTyped, DeltaEvent
    <2> QED BY <2>1, <2>2, TypingKept
  <1>8. CASE Unreadable(r)
    <2>1. /\ run' \in [Runners -> Runs] /\ Others(r)
          /\ run'[r].pc = run[r].pc /\ row' \in Rows
      BY <1>1, <1>8, UnreadableDoes
    <2>2. run[r].pc = "stream" /\ faults' \in 0..MaxFaults
      BY <1>1, <1>8, FaultTyped DEF Unreadable, Listening, At
    <2>3. RestTyped
      BY <1>1, <1>8, <2>1, <2>2 DEF Types, RestTyped, Unreadable
    <2> QED BY <2>1, <2>2, <2>3, TypingKept
  <1>9. CASE Apply(r)
    <2> DEFINE i == run[r].item
    <2>1. run[r].pc = "apply"
      BY <1>9 DEF Apply, SkipUnchanged, RecordItem, SkipItem, DeleteItem, At
    <2>2. i \in Items /\ run[r].rev \in Revisions
      BY <1>1, <2>1 DEF Typing, Types, Runs
    <2>3. Cleared(r, i) \/ LeftOut(r, i)
      BY <1>9 DEF Apply, SkipUnchanged, RecordItem, SkipItem, DeleteItem
    <2>4. /\ run' \in [Runners -> Runs] /\ Others(r)
          /\ run'[r].pc = "stream"
      BY <1>1, <2>2, <2>3, ClearedDoes, LeftOutDoes DEF Settling
    <2>5. CASE SkipUnchanged(r)
      <3>1. RestTyped
        BY <1>1, <2>5 DEF Types, RestTyped, SkipUnchanged
      <3> QED BY <2>4, <3>1, TypingKept
    <2>6. CASE RecordItem(r)
      <3>1. /\ cat' = [cat EXCEPT ![i] = [rev |-> run[r].rev, live |-> TRUE]]
            /\ fresh' = fresh \cup {i}
        BY <2>6 DEF RecordItem
      <3>2. cat' \in [Items -> Cats]
        BY <1>1, <2>2, <3>1, CatTyped
      <3>3. RestTyped
        BY <1>1, <2>2, <2>6, <3>1, <3>2 DEF Types, RestTyped, RecordItem
      <3> QED BY <2>4, <3>3, TypingKept
    <2>7. CASE SkipItem(r)
      <3>1. fresh' \subseteq Items /\ faults' \in 0..MaxFaults
        BY <1>1, <2>2, <2>7, FaultTyped DEF SkipItem, Types
      <3>2. RestTyped
        BY <1>1, <2>7, <3>1 DEF Types, RestTyped, SkipItem
      <3> QED BY <2>4, <3>2, TypingKept
    <2>8. CASE DeleteItem(r)
      <3>1. cat' \in [Items -> Cats]
        BY <1>1, <2>8, CatTyped DEF DeleteItem, removeFromSource
      <3>2. RestTyped
        BY <1>1, <2>8, <3>1 DEF Types, RestTyped, DeleteItem
      <3> QED BY <2>4, <3>2, TypingKept
    <2> QED BY <1>9, <2>5, <2>6, <2>7, <2>8 DEF Apply
  <1>10. CASE Checkpoint(r)
    <2>1. /\ run' \in [Runners -> Runs] /\ Others(r)
          /\ run'[r].pc \in {"stream", "record"}
          /\ run[r].token \in Tokens /\ run[r].phase \in {"crawl", "delta"}
          /\ Save(r, run[r].phase, run[r].token)
      BY <1>1, <1>10, CheckpointDoes
    <2>2. /\ row' \in Rows
          /\ skips' = (skips \ run[r].cleared) \cup run[r].left
          /\ skipsMet' = (skipsMet \ run[r].cleared) \cup run[r].left
      BY <1>1, <2>1, SaveDoes
    <2>3. run[r].left \subseteq Items
      BY <1>1 DEF Types, Runs
    <2>4. RestTyped
      BY <1>1, <1>10, <2>2, <2>3 DEF Types, RestTyped, Checkpoint
    <2> QED BY <2>1, <2>4, TypingKept
  <1>11. CASE Done(r)
    <2>1. PICK T \in Tokens :
          /\ run' \in [Runners -> Runs] /\ Others(r)
          /\ run'[r].pc \in {"count", "record"}
          /\ Save(r, "delta", T)
      BY <1>1, <1>11, DoneDoes
    <2>2. /\ row' \in Rows
          /\ skips' = (skips \ run[r].cleared) \cup run[r].left
          /\ skipsMet' = (skipsMet \ run[r].cleared) \cup run[r].left
      BY <1>1, <2>1, SaveDoes
    <2>3. run[r].left \subseteq Items
      BY <1>1 DEF Types, Runs
    <2>4. RestTyped
      BY <1>1, <1>11, <2>2, <2>3 DEF Types, RestTyped, Done
    <2> QED BY <2>1, <2>4, TypingKept
  <1> QED BY <1>3, <1>4, <1>5, <1>6, <1>7, <1>8, <1>9, <1>10, <1>11 DEF Follow

LEMMA ReconcilingTypes ==
    ASSUME Typing, NEW r \in Runners, Reconcile(r)
    PROVE  Typing'
  <1> USE DEF Eventful, source, items, left, bounds
  <1>1. Types
    BY DEF Typing
  <1>2. CASE Count(r)
    <2>1. /\ run' \in [Runners -> Runs] /\ Others(r)
          /\ run'[r].pc \in {"hold", "stale"}
      BY <1>1, <1>2, CountDoes
    <2>2. RestTyped
      BY <1>1, <1>2 DEF Types, RestTyped, Count
    <2> QED BY <2>1, <2>2, TypingKept
  <1>3. CASE Hold(r)
    <2>1. /\ run' \in [Runners -> Runs] /\ Others(r) /\ row' \in Rows
          /\ run'[r].pc = "record"
      BY <1>1, <1>3, HoldDoes
    <2>2. RestTyped
      BY <1>1, <1>3, <2>1 DEF Types, RestTyped, Hold
    <2> QED BY <2>1, <2>2, TypingKept
  <1>4. CASE ReadStale(r)
    <2>1. /\ run' \in [Runners -> Runs] /\ Others(r)
          /\ run'[r].pc \in {"finish", "remove"}
      BY <1>1, <1>4, ReadStaleDoes
    <2>2. RestTyped
      BY <1>1, <1>4 DEF Types, RestTyped, ReadStale
    <2> QED BY <2>1, <2>2, TypingKept
  <1>5. CASE RemoveStale(r)
    <2>1. /\ run' \in [Runners -> Runs] /\ Others(r)
          /\ run'[r].pc \in {"stale", "remove"}
          /\ cat' = [cat EXCEPT ![Min(run[r].batch)].live = FALSE]
      BY <1>1, <1>5, RemoveStaleDoes
    <2>2. cat' \in [Items -> Cats]
      BY <1>1, <2>1, CatTyped
    <2>3. RestTyped
      BY <1>1, <1>5, <2>2 DEF Types, RestTyped, RemoveStale
    <2> QED BY <2>1, <2>3, TypingKept
  <1>6. CASE Finish(r)
    <2>1. /\ run' \in [Runners -> Runs] /\ Others(r) /\ row' \in Rows
          /\ run'[r].pc \in {"record", "loop"}
      BY <1>1, <1>6, FinishDoes
    <2>2. RestTyped
      BY <1>1, <1>6, <2>1 DEF Types, RestTyped, Finish
    <2> QED BY <2>1, <2>2, TypingKept
  <1> QED BY <1>2, <1>3, <1>4, <1>5, <1>6 DEF Reconcile

\* What a change leaves as it is, and what it makes of the change feed.
LEMMA ChangeDoes ==
    ASSUME Types, NEW i \in Items, ChangeItem(i)
    PROVE  /\ src' \in [Items -> Revisions]
           /\ \A j \in Items : j # i => src'[j] = src[j]
           /\ log' \in Seq(Items) /\ Len(log') <= MaxChanges
           /\ Len(log') = Len(log) + 1 /\ log'[Len(log')] = i
           /\ \A k \in 1..Len(log) : log'[k] = log[k]
           /\ mounted
  <1>1. /\ Len(log) \in Nat /\ Len(log) < MaxChanges /\ log' = Append(log, i)
        /\ log \in Seq(Items) /\ mounted
    BY LogTyped DEF ChangeItem, Types
  <1>2. /\ log' \in Seq(Items) /\ Len(log') = Len(log) + 1
        /\ log'[Len(log')] = i
        /\ \A k \in 1..Len(log) : log'[k] = log[k]
    BY <1>1
  <1>3. \E v \in Revisions : src' = [src EXCEPT ![i] = v]
    BY <1>1, ConstantsTyped DEF ChangeItem
  <1>4. /\ src' \in [Items -> Revisions]
        /\ \A j \in Items : j # i => src'[j] = src[j]
    BY <1>3 DEF Types
  <1> QED BY <1>1, <1>2, <1>4, ConstantsTyped

\* What the admins do of the row.
LEMMA AdminDoes ==
    ASSUME Types, Admin
    PROVE  /\ Acts /\ row' \in Rows
           /\ UNCHANGED <<source, cat, skips, lease, run, faults, moves>>
           /\ \/ SameRow /\ UNCHANGED <<fresh, skipsMet>>
              \/ /\ row'.confirmed = row.held /\ row.held # 0
                 /\ row'.held = row.held /\ row'.phase = row.phase
                 /\ row'.token = row.token /\ row'.from = row.from
                 /\ row'.deferred = row.deferred
                 /\ UNCHANGED <<fresh, skipsMet>>
              \/ /\ row'.phase = "crawl" /\ row'.token = NoToken
                 /\ row'.from = TRUE /\ row'.held = 0 /\ row'.confirmed = 0
                 /\ fresh' = {} /\ skipsMet' = {}
  <1>1. row \in Rows
    BY DEF Types
  <1>2. CASE resumeSource
    <2>1. row' = [row EXCEPT !.stopped = FALSE]
      BY <1>2 DEF resumeSource
    <2>2. row' \in Rows /\ SameRow
      BY <1>1, <2>1 DEF Rows, SameRow
    <2> QED BY <1>2, <2>2 DEF resumeSource, items, left
  <1>3. CASE confirmReconcile
    <2>1. row' = [row EXCEPT !.confirmed = row.held, !.stopped = FALSE]
      BY <1>3 DEF confirmReconcile
    <2>2. row.held \in 0..NumItems
      BY <1>1 DEF Rows
    <2>3. /\ row' \in Rows
          /\ row'.confirmed = row.held
          /\ row'.held = row.held /\ row'.phase = row.phase
          /\ row'.token = row.token /\ row'.from = row.from
          /\ row'.deferred = row.deferred
      BY <1>1, <2>1, <2>2 DEF Rows
    <2> QED BY <1>3, <2>3 DEF confirmReconcile, items, left
  <1>4. CASE discardReconcile
    <2>1. row' = Decided(CrawlAnew(row))
      BY <1>4 DEF discardReconcile
    <2>2. CrawlAnew(row) \in Rows /\ CrawlAnew(row).phase = "crawl"
          /\ CrawlAnew(row).token = NoToken /\ CrawlAnew(row).from = TRUE
      BY <1>1, RowTypes
    <2>3. /\ row' \in Rows /\ row'.phase = "crawl" /\ row'.token = NoToken
          /\ row'.from = TRUE /\ row'.held = 0 /\ row'.confirmed = 0
      BY <2>1, <2>2, RowTypes
    <2> QED BY <1>4, <2>3 DEF discardReconcile
  <1>5. CASE acceptSourceIdentity
    <2> DEFINE w == Decided(CrawlAnew(row))
    <2>1. row' = [w EXCEPT !.identity = "none"]
      BY <1>5 DEF acceptSourceIdentity
    <2>2. CrawlAnew(row) \in Rows /\ CrawlAnew(row).phase = "crawl"
          /\ CrawlAnew(row).token = NoToken /\ CrawlAnew(row).from = TRUE
      BY <1>1, RowTypes
    <2>3. /\ w \in Rows /\ w.phase = "crawl" /\ w.token = NoToken
          /\ w.from = TRUE /\ w.held = 0 /\ w.confirmed = 0
      BY <2>2, RowTypes
    <2> HIDE DEF w
    <2>4. /\ row' \in Rows /\ row'.phase = "crawl" /\ row'.token = NoToken
          /\ row'.from = TRUE /\ row'.held = 0 /\ row'.confirmed = 0
      BY <2>1, <2>3 DEF Rows
    <2> QED BY <1>5, <2>4 DEF acceptSourceIdentity
  <1>6. Acts
    BY DEF Admin, resumeSource, confirmReconcile, discardReconcile,
           acceptSourceIdentity
  <1> QED BY <1>2, <1>3, <1>4, <1>5, <1>6 DEF Admin

LEMMA TypingNext == Typing /\ [Next]_vars => Typing'
  <1> SUFFICES ASSUME Typing, [Next]_vars PROVE Typing'
    OBVIOUS
  <1>1. Types
    BY DEF Typing
  <1>2. CASE \E i \in Items : ChangeItem(i)
    <2>1. PICK i \in Items : ChangeItem(i)
      BY <1>2
    <2>2. /\ src' \in [Items -> Revisions]
          /\ log' \in Seq(Items) /\ Len(log') <= MaxChanges
      BY <1>1, <2>1, ChangeDoes
    <2> QED BY <2>1, <2>2 DEF ChangeItem, Typing, Types, Eventful, items,
                              left, bounds
  <1>3. CASE MoveDisk
    <2>1. mounted' \in BOOLEAN
      BY <1>3 DEF MoveDisk
    <2>2. moves' \in 0..MaxMoves
      BY <1>1, <1>3, ConstantsTyped DEF MoveDisk, Types
    <2> QED BY <1>3, <2>1, <2>2 DEF MoveDisk, Typing, Types, Eventful, items,
                                    left
  <1>4. CASE Admin
    <2>1. /\ Acts /\ row' \in Rows
          /\ UNCHANGED <<source, cat, skips, lease, run, faults, moves>>
          /\ fresh' \in {fresh, {}} /\ skipsMet' \in {skipsMet, {}}
      BY <1>1, <1>4, AdminDoes
    <2>2. acts' \in 0..MaxActs
      BY <1>1, <2>1, ConstantsTyped DEF Acts, Types
    <2> QED BY <2>1, <2>2 DEF Typing, Types, Eventful, source
  <1>5. CASE \E r \in Runners : runSync(r) \/ Fail(r) \/ Crash(r) \/ Expire(r)
    BY <1>5, ReadingTypes, FollowingTypes, ReconcilingTypes DEF runSync
  <1>6. CASE UNCHANGED vars
    BY <1>6 DEF vars, source, items, left, bounds, Typing, Types, Eventful
  <1> QED BY <1>2, <1>3, <1>4, <1>5, <1>6 DEF Next

\* The sync keeps its types, however runs overlap.
THEOREM SyncTyped == Spec => []TypeOK
  <1>1. Typing => TypeOK
    BY Typed DEF Typing
  <1> QED BY <1>1, InitTyping, TypingNext, PTL DEF Spec
-----------------------------------------------------------------------------
(* The inductive invariant.  It says of the source's row what a run may     *)
(* rely on that reads it, and of a run what it knows of the row and of the  *)
(* items its token is past.  It is kept while runs do not overlap.          *)

Busy(r) == run[r].pc # "idle"

\* No run of the source goes on beside another.
OneAtATime == \A r, s \in Runners : Busy(r) /\ Busy(s) => r = s

\* What a listing of the source src shows of an item, where disk d is.
Shown(s, d, i) == IF d THEN s[i] ELSE 0

\* The change feed l tells of an item past position p.
AheadIn(l, p, i) == \E k \in p + 1 .. Len(l) : l[k] = i

Mirrored(c, v) == IF v = 0 THEN ~c.live ELSE c.live /\ c.rev = v

Covered(phase, T, told, i) ==
    \/ phase = "crawl" /\ i > T.at
    \/ Mirrored(cat[i], Shown(src, T.disk, i))
    \/ AheadIn(log, T.pos, i)
    \/ i \in told
    \/ row.from /\ Shown(src, T.disk, i) = 0

\* What is told as left out, and stays told when a reconcile is over.
Told == IF row.from THEN skipsMet ELSE skips

\* An unreadable place took the reconcile with it.
Excused == row.deferred /\ ~row.from

RowCovers ==
    \A i \in Items : Excused \/ Covered(row.phase, row.token, Told, i)

\* What was synced since a crawl began is there, or it will be told that it
\* is gone; and what was not is not there, or it will be told that it is.
MetThere(T, i) ==
    i \in fresh => Shown(src, T.disk, i) # 0 \/ AheadIn(log, T.pos, i)
MetAll(phase, T, i) ==
    (phase = "delta" \/ i <= T.at) /\ cat[i].live /\ i \notin fresh
    => Shown(src, T.disk, i) = 0 \/ AheadIn(log, T.pos, i)

RowMeets ==
    row.from /\ (row.phase = "delta" \/ row.token.at > 0)
      => \A i \in Items : /\ MetThere(row.token, i)
                          /\ MetAll(row.phase, row.token, i)

RowSane ==
    /\ row.token.pos <= Len(log)
    /\ row.phase = "delta" => row.token.at = 0
    /\ row.phase = "crawl" /\ ~row.from => row.deferred
    /\ \A i \in Items : cat[i].live => cat[i].rev # 0

\* What is held, or confirmed, is at least what the reconcile would remove.
Guarded ==
    /\ row.held # 0 => /\ row.phase = "delta" /\ row.from
                       /\ Cardinality(Stale) <= row.held
    /\ row.confirmed # 0 => /\ row.held # 0
                            /\ Cardinality(Stale) <= row.confirmed

RowInv == RowCovers /\ RowMeets /\ RowSane /\ Guarded

\* Before a crawl's first checkpoint only the run that crawls has synced.
Listens(s) == s.pc \in {"stream", "apply"} /\ ~s.aborted
Beginning == /\ row.phase = "crawl" /\ row.token.at = 0
             /\ row.from /\ fresh # {}
NoneEarly == Beginning => \E r \in Runners : Listens(run[r])

AsRow(s)   == /\ s.phase = row.phase /\ s.token = row.token
              /\ s.left = {} /\ s.cleared = {}
Follows(s) == /\ s.phase = row.phase
              /\ s.reconciling = (row.phase = "crawl" /\ row.from)
              /\ row.phase = "delta" => ~row.from
              /\ row.held = 0

Reads(s) ==
    /\ s.pc = "read" => s.left = {} /\ s.cleared = {}
    /\ s.pc = "identity" =>
         /\ AsRow(s) /\ s.from = row.from
         /\ s.reconciling = (row.phase = "crawl" /\ row.from)
Loops(s) == s.pc = "loop" => AsRow(s) /\ Follows(s)

After(s) ==
    /\ s.token.disk = mounted /\ s.token.pos <= Len(log)
    /\ row.phase = "crawl" =>
         /\ row.token.at <= s.token.at
         /\ row.token.at > 0 => /\ s.token.pos = row.token.pos
                                /\ s.token.disk = row.token.disk
    /\ row.phase = "delta" =>
         /\ row.token.pos <= s.token.pos /\ s.token.at = 0
         /\ s.token.disk = row.token.disk

Pending(s, i) == s.pc = "apply" /\ i = s.item

CoversAll(s) == \A i \in Items :
    \/ Excused \/ Pending(s, i)
    \/ Covered(s.phase, s.token, (Told \ s.cleared) \cup s.left, i)

MeetsAll(s) == row.from => \A i \in Items :
    /\ MetThere(s.token, i)
    /\ Pending(s, i) \/ MetAll(s.phase, s.token, i)

Streams(s) == s.pc \in {"stream", "apply"} =>
    Follows(s) /\ After(s) /\ CoversAll(s) /\ MeetsAll(s)

Applies(s) == s.pc = "apply" =>
    /\ s.item \in Items
    /\ Shown(src, mounted, s.item) = s.rev \/ AheadIn(log, s.token.pos, s.item)
    /\ s.phase = "crawl" => /\ s.item = s.token.at /\ s.rev # 0
                            /\ row.token.at < s.item
                            /\ row.token.at = 0 => ~s.aborted
    /\ s.phase = "delta" => /\ s.token.pos > row.token.pos
                            /\ log[s.token.pos] = s.item

Settles(s) == s.pc \in {"count", "hold", "stale", "remove", "finish"} =>
    /\ row.phase = "delta" /\ row.from
    /\ ~s.last => AsRow(s)
    /\ s.pc # "count" => Stale \subseteq s.counted
    /\ s.pc = "hold" => row.confirmed = 0
    /\ s.pc = "remove" => s.batch \subseteq Stale /\ s.batch # {}
    /\ s.pc = "finish" => Stale = {}

RunInv(s) == Reads(s) /\ Loops(s) /\ Streams(s) /\ Applies(s) /\ Settles(s)

SyncInv == /\ Typing /\ RowInv /\ NoneEarly
           /\ \A r \in Runners : RunInv(run[r])

-----------------------------------------------------------------------------
(* What the invariant gives, and what keeps its parts.                      *)

LEMMA FieldTypes ==
    ASSUME Types
    PROVE  /\ row.phase \in {"crawl", "delta"} /\ row.token.at \in Nat
           /\ row.token.pos \in Nat /\ row.token.disk \in BOOLEAN
           /\ row.from \in BOOLEAN /\ row.held \in Nat
           /\ row.confirmed \in Nat /\ row.deferred \in BOOLEAN
           /\ row.token \in Tokens
           /\ Len(log) \in Nat /\ mounted \in BOOLEAN
           /\ \A r \in Runners :
                /\ run[r].phase \in {"crawl", "delta"}
                /\ run[r].token \in Tokens
                /\ run[r].token.at \in Nat /\ run[r].token.pos \in Nat
                /\ run[r].token.disk \in BOOLEAN
                /\ run[r].reconciling \in BOOLEAN
                /\ run[r].aborted \in BOOLEAN /\ run[r].pc \in Pcs
                /\ run[r].rev \in Revisions /\ run[r].last \in BOOLEAN
  <1>1. /\ row.phase \in {"crawl", "delta"} /\ row.token \in Tokens
        /\ row.from \in BOOLEAN /\ row.held \in 0..NumItems
        /\ row.confirmed \in 0..NumItems /\ row.deferred \in BOOLEAN
    BY DEF Types, Rows
  <1>2. \A T \in Tokens :
           T.at \in Nat /\ T.pos \in Nat /\ T.disk \in BOOLEAN
    BY ConstantsTyped DEF Tokens
  <1>3. row.held \in Nat /\ row.confirmed \in Nat
    BY <1>1, ConstantsTyped
  <1>4. Len(log) \in Nat /\ mounted \in BOOLEAN
    BY LogTyped DEF Types
  <1>5. \A r \in Runners :
                /\ run[r].phase \in {"crawl", "delta"}
                /\ run[r].token \in Tokens
                /\ run[r].reconciling \in BOOLEAN
                /\ run[r].aborted \in BOOLEAN /\ run[r].pc \in Pcs
                /\ run[r].rev \in Revisions /\ run[r].last \in BOOLEAN
    BY DEF Types, Runs
  <1> QED BY <1>1, <1>2, <1>3, <1>4, <1>5

LEMMA ItemsAreNat == Items \subseteq Nat /\ \A i \in Items : i > 0
  BY ConstantsTyped

LEMMA StaleTyped == Stale \in SUBSET Items /\ Stale' \in SUBSET Items
  BY DEF Stale, Live

\* A run that has ended, or not begun, keeps nothing.
LEMMA Rests ==
    ASSUME NEW r \in Runners, run'[r].pc \in {"idle", "record"}
    PROVE  RunInv(run[r])'
  BY DEF RunInv, Reads, Loops, Streams, Applies, Settles

LEMMA OthersRest ==
    ASSUME OneAtATime, OneAtATime', NEW r \in Runners, Others(r),
           Busy(r) \/ Busy(r)'
    PROVE  \A q \in Runners : q # r => run'[q].pc = "idle"
  BY DEF OneAtATime, Busy, Others

LEMMA InvKept ==
    ASSUME OneAtATime, OneAtATime', NEW r \in Runners, Others(r),
           Busy(r) \/ Busy(r)',
           Typing', RowInv', NoneEarly', RunInv(run[r])'
    PROVE  SyncInv'
  <1>1. \A q \in Runners : q # r => run'[q].pc = "idle"
    BY OthersRest
  <1>2. ASSUME NEW q \in Runners PROVE RunInv(run[q])'
    <2>1. CASE q = r
      BY <2>1
    <2>2. CASE q # r
      BY <1>1, <2>2, Rests
    <2> QED BY <2>1, <2>2
  <1> QED BY <1>2 DEF SyncInv

LEMMA StaleSame ==
    ASSUME row'.from = row.from, cat' = cat, fresh' = fresh
    PROVE  Stale' = Stale
  BY DEF Stale, Live

LEMMA RowKept ==
    ASSUME RowInv, SameRow,
           UNCHANGED <<src, log, cat, fresh, skips, skipsMet>>
    PROVE  RowInv'
  <1> USE DEF SameRow
  <1>1. RowCovers'
    BY DEF RowInv, RowCovers, Excused, Covered, Told
  <1>2. RowMeets'
    BY DEF RowInv, RowMeets, MetThere, MetAll
  <1>3. RowSane'
    BY DEF RowInv, RowSane
  <1>4. Guarded'
    BY StaleSame DEF RowInv, Guarded
  <1> QED BY <1>1, <1>2, <1>3, <1>4 DEF RowInv

\* A step that is not the end of a crawl before its first checkpoint.
LEMMA EarlyKept ==
    ASSUME NoneEarly, NEW r \in Runners, Others(r), Beginning' => Beginning,
           Beginning /\ Listens(run[r]) => Listens(run'[r])
    PROVE  NoneEarly'
  BY DEF NoneEarly, Others

LEMMA BeginningSame ==
    ASSUME SameRow, fresh' = fresh
    PROVE  Beginning' <=> Beginning
  BY DEF SameRow, Beginning

\* A run that listens follows the row, so that it is not broken off early.
LEMMA NotBrokenOff ==
    ASSUME ~EarlyStops, NEW r \in Runners, RunInv(run[r]), MayBreakOff(r)
    PROVE  ~(Beginning /\ Listens(run[r]))
  BY DEF RunInv, Streams, Follows, MayBreakOff, Early, Beginning, Listens

-----------------------------------------------------------------------------
(* How a run begins and ends.                                               *)

\* What an inductive step assumes.
Stepping == SyncInv /\ OneAtATime /\ OneAtATime' /\ Typing'

LEMMA HasInv ==
    ASSUME SyncInv
    PROVE  /\ Types /\ Typing /\ RowInv /\ NoneEarly
           /\ RowCovers /\ RowMeets /\ RowSane /\ Guarded
           /\ \A r \in Runners : /\ RunInv(run[r]) /\ Reads(run[r])
                                 /\ Loops(run[r]) /\ Streams(run[r])
                                 /\ Applies(run[r]) /\ Settles(run[r])
  BY DEF SyncInv, Typing, RowInv, RunInv

LEMMA BeginKeeps ==
    ASSUME Stepping, NEW r \in Runners, Begin(r)
    PROVE  SyncInv'
  <1>1. SyncInv /\ OneAtATime /\ OneAtATime' /\ Typing' /\ Types
    BY HasInv DEF Stepping
  <1>2. /\ Others(r) /\ run'[r].pc = "read"
        /\ run'[r].left = {} /\ run'[r].cleared = {}
    BY <1>1, BeginDoes
  <1>3. run[r].pc = "idle" /\ UNCHANGED <<source, items, left, row>>
    BY DEF Begin, At
  <1>4. SameRow /\ UNCHANGED <<src, log, cat, fresh, skips, skipsMet>>
    BY <1>3 DEF SameRow, source, items, left
  <1>5. RowInv'
    BY <1>1, <1>4, HasInv, RowKept
  <1>6. NoneEarly'
    BY <1>1, <1>2, <1>3, <1>4, HasInv, BeginningSame, EarlyKept DEF Listens
  <1>7. RunInv(run[r])'
    BY <1>2 DEF RunInv, Reads, Loops, Streams, Applies, Settles
  <1> QED BY <1>1, <1>2, <1>5, <1>6, <1>7, InvKept DEF Busy

LEMMA ReadStateKeeps ==
    ASSUME Stepping, NEW r \in Runners, ReadState(r)
    PROVE  SyncInv'
  <1>1. SyncInv /\ OneAtATime /\ OneAtATime' /\ Typing' /\ Types
    BY HasInv DEF Stepping
  <1>2. /\ Others(r) /\ run'[r].pc = "identity"
        /\ run'[r].phase = row.phase /\ run'[r].token = row.token
        /\ run'[r].from = row.from
        /\ run'[r].reconciling = (row.phase = "crawl" /\ row.from)
        /\ run'[r].left = run[r].left /\ run'[r].cleared = run[r].cleared
    BY <1>1, ReadStateDoes
  <1>3. run[r].pc = "read" /\ UNCHANGED <<source, items, left, row>>
    BY DEF ReadState, At
  <1>4. SameRow /\ UNCHANGED <<src, log, cat, fresh, skips, skipsMet>>
    BY <1>3 DEF SameRow, source, items, left
  <1>5. RowInv'
    BY <1>1, <1>4, HasInv, RowKept
  <1>6. NoneEarly'
    BY <1>1, <1>2, <1>3, <1>4, HasInv, BeginningSame, EarlyKept DEF Listens
  <1>7. run[r].left = {} /\ run[r].cleared = {}
    BY <1>1, <1>3, HasInv DEF Reads
  <1>8. RunInv(run[r])'
    BY <1>2, <1>3, <1>7
       DEF RunInv, Reads, Loops, Streams, Applies, Settles, AsRow
  <1> QED BY <1>1, <1>2, <1>5, <1>6, <1>8, InvKept DEF Busy

LEMMA CheckIdentityKeeps ==
    ASSUME Stepping, NEW r \in Runners, CheckIdentity(r)
    PROVE  SyncInv'
  <1>1. SyncInv /\ OneAtATime /\ OneAtATime' /\ Typing' /\ Types
    BY HasInv DEF Stepping
  <1>2. /\ Others(r) /\ SameRow
        /\ \/ run'[r].pc = "record"
           \/ run'[r].pc = Settled(r) /\ Apart(run[r], run'[r])
    BY <1>1, CheckIdentityDoes
  <1>3. run[r].pc = "identity" /\ UNCHANGED <<source, items, left>>
    BY DEF CheckIdentity, At
  <1>4. UNCHANGED <<src, log, cat, fresh, skips, skipsMet>>
    BY <1>3 DEF source, items, left
  <1>5. RowInv'
    BY <1>1, <1>2, <1>4, HasInv, RowKept
  <1>6. NoneEarly'
    BY <1>1, <1>2, <1>3, <1>4, HasInv, BeginningSame, EarlyKept DEF Listens
  <1>7. RunInv(run[r])'
    <2>1. CASE run'[r].pc = "record"
      BY <2>1, Rests
    <2>2. CASE run'[r].pc = Settled(r) /\ Apart(run[r], run'[r])
      <3>1. AsRow(run[r]) /\ run[r].from = row.from
            /\ run[r].reconciling = (row.phase = "crawl" /\ row.from)
        BY <1>1, <1>3, HasInv DEF Reads
      <3>2. AsRow(run[r])'
        BY <1>2, <2>2, <3>1 DEF AsRow, Apart, SameRow
      <3>3. CASE run[r].phase = "delta" /\ run[r].from
        <4>1. run'[r].pc = "count"
          BY <2>2, <3>3 DEF Settled
        <4>2. row'.phase = "delta" /\ row'.from
          BY <1>2, <3>1, <3>3 DEF AsRow, SameRow
        <4> QED BY <3>2, <4>1, <4>2
                DEF RunInv, Reads, Loops, Streams, Applies, Settles
      <3>4. CASE ~(run[r].phase = "delta" /\ run[r].from)
        <4>1. run'[r].pc = "loop"
          BY <2>2, <3>4 DEF Settled
        <4>2. row.held = 0
          BY <1>1, <3>1, <3>4, HasInv DEF Guarded, AsRow
        <4>3. Follows(run[r])'
          BY <1>2, <2>2, <3>1, <3>4, <4>2 DEF Follows, AsRow, Apart, SameRow
        <4> QED BY <3>2, <4>1, <4>3
                DEF RunInv, Reads, Loops, Streams, Applies, Settles
      <3> QED BY <3>3, <3>4
    <2> QED BY <1>2, <2>1, <2>2
  <1> QED BY <1>1, <1>2, <1>3, <1>5, <1>6, <1>7, InvKept DEF Busy

\* A run ends where it stands, and leaves the row as it is.
LEMMA EndKeeps ==
    ASSUME Stepping, NEW r \in Runners, Busy(r), Others(r),
           run'[r].pc \in {"idle", "record"}, SameRow,
           UNCHANGED <<src, log, cat, fresh, skips, skipsMet>>,
           ~(Beginning /\ Listens(run[r]))
    PROVE  SyncInv'
  <1>1. SyncInv /\ OneAtATime /\ OneAtATime' /\ Typing'
    BY DEF Stepping
  <1>2. RowInv'
    BY <1>1, HasInv, RowKept
  <1>3. NoneEarly'
    BY <1>1, HasInv, BeginningSame, EarlyKept
  <1> QED BY <1>1, <1>2, <1>3, Rests, InvKept

LEMMA EndingKeeps ==
    ASSUME Stepping, ~EarlyStops, NEW r \in Runners,
           Record(r) \/ Cancel(r) \/ Crash(r) \/ Fail(r)
    PROVE  SyncInv'
  <1> USE DEF source, items, left
  <1>1. SyncInv /\ Types /\ RunInv(run[r])
    BY HasInv DEF Stepping
  <1>2. CASE Record(r)
    <2>1. Others(r) /\ run'[r].pc = "idle" /\ SameRow
      BY <1>1, <1>2, RecordDoes
    <2>2. run[r].pc = "record"
      BY <1>2 DEF Record, At
    <2>3. UNCHANGED <<src, log, cat, fresh, skips, skipsMet>>
      BY <1>2 DEF Record
    <2> QED BY <2>1, <2>2, <2>3, EndKeeps DEF Busy, Listens
  <1>3. CASE Cancel(r)
    <2>1. End(r, "ok") /\ run[r].aborted /\ run[r].pc \in {"stream", "stale"}
      BY <1>3 DEF Cancel
    <2>2. Others(r) /\ run'[r].pc = "record"
      BY <1>1, <2>1, EndDoes
    <2>3. /\ UNCHANGED <<src, log, cat, fresh, skips, skipsMet>>
          /\ SameRow
      BY <1>3 DEF Cancel, SameRow
    <2> QED BY <2>1, <2>2, <2>3, EndKeeps DEF Busy, Listens
  <1>4. CASE Crash(r)
    <2>1. Set(r, Idle) /\ MayBreakOff(r) /\ run[r].pc # "idle"
      BY <1>4 DEF Crash, At
    <2>2. Others(r) /\ run'[r].pc = "idle"
      BY <1>1, <2>1, IdleDoes
    <2>3. /\ UNCHANGED <<src, log, cat, fresh, skips, skipsMet>>
          /\ SameRow
      BY <1>4 DEF Crash, SameRow
    <2>4. ~(Beginning /\ Listens(run[r]))
      BY <1>1, <2>1, NotBrokenOff
    <2> QED BY <2>1, <2>2, <2>3, <2>4, EndKeeps DEF Busy
  <1>5. CASE Fail(r)
    <2>1. /\ \E status \in {"ok", "failed"} : End(r, status)
          /\ MayBreakOff(r) /\ run[r].pc # "idle"
      BY <1>5 DEF Fail
    <2>2. Others(r) /\ run'[r].pc = "record"
      BY <1>1, <2>1, EndDoes
    <2>3. /\ UNCHANGED <<src, log, cat, fresh, skips, skipsMet>>
          /\ SameRow
      BY <1>5 DEF Fail, SameRow
    <2>4. ~(Beginning /\ Listens(run[r]))
      BY <1>1, <2>1, NotBrokenOff
    <2> QED BY <2>1, <2>2, <2>3, <2>4, EndKeeps DEF Busy
  <1> QED BY <1>2, <1>3, <1>4, <1>5

\* A run goes on as it was, but for its signal.
LEMMA RunKept ==
    ASSUME NEW q \in Runners, RunInv(run[q]), SameRow,
           UNCHANGED <<src, log, mounted, cat, fresh, skips, skipsMet>>,
           LET s == run[q] w == run'[q] IN
              /\ w.pc = s.pc /\ w.phase = s.phase /\ w.token = s.token
              /\ w.from = s.from /\ w.left = s.left /\ w.cleared = s.cleared
              /\ w.reconciling = s.reconciling /\ w.counted = s.counted
              /\ w.batch = s.batch /\ w.last = s.last
              /\ w.item = s.item /\ w.rev = s.rev
              /\ \/ w.aborted = s.aborted \/ s.pc # "apply"
                 \/ s.phase # "crawl" \/ row.token.at # 0
    PROVE  RunInv(run[q])'
  <1> USE DEF SameRow
  <1>1. Stale' = Stale
    BY StaleSame
  <1>2. (AsRow(run[q]))' <=> AsRow(run[q])
    BY DEF AsRow
  <1>3. (Follows(run[q]))' <=> Follows(run[q])
    BY DEF Follows
  <1>4. Reads(run[q])'
    BY <1>2 DEF RunInv, Reads
  <1>5. Loops(run[q])'
    BY <1>2, <1>3 DEF RunInv, Loops
  <1>6. Applies(run[q])'
    BY DEF RunInv, Applies
  <1>7. Settles(run[q])'
    BY <1>1, <1>2 DEF RunInv, Settles
  <1>8. Streams(run[q])'
    <2> SUFFICES ASSUME run'[q].pc \in {"stream", "apply"}
                 PROVE  (Follows(run[q]) /\ After(run[q])
                           /\ CoversAll(run[q]) /\ MeetsAll(run[q]))'
      BY DEF Streams
    <2>1. /\ Follows(run[q]) /\ After(run[q])
          /\ CoversAll(run[q]) /\ MeetsAll(run[q])
      BY DEF RunInv, Streams
    <2>2. After(run[q])'
      BY <2>1 DEF After
    <2>3. CoversAll(run[q])'
      BY <2>1 DEF CoversAll, Excused, Pending, Covered, Told
    <2>4. MeetsAll(run[q])'
      BY <2>1 DEF MeetsAll, MetThere, MetAll, Pending
    <2> QED BY <1>3, <2>1, <2>2, <2>3, <2>4
  <1> QED BY <1>4, <1>5, <1>6, <1>7, <1>8 DEF RunInv

LEMMA ExpireKeeps ==
    ASSUME Stepping, ~EarlyStops, NEW r \in Runners, Expire(r)
    PROVE  SyncInv'
  <1>1. SyncInv /\ Types /\ Typing'
    BY HasInv DEF Stepping
  <1>2. /\ Others(r) /\ MayBreakOff(r)
        /\ LET s == run[r] w == run'[r] IN
              /\ w.pc = s.pc /\ w.phase = s.phase /\ w.token = s.token
              /\ w.from = s.from /\ w.left = s.left /\ w.cleared = s.cleared
              /\ w.reconciling = s.reconciling /\ w.counted = s.counted
              /\ w.batch = s.batch /\ w.last = s.last
              /\ w.item = s.item /\ w.rev = s.rev
    BY <1>1, ExpireDoes DEF Expire
  <1>3. /\ UNCHANGED <<src, log, mounted, cat, fresh, skips, skipsMet>>
        /\ SameRow
    BY DEF Expire, SameRow, source, items, left
  <1>4. RowInv'
    BY <1>1, <1>3, HasInv, RowKept
  <1>5. ~(Beginning /\ Listens(run[r]))
    BY <1>1, <1>2, HasInv, NotBrokenOff
  <1>6. NoneEarly'
    BY <1>1, <1>2, <1>3, <1>5, HasInv, BeginningSame, EarlyKept
  <1>7. ASSUME NEW q \in Runners PROVE RunInv(run[q])'
    <2>1. CASE q # r
      <3>1. run'[q] = run[q] /\ RunInv(run[q])
        BY <1>1, <1>2, <2>1, HasInv DEF Others
      <3> QED BY <1>3, <3>1, RunKept
    <2>2. CASE q = r /\ run[r].pc \in {"idle", "record"}
      BY <1>2, <2>2, Rests
    <2>3. CASE q = r /\ run[r].pc = "apply"
      <3>1. ~(row.phase = "crawl" /\ row.token.at = 0)
              \/ run[r].phase # "crawl"
        BY <1>2, <2>3 DEF MayBreakOff, Early
      <3>2. run[r].phase = row.phase /\ RunInv(run[r])
        BY <1>1, <2>3, HasInv DEF Streams, Follows
      <3>3. run[r].phase # "crawl" \/ row.token.at # 0
        BY <3>1, <3>2
      <3> QED BY <1>2, <1>3, <2>3, <3>2, <3>3, RunKept
    <2>4. CASE q = r /\ run[r].pc # "apply"
      <3> QED BY <1>1, <1>2, <1>3, <2>4, HasInv, RunKept
    <2> QED BY <2>1, <2>3, <2>4
  <1> QED BY <1>1, <1>4, <1>6, <1>7 DEF SyncInv

-----------------------------------------------------------------------------
(* A run's crawl or delta: how it starts and what comes next.               *)

\* A crawl begins anew: every item is ahead of it, and none was synced since.
LEMMA AnewInv ==
    ASSUME SyncInv, Typing', row'.phase = "crawl", row'.token = NoToken,
           row'.from = TRUE, row'.held = 0, row'.confirmed = 0, fresh' = {},
           UNCHANGED <<log, cat>>
    PROVE  RowInv' /\ NoneEarly'
  <1>1. NoToken.at = 0 /\ NoToken.pos = 0
    BY DEF NoToken
  <1>2. RowCovers'
    BY <1>1, ItemsAreNat DEF RowCovers, Covered
  <1>3. RowMeets'
    BY <1>1 DEF RowMeets
  <1>4. RowSane'
    <2>1. Len(log) \in Nat /\ RowSane
      BY HasInv, FieldTypes
    <2> QED BY <1>1, <2>1 DEF RowSane
  <1>5. Guarded'
    BY DEF Guarded
  <1>6. NoneEarly'
    BY DEF NoneEarly, Beginning
  <1> QED BY <1>2, <1>3, <1>4, <1>5, <1>6 DEF RowInv

LEMMA RestartKeeps ==
    ASSUME Stepping, NEW r \in Runners, NEW again \in BOOLEAN,
           Restart(r, again), run[r].pc \in {"loop", "stream"},
           UNCHANGED source
    PROVE  SyncInv'
  <1>1. SyncInv /\ OneAtATime /\ OneAtATime' /\ Typing' /\ Types
    BY HasInv DEF Stepping
  <1>2. /\ Others(r)
        /\ run'[r].pc = "loop" /\ run'[r].phase = "crawl"
        /\ run'[r].token = NoToken /\ run'[r].reconciling = TRUE
        /\ run'[r].left = {} /\ run'[r].cleared = {}
        /\ fresh' = {} /\ UNCHANGED cat
        /\ row'.phase = "crawl" /\ row'.token = NoToken /\ row'.from = TRUE
        /\ row'.held = row.held /\ row'.confirmed = row.confirmed
    BY <1>1, RestartDoes
  <1>3. row.held = 0 /\ row.confirmed = 0
    <2>1. Follows(run[r]) /\ Guarded
      BY <1>1, HasInv DEF Loops, Streams
    <2> QED BY <2>1 DEF Follows, Guarded
  <1>4. RowInv' /\ NoneEarly'
    BY <1>1, <1>2, <1>3, AnewInv DEF source
  <1>5. RunInv(run[r])'
    BY <1>2, <1>3 DEF RunInv, Reads, Loops, Streams, Applies, Settles,
                      AsRow, Follows
  <1> QED BY <1>1, <1>2, <1>4, <1>5, InvKept DEF Busy

LEMMA CrawlAgainKeeps ==
    ASSUME Stepping, NEW r \in Runners, CrawlAgain(r)
    PROVE  SyncInv'
  <1>1. run[r].resynced \in BOOLEAN
    BY HasInv DEF Stepping, Types, Runs
  <1> QED BY <1>1, RestartKeeps DEF CrawlAgain, At

LEMMA ResyncKeeps ==
    ASSUME Stepping, ~EarlyStops, NEW r \in Runners, Resync(r)
    PROVE  SyncInv'
  <1>1. SyncInv /\ Types /\ RunInv(run[r])
    BY HasInv DEF Stepping
  <1>2. run[r].pc \in {"loop", "stream"} /\ UNCHANGED source
    BY DEF Resync, At
  <1>3. CASE Restart(r, TRUE)
    BY <1>2, <1>3, RestartKeeps
  <1>4. CASE MayBreakOff(r) /\ End(r, "ok") /\ UNCHANGED <<items, left, row>>
    <2>1. Others(r) /\ run'[r].pc = "record"
      BY <1>1, <1>4, EndDoes
    <2>2. /\ UNCHANGED <<src, log, cat, fresh, skips, skipsMet>>
          /\ SameRow
      BY <1>2, <1>4 DEF SameRow, source, items, left
    <2>3. ~(Beginning /\ Listens(run[r]))
      BY <1>1, <1>4, NotBrokenOff
    <2> QED BY <1>2, <2>1, <2>2, <2>3, EndKeeps DEF Busy
  <1> QED BY <1>3, <1>4 DEF Resync

LEMMA StartStreamKeeps ==
    ASSUME Stepping, NEW r \in Runners, StartStream(r)
    PROVE  SyncInv'
  <1> DEFINE s == run[r]
             w == run'[r]
  <1>1. SyncInv /\ OneAtATime /\ OneAtATime' /\ Typing' /\ Types
    BY HasInv DEF Stepping
  <1>2. /\ Others(r) /\ w.pc = "stream" /\ w.phase = s.phase
        /\ Resumes(r) => w.token = s.token
        /\ ~Resumes(r) => /\ w.token.at = 0 /\ w.token.pos = Len(log)
                          /\ w.token.disk = mounted
        /\ w.left = s.left /\ w.cleared = s.cleared
        /\ w.reconciling = s.reconciling
    BY <1>1, StartStreamDoes
  <1>3. /\ s.pc = "loop" /\ ~Unusable(r)
        /\ UNCHANGED <<source, items, left, row>>
    BY DEF StartStream, At
  <1>4. /\ UNCHANGED <<src, log, mounted, cat, fresh, skips, skipsMet, row>>
        /\ SameRow
    BY <1>3 DEF SameRow, source, items, left
  <1>5. RowInv'
    BY <1>1, <1>4, HasInv, RowKept
  <1>6. NoneEarly'
    BY <1>1, <1>2, <1>3, <1>4, HasInv, BeginningSame, EarlyKept DEF Listens
  <1>7. AsRow(s) /\ Follows(s) /\ RowInv /\ RowCovers /\ RowMeets /\ RowSane
        /\ NoneEarly
    BY <1>1, <1>3, HasInv DEF Loops
  <1>8. /\ s.phase = row.phase /\ s.token = row.token
        /\ s.left = {} /\ s.cleared = {}
    BY <1>7 DEF AsRow
  <1>9. /\ row.phase \in {"crawl", "delta"}
        /\ row.token.at \in Nat /\ row.token.pos \in Nat /\ Len(log) \in Nat
        /\ Items \subseteq Nat /\ \A i \in Items : i > 0
        /\ row.token.pos <= Len(log)
        /\ row.phase = "delta" => row.token.at = 0
    BY <1>1, <1>7, FieldTypes, ItemsAreNat DEF RowSane
  <1>10. Follows(run[r])'
    BY <1>2, <1>4, <1>7 DEF Follows
  <1>11. CASE Resumes(r)
    <2>1. row.token.disk = mounted
      BY <1>3, <1>8, <1>11 DEF Unusable
    <2>2. After(run[r])'
      BY <1>2, <1>4, <1>8, <1>9, <1>11, <2>1 DEF After
    <2>3. CoversAll(run[r])'
      <3>1. ASSUME NEW i \in Items
            PROVE  (Excused \/ Covered(row.phase, row.token, Told, i))'
        BY <1>5 DEF RowInv, RowCovers
      <3> QED BY <1>2, <1>4, <1>8, <1>11, <3>1 DEF CoversAll, Covered
    <2>4. MeetsAll(run[r])'
      <3>1. row.phase = "delta" \/ row.token.at > 0
        BY <1>8, <1>9, <1>11 DEF Resumes
      <3> QED BY <1>2, <1>4, <1>7, <1>8, <1>11, <3>1
              DEF MeetsAll, RowMeets, MetThere, MetAll
    <2> QED BY <1>1, <1>2, <1>5, <1>6, <1>10, <2>2, <2>3, <2>4, <1>3, InvKept
            DEF RunInv, Reads, Loops, Streams, Applies, Settles, Busy
  <1>12. CASE ~Resumes(r)
    <2>1. row.phase = "crawl" /\ row.token.at = 0
      BY <1>8, <1>9, <1>12 DEF Resumes
    <2>2. After(run[r])'
      BY <1>2, <1>4, <1>8, <1>9, <1>12, <2>1 DEF After
    <2>3. CoversAll(run[r])'
      BY <1>2, <1>8, <1>9, <1>12, <2>1 DEF CoversAll, Covered
    <2>4. MeetsAll(run[r])'
      <3>1. \A q \in Runners : ~Listens(run[q])
        BY <1>1, <1>3 DEF OneAtATime, Busy, Listens
      <3>2. row.from => fresh = {}
        BY <1>7, <2>1, <3>1 DEF NoneEarly, Beginning
      <3>3. w.phase = "crawl" /\ w.token.at = 0
        BY <1>2, <1>8, <1>12, <2>1
      <3>4. \A i \in Items : ~(i <= 0)
        BY <1>9
      <3>5. row'.from = row.from /\ fresh' = fresh
        BY <1>4
      <3> QED BY <3>2, <3>3, <3>4, <3>5 DEF MeetsAll, MetThere, MetAll
    <2> QED BY <1>1, <1>2, <1>5, <1>6, <1>10, <2>2, <2>3, <2>4, <1>3, InvKept
            DEF RunInv, Reads, Loops, Streams, Applies, Settles, Busy
  <1> QED BY <1>11, <1>12

\* What a run's stream has told it so far.
LEMMA Streaming ==
    ASSUME SyncInv, NEW r \in Runners, run[r].pc \in {"stream", "apply"}
    PROVE  LET s == run[r] IN
           /\ Follows(s) /\ After(s) /\ CoversAll(s) /\ MeetsAll(s)
           /\ s.phase = row.phase /\ s.phase \in {"crawl", "delta"}
           /\ s.reconciling = (row.phase = "crawl" /\ row.from)
           /\ row.phase = "delta" => ~row.from
           /\ row.phase = "crawl" /\ ~row.from => row.deferred
           /\ row.held = 0 /\ row.confirmed = 0
           /\ s.token.disk = mounted /\ s.token.pos <= Len(log)
           /\ s.token.at \in Nat /\ s.token.pos \in Nat
           /\ row.token.at \in Nat /\ row.token.pos \in Nat
           /\ Len(log) \in Nat /\ Items \subseteq Nat
  <1>1. Types /\ Streams(run[r]) /\ Guarded /\ RowSane
    BY HasInv
  <1>2. /\ Follows(run[r]) /\ After(run[r])
        /\ CoversAll(run[r]) /\ MeetsAll(run[r])
    BY <1>1 DEF Streams
  <1> QED BY <1>1, <1>2, FieldTypes, ItemsAreNat
          DEF Follows, After, Guarded, RowSane

LEMMA ListItemKeeps ==
    ASSUME Stepping, NEW r \in Runners, ListItem(r)
    PROVE  SyncInv'
  <1> DEFINE s == run[r]
             w == run'[r]
  <1>1. SyncInv /\ OneAtATime /\ OneAtATime' /\ Typing' /\ Types
    BY HasInv DEF Stepping
  <1>2. /\ Others(r) /\ w.pc = "apply" /\ w.phase = s.phase
        /\ w.item \in Items /\ w.token.at = w.item
        /\ w.token.pos = s.token.pos /\ w.token.disk = s.token.disk
        /\ w.item \in ToList(r) /\ \A c \in ToList(r) : w.item <= c
        /\ w.rev = There(w.item, mounted)
        /\ w.left = s.left /\ w.cleared = s.cleared
        /\ w.reconciling = s.reconciling /\ w.aborted = s.aborted
    BY <1>1, ListItemDoes
  <1>3. /\ s.pc = "stream" /\ ~s.aborted /\ s.phase = "crawl"
        /\ UNCHANGED <<source, items, left, row>>
    BY DEF ListItem, Listening, At
  <1>4. /\ UNCHANGED <<src, log, mounted, cat, fresh, skips, skipsMet, row>>
        /\ SameRow
    BY <1>3 DEF SameRow, source, items, left
  <1>5. RowInv'
    BY <1>1, <1>4, HasInv, RowKept
  <1>6. NoneEarly'
    BY <1>1, <1>2, <1>3, <1>4, HasInv, BeginningSame, EarlyKept DEF Listens
  <1>7. /\ Follows(s) /\ After(s) /\ CoversAll(s) /\ MeetsAll(s)
        /\ s.phase = row.phase
        /\ row.phase = "crawl" /\ ~row.from => row.deferred
        /\ s.token.disk = mounted /\ s.token.pos <= Len(log)
        /\ s.token.at \in Nat /\ s.token.pos \in Nat
        /\ row.token.at \in Nat /\ Items \subseteq Nat
    BY <1>1, <1>3, Streaming
  <1>8. /\ s.token.at < w.item /\ w.item \in Nat
        /\ There(w.item, mounted) # 0
        /\ \A c \in Items : s.token.at < c /\ c < w.item
                              => Shown(src, mounted, c) = 0
    <2>1. w.item \in Nat /\ \A c \in ToList(r) : ~(c < w.item)
      <3>1. ToList(r) \subseteq Nat /\ w.item \in Nat
        BY <1>2, <1>7 DEF ToList
      <3> QED BY <1>2, <3>1
    <2>2. w.item > s.token.at /\ There(w.item, mounted) # 0
      BY <1>2 DEF ToList
    <2>3. s.token.at < w.item
      BY <1>7, <2>1, <2>2
    <2>4. ASSUME NEW c \in Items, s.token.at < c, c < w.item
          PROVE  Shown(src, mounted, c) = 0
      <3>1. c > s.token.at
        BY <1>7, <2>4
      <3>2. There(c, mounted) = 0
        BY <2>1, <2>4, <3>1 DEF ToList
      <3> QED BY <3>2 DEF There, Shown
    <2> QED BY <2>1, <2>2, <2>3, <2>4
  <1>9. Follows(run[r])'
    BY <1>2, <1>4, <1>7 DEF Follows
  <1>10. After(run[r])'
    <2>1. row.token.at <= s.token.at
      BY <1>3, <1>7 DEF After
    <2>2. row.token.at <= w.token.at
      BY <1>2, <1>7, <1>8, <2>1
    <2> QED BY <1>2, <1>3, <1>4, <1>7, <2>2 DEF After
  <1>11. CoversAll(run[r])'
    <2> SUFFICES ASSUME NEW i \in Items
                 PROVE  (\/ Excused \/ Pending(run[r], i)
                         \/ Covered(run[r].phase, run[r].token,
                              (Told \ run[r].cleared) \cup run[r].left, i))'
      BY DEF CoversAll
    <2>1. \/ Excused \/ Pending(s, i)
          \/ Covered(s.phase, s.token, (Told \ s.cleared) \cup s.left, i)
      BY <1>7 DEF CoversAll
    <2>2. CASE i = w.item
      BY <1>2, <2>2 DEF Pending
    <2>3. CASE i > w.item
      BY <1>2, <1>3, <2>3 DEF Covered
    <2>4. CASE i < w.item /\ s.token.at < i
      <3>1. Shown(src, mounted, i) = 0
        BY <1>8, <2>4
      <3>2. row.from \/ Excused
        BY <1>3, <1>7 DEF Excused
      <3> QED BY <1>2, <1>4, <1>7, <3>1, <3>2 DEF Covered, Excused
    <2>5. CASE i < w.item /\ ~(s.token.at < i)
      <3>1. ~(i > s.token.at)
        BY <1>7, <2>5
      <3> QED BY <1>2, <1>3, <1>4, <2>1, <3>1 DEF Covered, Excused, Pending,
                                                  Told
    <2> QED BY <1>2, <1>7, <2>2, <2>3, <2>4, <2>5
  <1>12. MeetsAll(run[r])'
    <2> SUFFICES ASSUME row.from, NEW i \in Items
                 PROVE  (/\ MetThere(run[r].token, i)
                         /\ Pending(run[r], i)
                              \/ MetAll(run[r].phase, run[r].token, i))'
      BY <1>4 DEF MeetsAll
    <2>1. /\ MetThere(s.token, i)
          /\ Pending(s, i) \/ MetAll(s.phase, s.token, i)
      BY <1>7 DEF MeetsAll
    <2>2. MetThere(run[r].token, i)'
      BY <1>2, <1>4, <2>1 DEF MetThere
    <2>3. CASE i = w.item
      BY <1>2, <2>2, <2>3 DEF Pending
    <2>4. CASE i > w.item
      <3>1. ~(i <= w.item)
        BY <1>2, <1>7, <2>4
      <3> QED BY <1>2, <1>3, <2>2, <3>1 DEF MetAll
    <2>5. CASE i < w.item /\ s.token.at < i
      BY <1>2, <1>4, <1>7, <1>8, <2>2, <2>5 DEF MetAll
    <2>6. CASE i < w.item /\ ~(s.token.at < i)
      <3>1. i <= s.token.at
        BY <1>7, <2>6
      <3> QED BY <1>2, <1>3, <1>4, <2>1, <2>2, <3>1 DEF MetAll, Pending
    <2> QED BY <1>2, <1>7, <2>3, <2>4, <2>5, <2>6
  <1>13. Applies(run[r])'
    <2>1. Shown(src, mounted, w.item) = w.rev /\ w.rev # 0
      BY <1>2, <1>8 DEF Shown, There
    <2>2. row.token.at <= s.token.at
      BY <1>3, <1>7 DEF After
    <2>3. row.token.at < w.item
      BY <1>2, <1>7, <1>8, <2>2
    <2> QED BY <1>2, <1>3, <1>4, <2>1, <2>3 DEF Applies
  <1> QED BY <1>1, <1>2, <1>3, <1>5, <1>6, <1>9, <1>10, <1>11, <1>12, <1>13,
             InvKept
          DEF RunInv, Reads, Loops, Streams, Settles, Busy

\* The change feed past a position, but for the change that comes next.
LEMMA AheadNext ==
    ASSUME NEW l, NEW p \in Nat, NEW n \in Nat, Len(l) = n, NEW i,
           AheadIn(l, p, i), l[p + 1] # i
    PROVE  AheadIn(l, p + 1, i)
  <1>1. PICK k \in p + 1 .. n : l[k] = i
    BY DEF AheadIn
  <1>2. k # p + 1
    BY <1>1
  <1>3. k \in (p + 1) + 1 .. n
    BY <1>2
  <1> QED BY <1>1, <1>3 DEF AheadIn

LEMMA DeltaEventKeeps ==
    ASSUME Stepping, NEW r \in Runners, DeltaEvent(r)
    PROVE  SyncInv'
  <1> DEFINE s == run[r]
             w == run'[r]
  <1>1. SyncInv /\ OneAtATime /\ OneAtATime' /\ Typing' /\ Types
    BY HasInv DEF Stepping
  <1>2. /\ Others(r) /\ w.pc = "apply" /\ w.phase = s.phase
        /\ w.token.at = s.token.at /\ w.token.disk = s.token.disk
        /\ w.token.pos = s.token.pos + 1 /\ w.token.pos <= Len(log)
        /\ w.item \in Items /\ w.item = log[w.token.pos]
        /\ w.rev = There(w.item, mounted)
        /\ w.left = s.left /\ w.cleared = s.cleared
        /\ w.reconciling = s.reconciling /\ w.aborted = s.aborted
    BY <1>1, DeltaEventDoes
  <1>3. /\ s.pc = "stream" /\ ~s.aborted /\ s.phase = "delta"
        /\ UNCHANGED <<source, items, left, row>>
    BY DEF DeltaEvent, Listening, At
  <1>4. /\ UNCHANGED <<src, log, mounted, cat, fresh, skips, skipsMet, row>>
        /\ SameRow
    BY <1>3 DEF SameRow, source, items, left
  <1>5. RowInv'
    BY <1>1, <1>4, HasInv, RowKept
  <1>6. NoneEarly'
    BY <1>1, <1>2, <1>3, <1>4, HasInv, BeginningSame, EarlyKept DEF Listens
  <1>7. /\ Follows(s) /\ After(s) /\ CoversAll(s)
        /\ s.phase = row.phase /\ ~row.from
        /\ s.token.disk = mounted
        /\ s.token.pos \in Nat /\ row.token.pos \in Nat /\ Len(log) \in Nat
    BY <1>1, <1>3, Streaming
  <1>8. Follows(run[r])'
    BY <1>2, <1>4, <1>7 DEF Follows
  <1>9. row.token.pos <= s.token.pos
    BY <1>3, <1>7 DEF After
  <1>10. row.token.pos < w.token.pos /\ row.token.pos <= w.token.pos
    BY <1>2, <1>7, <1>9
  <1>11. After(run[r])'
    BY <1>2, <1>3, <1>4, <1>7, <1>10 DEF After
  <1>12. CoversAll(run[r])'
    <2> SUFFICES ASSUME NEW i \in Items
                 PROVE  (\/ Excused \/ Pending(run[r], i)
                         \/ Covered(run[r].phase, run[r].token,
                              (Told \ run[r].cleared) \cup run[r].left, i))'
      BY DEF CoversAll
    <2>1. \/ Excused \/ Pending(s, i)
          \/ Covered(s.phase, s.token, (Told \ s.cleared) \cup s.left, i)
      BY <1>7 DEF CoversAll
    <2>2. CASE i = w.item
      BY <1>2, <2>2 DEF Pending
    <2>3. CASE i # w.item
      <3>1. AheadIn(log, s.token.pos, i) => AheadIn(log, w.token.pos, i)
        BY <1>2, <1>7, <2>3, AheadNext
      <3> QED BY <1>2, <1>3, <1>4, <2>1, <3>1
              DEF Covered, Excused, Pending, Told
    <2> QED BY <2>2, <2>3
  <1>13. MeetsAll(run[r])'
    BY <1>4, <1>7 DEF MeetsAll
  <1>14. Applies(run[r])'
    <2>1. Shown(src, mounted, w.item) = w.rev
      BY <1>2 DEF Shown, There
    <2> QED BY <1>2, <1>3, <1>4, <1>10, <2>1 DEF Applies
  <1> QED BY <1>1, <1>2, <1>3, <1>5, <1>6, <1>8, <1>11, <1>12, <1>13, <1>14,
             InvKept
          DEF RunInv, Reads, Loops, Streams, Settles, Busy

LEMMA UnreadableKeeps ==
    ASSUME Stepping, NEW r \in Runners, Unreadable(r)
    PROVE  SyncInv'
  <1> DEFINE s == run[r]
             w == run'[r]
  <1>1. SyncInv /\ OneAtATime /\ OneAtATime' /\ Typing' /\ Types
    BY HasInv DEF Stepping
  <1>2. /\ Others(r) /\ w.pc = s.pc /\ w.phase = s.phase
        /\ w.token.at \in Items /\ s.token.at < w.token.at
        /\ w.token.pos = s.token.pos /\ w.token.disk = s.token.disk
        /\ w.reconciling = FALSE /\ w.aborted = s.aborted
        /\ s.reconciling => row'.from = FALSE /\ row'.deferred = TRUE
        /\ ~s.reconciling => row' = row
        /\ row'.phase = row.phase /\ row'.token = row.token
        /\ row'.held = row.held /\ row'.confirmed = row.confirmed
    BY <1>1, UnreadableDoes
  <1>3. /\ s.pc = "stream" /\ s.phase = "crawl"
        /\ UNCHANGED <<source, items, left>>
    BY DEF Unreadable, Listening, At
  <1>4. UNCHANGED <<src, log, mounted, cat, fresh, skips, skipsMet>>
    BY <1>3 DEF source, items, left
  <1>5. /\ After(s) /\ s.phase = row.phase
        /\ s.reconciling = (row.phase = "crawl" /\ row.from)
        /\ row.phase = "crawl" /\ ~row.from => row.deferred
        /\ row.held = 0 /\ row.confirmed = 0
        /\ s.token.at \in Nat /\ row.token.at \in Nat /\ Items \subseteq Nat
    BY <1>1, <1>3, Streaming
  <1>6. row.from \in BOOLEAN
    BY <1>1, FieldTypes
  <1>7. /\ (row'.from = FALSE /\ row'.deferred = TRUE) \/ row' = row
        /\ ~row'.from /\ row'.deferred
    BY <1>2, <1>3, <1>5, <1>6
  <1>8. Excused'
    BY <1>7 DEF Excused
  <1>9. RowCovers'
    BY <1>8 DEF RowCovers
  <1>10. RowMeets'
    BY <1>7 DEF RowMeets
  <1>11. RowSane'
    BY <1>1, <1>2, <1>4, <1>7, HasInv DEF RowSane
  <1>12. Guarded'
    BY <1>2, <1>5 DEF Guarded
  <1>13. NoneEarly'
    BY <1>7 DEF NoneEarly, Beginning
  <1>14. Follows(run[r])'
    BY <1>2, <1>3, <1>5, <1>7 DEF Follows
  <1>15. After(run[r])'
    <2>1. row.token.at <= s.token.at
      BY <1>3, <1>5 DEF After
    <2>2. w.token.at \in Nat /\ s.token.at < w.token.at
      BY <1>2, <1>5
    <2>3. row.token.at <= w.token.at
      <3>1. \A x, y, z \in Nat : x <= y /\ y < z => x <= z
        OBVIOUS
      <3> QED BY <1>5, <2>1, <2>2, <3>1
    <2> QED BY <1>2, <1>3, <1>4, <1>5, <2>3 DEF After
  <1>16. CoversAll(run[r])'
    BY <1>8 DEF CoversAll
  <1>17. MeetsAll(run[r])'
    BY <1>7 DEF MeetsAll
  <1> QED BY <1>1, <1>2, <1>3, <1>9, <1>10, <1>11, <1>12, <1>13, <1>14, <1>15,
             <1>16, <1>17, InvKept
          DEF RowInv, RunInv, Reads, Loops, Streams, Applies, Settles, Busy

-----------------------------------------------------------------------------
(* What becomes of an event's item.                                         *)

\* The row's token is not past the event, and the item is as it was listed or
\* its change will be told.
LEMMA EventIsAhead ==
    ASSUME SyncInv, NEW r \in Runners, run[r].pc = "apply"
    PROVE  LET s == run[r] i == s.item IN
           /\ i \in Items
           /\ row.phase = "crawl" => /\ s.rev # 0 /\ row.token.at < i
                                     /\ row.token.at = 0 => ~s.aborted
           /\ row.phase = "delta" => AheadIn(log, row.token.pos, i)
           /\ \/ Shown(src, s.token.disk, i) = s.rev
              \/ AheadIn(log, s.token.pos, i)
           /\ row.phase = "crawl" /\ row.token.at > 0 =>
                \/ Shown(src, row.token.disk, i) = s.rev
                \/ AheadIn(log, row.token.pos, i)
  <1> DEFINE s == run[r]
             i == s.item
  <1>1. /\ After(s) /\ s.phase = row.phase
        /\ s.token.disk = mounted /\ s.token.pos <= Len(log)
        /\ s.token.pos \in Nat /\ row.token.pos \in Nat /\ Len(log) \in Nat
    BY Streaming
  <1>2. /\ i \in Items
        /\ Shown(src, mounted, i) = s.rev \/ AheadIn(log, s.token.pos, i)
        /\ s.phase = "crawl" => /\ s.rev # 0 /\ row.token.at < i
                                /\ row.token.at = 0 => ~s.aborted
        /\ s.phase = "delta" => /\ s.token.pos > row.token.pos
                                /\ log[s.token.pos] = i
    BY HasInv DEF Applies
  <1>3. ASSUME row.phase = "delta" PROVE AheadIn(log, row.token.pos, i)
    <2>1. s.token.pos > row.token.pos /\ log[s.token.pos] = i
      BY <1>1, <1>2, <1>3
    <2>2. s.token.pos \in row.token.pos + 1 .. Len(log)
      BY <1>1, <2>1
    <2> QED BY <2>1, <2>2 DEF AheadIn
  <1>4. ASSUME row.phase = "crawl", row.token.at > 0
        PROVE  s.token.pos = row.token.pos /\ s.token.disk = row.token.disk
    BY <1>1, <1>4 DEF After
  <1> QED BY <1>1, <1>2, <1>3, <1>4

\* The event's item is in the catalog as it was listed, or left out; and
\* what is not synced since the crawl began does not stand in it.
LEMMA AppliedKeeps ==
    ASSUME Stepping, NEW r \in Runners, run[r].pc = "apply",
           Others(r), Settling(run[r], run'[r]),
           UNCHANGED <<src, log, mounted, skips, skipsMet, row>>,
           \A j \in Items : j # run[r].item =>
              /\ cat'[j] = cat[j] /\ (j \in fresh' <=> j \in fresh)
              /\ j \in run'[r].left <=> j \in run[r].left
              /\ j \in run'[r].cleared <=> j \in run[r].cleared,
           LET i == run[r].item IN
              /\ cat'[i].live => cat'[i].rev # 0
              /\ i \in run'[r].left \/ Mirrored(cat'[i], run[r].rev)
              /\ row.from /\ cat'[i].live => i \in fresh',
           fresh' \subseteq Items
    PROVE  SyncInv'
  <1> DEFINE s == run[r]
             w == run'[r]
             i == s.item
  <1>1. SyncInv /\ OneAtATime /\ OneAtATime' /\ Typing' /\ Types
    BY HasInv DEF Stepping
  <1>2. /\ w.pc = "stream" /\ w.phase = s.phase /\ w.token = s.token
        /\ w.reconciling = s.reconciling /\ w.aborted = s.aborted
    BY DEF Settling
  <1>3. /\ Follows(s) /\ After(s) /\ CoversAll(s) /\ MeetsAll(s)
        /\ s.phase = row.phase /\ s.phase \in {"crawl", "delta"}
        /\ row.phase = "delta" => ~row.from
        /\ row.held = 0 /\ row.confirmed = 0
        /\ s.token.at \in Nat /\ s.token.pos \in Nat
        /\ row.token.at \in Nat /\ row.token.pos \in Nat
        /\ Len(log) \in Nat /\ Items \subseteq Nat
    BY <1>1, Streaming
  <1>4. /\ i \in Items
        /\ row.phase = "crawl" => /\ s.rev # 0 /\ row.token.at < i
                                  /\ row.token.at = 0 => ~s.aborted
        /\ row.phase = "delta" => AheadIn(log, row.token.pos, i)
        /\ \/ Shown(src, s.token.disk, i) = s.rev
           \/ AheadIn(log, s.token.pos, i)
        /\ row.phase = "crawl" /\ row.token.at > 0 =>
             \/ Shown(src, row.token.disk, i) = s.rev
             \/ AheadIn(log, row.token.pos, i)
    BY <1>1, EventIsAhead
  <1>5. RowCovers /\ RowMeets /\ RowSane /\ NoneEarly
    BY <1>1, HasInv
  <1>6. RowCovers'
    <2> SUFFICES ASSUME NEW j \in Items
                 PROVE  (Excused \/ Covered(row.phase, row.token, Told, j))'
      BY DEF RowCovers
    <2>1. CASE j = i
      <3>1. row.phase = "crawl" => i > row.token.at
        BY <1>3, <1>4
      <3> QED BY <1>3, <1>4, <2>1, <3>1 DEF Covered
    <2>2. CASE j # i
      <3>1. cat'[j] = cat[j]
        BY <2>2
      <3> QED BY <1>5, <3>1 DEF RowCovers, Excused, Covered, Told
    <2> QED BY <2>1, <2>2
  <1>7. RowMeets'
    <2> SUFFICES ASSUME row.from, row.phase = "delta" \/ row.token.at > 0,
                        NEW j \in Items
                 PROVE  (/\ MetThere(row.token, j)
                         /\ MetAll(row.phase, row.token, j))'
      BY DEF RowMeets
    <2>1. row.phase = "crawl" /\ row.token.at > 0
      BY <1>3
    <2>2. CASE j = i
      BY <1>4, <2>1, <2>2 DEF MetThere, MetAll
    <2>3. CASE j # i
      <3>1. cat'[j] = cat[j] /\ (j \in fresh' <=> j \in fresh)
        BY <2>3
      <3> QED BY <1>5, <3>1 DEF RowMeets, MetThere, MetAll
    <2> QED BY <2>2, <2>3
  <1>8. RowSane'
    <2>1. ASSUME NEW j \in Items PROVE (cat[j].live => cat[j].rev # 0)'
      BY <1>5 DEF RowSane
    <2> QED BY <1>5, <2>1 DEF RowSane
  <1>9. Guarded'
    BY <1>3 DEF Guarded
  <1>10. NoneEarly'
    <2> SUFFICES ASSUME Beginning' PROVE Listens(run'[r])
      BY DEF NoneEarly
    <2> QED BY <1>2, <1>4 DEF Beginning, Listens
  <1>11. Follows(run[r])' /\ After(run[r])'
    BY <1>2, <1>3 DEF Follows, After
  <1>12. CoversAll(run[r])'
    <2> SUFFICES ASSUME NEW j \in Items
                 PROVE  (\/ Excused \/ Pending(run[r], j)
                         \/ Covered(run[r].phase, run[r].token,
                              (Told \ run[r].cleared) \cup run[r].left, j))'
      BY DEF CoversAll
    <2>1. CASE j = i
      BY <1>2, <1>4, <2>1 DEF Covered
    <2>2. CASE j # i
      <3>1. /\ cat'[j] = cat[j]
            /\ j \in run'[r].left <=> j \in run[r].left
            /\ j \in run'[r].cleared <=> j \in run[r].cleared
        BY <2>2
      <3>2. \/ Excused
            \/ Covered(s.phase, s.token, (Told \ s.cleared) \cup s.left, j)
        BY <1>3, <2>2 DEF CoversAll, Pending
      <3> QED BY <1>2, <3>1, <3>2 DEF Covered, Excused, Told
    <2> QED BY <2>1, <2>2
  <1>13. MeetsAll(run[r])'
    <2> SUFFICES ASSUME row.from, NEW j \in Items
                 PROVE  (/\ MetThere(run[r].token, j)
                         /\ MetAll(run[r].phase, run[r].token, j))'
      BY DEF MeetsAll
    <2>1. CASE j = i
      BY <1>2, <1>3, <1>4, <2>1 DEF MetThere, MetAll
    <2>2. CASE j # i
      <3>1. cat'[j] = cat[j] /\ (j \in fresh' <=> j \in fresh)
        BY <2>2
      <3>2. MetThere(s.token, j) /\ MetAll(s.phase, s.token, j)
        BY <1>3, <2>2 DEF MeetsAll, Pending
      <3> QED BY <1>2, <3>1, <3>2 DEF MetThere, MetAll
    <2> QED BY <2>1, <2>2
  <1> QED BY <1>1, <1>2, <1>6, <1>7, <1>8, <1>9, <1>10, <1>11, <1>12, <1>13,
             InvKept
          DEF RowInv, RunInv, Reads, Loops, Streams, Applies, Settles, Busy

LEMMA ApplyKeeps ==
    ASSUME Stepping, NEW r \in Runners, Apply(r)
    PROVE  SyncInv'
  <1> DEFINE s == run[r]
             w == run'[r]
             i == s.item
  <1>1. SyncInv /\ OneAtATime /\ OneAtATime' /\ Typing' /\ Types
    BY HasInv DEF Stepping
  <1>2. s.pc = "apply"
    BY DEF Apply, SkipUnchanged, RecordItem, SkipItem, DeleteItem, At
  <1>3. /\ s.reconciling = (row.phase = "crawl" /\ row.from)
        /\ row.phase = "delta" => ~row.from
        /\ row.phase \in {"crawl", "delta"} /\ row.from \in BOOLEAN
    BY <1>1, <1>2, Streaming, FieldTypes
  <1>4. /\ i \in Items
        /\ row.phase = "crawl" => s.rev # 0
    BY <1>1, <1>2, EventIsAhead
  <1>5. /\ \A j \in Items : cat[j].live => cat[j].rev # 0
        /\ cat \in [Items -> Cats]
    BY <1>1, HasInv DEF RowSane, Types
  <1>6. fresh' \subseteq Items
    BY <1>1 DEF Typing, Types
  <1>7. ASSUME Cleared(r, i)
        PROVE  /\ Others(r) /\ Settling(s, w)
               /\ w.left = s.left \ {i} /\ w.cleared = s.cleared \cup {i}
    BY <1>1, <1>4, <1>7, ClearedDoes
  <1>8. CASE SkipUnchanged(r)
    <2>1. /\ Cleared(r, i) /\ cat[i].live /\ cat[i].rev = s.rev
          /\ s.rev # 0 /\ ~s.reconciling
          /\ UNCHANGED <<src, log, mounted, cat, fresh, skips, skipsMet, row>>
      BY <1>8 DEF SkipUnchanged, Unchanged, source, items, left
    <2>2. /\ Others(r) /\ Settling(s, w)
          /\ w.left = s.left \ {i} /\ w.cleared = s.cleared \cup {i}
      BY <1>7, <2>1
    <2>3. Mirrored(cat'[i], s.rev)
      BY <2>1 DEF Mirrored
    <2>4. ~row.from
      BY <1>3, <2>1
    <2>5. cat'[i].live => cat'[i].rev # 0
      BY <2>1
    <2> QED BY <1>2, <1>6, <2>1, <2>2, <2>3, <2>4, <2>5, AppliedKeeps
  <1>9. CASE RecordItem(r)
    <2>1. /\ Cleared(r, i) /\ s.rev # 0
          /\ cat' = [cat EXCEPT ![i] = [rev |-> s.rev, live |-> TRUE]]
          /\ fresh' = fresh \cup {i}
          /\ UNCHANGED <<src, log, mounted, skips, skipsMet, row>>
      BY <1>9 DEF RecordItem, source, left
    <2>2. /\ Others(r) /\ Settling(s, w)
          /\ w.left = s.left \ {i} /\ w.cleared = s.cleared \cup {i}
      BY <1>7, <2>1
    <2>3. /\ cat'[i] = [rev |-> s.rev, live |-> TRUE]
          /\ \A j \in Items : j # i => cat'[j] = cat[j]
      BY <1>4, <1>5, <2>1
    <2>4. Mirrored(cat'[i], s.rev) /\ cat'[i].rev # 0
      BY <2>1, <2>3 DEF Mirrored
    <2> QED BY <1>2, <1>6, <2>1, <2>2, <2>3, <2>4, AppliedKeeps
  <1>10. CASE SkipItem(r)
    <2>1. /\ LeftOut(r, i)
          /\ fresh' = IF s.reconciling /\ cat[i].rev # 0
                        THEN fresh \cup {i} ELSE fresh
          /\ UNCHANGED <<src, log, mounted, cat, skips, skipsMet, row>>
      BY <1>10 DEF SkipItem, source, left
    <2>2. /\ Others(r) /\ Settling(s, w)
          /\ w.left = s.left \cup {i} /\ w.cleared = s.cleared \ {i}
      BY <1>1, <1>4, <2>1, LeftOutDoes
    <2>3. row.from /\ cat'[i].live => i \in fresh'
      BY <1>3, <1>4, <1>5, <2>1
    <2>4. cat'[i].live => cat'[i].rev # 0
      BY <1>4, <1>5, <2>1
    <2> QED BY <1>2, <1>6, <2>1, <2>2, <2>3, <2>4, AppliedKeeps
  <1>11. CASE DeleteItem(r)
    <2>1. /\ Cleared(r, i) /\ s.rev = 0
          /\ cat' = [cat EXCEPT ![i].live = FALSE]
          /\ UNCHANGED <<src, log, mounted, fresh, skips, skipsMet, row>>
      BY <1>11 DEF DeleteItem, removeFromSource, source, left
    <2>2. /\ Others(r) /\ Settling(s, w)
          /\ w.left = s.left \ {i} /\ w.cleared = s.cleared \cup {i}
      BY <1>7, <2>1
    <2>3. /\ ~cat'[i].live
          /\ \A j \in Items : j # i => cat'[j] = cat[j]
      <3>1. cat[i] \in Cats
        BY <1>4, <1>5
      <3>2. cat'[i] = [cat[i] EXCEPT !.live = FALSE]
        BY <1>4, <1>5, <2>1
      <3>3. ~cat'[i].live
        BY <3>1, <3>2 DEF Cats
      <3> QED BY <1>4, <1>5, <2>1, <3>3
    <2>4. Mirrored(cat'[i], s.rev)
      BY <2>1, <2>3 DEF Mirrored
    <2> QED BY <1>2, <1>6, <2>1, <2>2, <2>3, <2>4, AppliedKeeps
  <1> QED BY <1>8, <1>9, <1>10, <1>11 DEF Apply

-----------------------------------------------------------------------------
(* A run saves how far it came.                                             *)

\* The row takes over the token of a run that has nothing pending, or one
\* that covers as much.
LEMMA SavedInv ==
    ASSUME SyncInv, Typing', NEW r \in Runners, run[r].pc = "stream",
           NEW phase \in {"crawl", "delta"}, NEW T \in Tokens,
           Save(r, phase, T), UNCHANGED <<src, log, mounted, cat, fresh>>,
           T.pos = run[r].token.pos, T.disk = run[r].token.disk,
           phase = "crawl" => T = run[r].token /\ T.at > 0,
           phase = "crawl" => row.phase = "crawl",
           phase = "delta" => T.at = 0,
           phase = "delta" /\ run[r].phase = "crawl" =>
              \A i \in Items : i > run[r].token.at
                                 => Shown(src, T.disk, i) = 0
    PROVE  RowInv' /\ NoneEarly'
  <1> DEFINE s == run[r]
  <1>1. /\ CoversAll(s) /\ MeetsAll(s)
        /\ s.phase = row.phase /\ s.phase \in {"crawl", "delta"}
        /\ row.phase = "crawl" /\ ~row.from => row.deferred
        /\ row.phase = "delta" => ~row.from
        /\ row.held = 0 /\ row.confirmed = 0
        /\ s.token.pos <= Len(log) /\ s.token.at \in Nat
        /\ Items \subseteq Nat
    BY Streaming
  <1>2. Types /\ RowSane
    BY HasInv
  <1>3. /\ row'.phase = phase /\ row'.token = T
        /\ row'.from = row.from /\ row'.deferred = row.deferred
        /\ row'.held = row.held /\ row'.confirmed = row.confirmed
        /\ skips' = (skips \ run[r].cleared) \cup run[r].left
        /\ skipsMet' = (skipsMet \ run[r].cleared) \cup run[r].left
    BY <1>2, SaveDoes
  <1>4. Told' = (Told \ s.cleared) \cup s.left
    BY <1>3 DEF Told
  <1>5. RowCovers'
    <2> SUFFICES ASSUME NEW i \in Items
                 PROVE  (Excused \/ Covered(row.phase, row.token, Told, i))'
      BY DEF RowCovers
    <2>1. \/ Excused
          \/ Covered(s.phase, s.token, (Told \ s.cleared) \cup s.left, i)
      BY <1>1 DEF CoversAll, Pending
    <2>2. CASE Excused
      BY <1>3, <2>2 DEF Excused
    <2>3. CASE s.phase = "crawl" /\ i > s.token.at
      <3>1. CASE phase = "crawl"
        BY <1>3, <2>3, <3>1 DEF Covered
      <3>2. CASE phase = "delta"
        <4>1. Shown(src, T.disk, i) = 0
          BY <2>3, <3>2
        <4>2. row.from \/ Excused
          BY <1>1, <2>3 DEF Excused
        <4> QED BY <1>3, <4>1, <4>2 DEF Covered, Excused
      <3> QED BY <3>1, <3>2
    <2>4. CASE ~Excused /\ ~(s.phase = "crawl" /\ i > s.token.at)
      BY <1>3, <1>4, <2>1, <2>4 DEF Covered
    <2> QED BY <2>2, <2>3, <2>4
  <1>6. RowMeets'
    <2> SUFFICES ASSUME row.from, NEW i \in Items
                 PROVE  (/\ MetThere(row.token, i)
                         /\ MetAll(row.phase, row.token, i))'
      BY <1>3 DEF RowMeets
    <2>1. MetThere(s.token, i) /\ MetAll(s.phase, s.token, i)
      BY <1>1 DEF MeetsAll, Pending
    <2>2. MetThere(row.token, i)'
      BY <1>3, <2>1 DEF MetThere
    <2>3. CASE phase = "crawl"
      BY <1>1, <1>3, <2>1, <2>2, <2>3 DEF MetAll
    <2>4. CASE phase = "delta" /\ i <= s.token.at
      BY <1>1, <1>3, <2>1, <2>2, <2>4 DEF MetAll
    <2>5. CASE phase = "delta" /\ i > s.token.at
      <3>1. s.phase = "crawl"
        BY <1>1
      <3>2. Shown(src, T.disk, i) = 0
        BY <2>5, <3>1
      <3> QED BY <1>3, <2>2, <3>2 DEF MetAll
    <2> QED BY <1>1, <2>3, <2>4, <2>5
  <1>7. RowSane'
    BY <1>1, <1>2, <1>3 DEF RowSane
  <1>8. Guarded'
    BY <1>1, <1>3 DEF Guarded
  <1>9. NoneEarly'
    <2>1. ~Beginning'
      BY <1>3 DEF Beginning
    <2> QED BY <2>1 DEF NoneEarly
  <1> QED BY <1>5, <1>6, <1>7, <1>8, <1>9 DEF RowInv

LEMMA CheckpointKeeps ==
    ASSUME Stepping, NEW r \in Runners, Checkpoint(r)
    PROVE  SyncInv'
  <1> DEFINE s == run[r]
             w == run'[r]
  <1>1. SyncInv /\ OneAtATime /\ OneAtATime' /\ Typing' /\ Types
    BY HasInv DEF Stepping
  <1>2. /\ Others(r)
        /\ w.pc \in {"stream", "record"} /\ w.phase = s.phase
        /\ w.token = s.token /\ w.left = {} /\ w.cleared = {}
        /\ w.reconciling = s.reconciling
        /\ s.token \in Tokens /\ s.phase \in {"crawl", "delta"}
        /\ Save(r, s.phase, s.token)
    BY <1>1, CheckpointDoes
  <1>3. /\ s.pc = "stream"
        /\ s.phase = "crawl" => s.token.at > 0
        /\ UNCHANGED <<src, log, mounted, cat, fresh>>
    BY DEF Checkpoint, Listening, At, source, items
  <1>4. /\ After(s) /\ s.phase = row.phase
        /\ s.reconciling = (row.phase = "crawl" /\ row.from)
        /\ row.phase = "delta" => ~row.from
        /\ row.held = 0
        /\ s.token.disk = mounted /\ s.token.pos <= Len(log)
        /\ s.token.at \in Nat /\ s.token.pos \in Nat /\ Len(log) \in Nat
    BY <1>1, <1>3, Streaming
  <1>5. /\ row'.phase = s.phase /\ row'.token = s.token
        /\ row'.from = row.from /\ row'.deferred = row.deferred
        /\ row'.held = row.held
    BY <1>1, <1>2, SaveDoes
  <1>6. s.phase = "delta" => s.token.at = 0
    BY <1>4 DEF After
  <1>7. RowInv' /\ NoneEarly'
    BY <1>1, <1>2, <1>3, <1>4, <1>6, SavedInv
  <1>8. CASE w.pc = "record"
    BY <1>1, <1>2, <1>3, <1>7, <1>8, Rests, InvKept DEF Busy
  <1>9. CASE w.pc = "stream"
    <2>1. Follows(run[r])'
      BY <1>2, <1>4, <1>5 DEF Follows
    <2>2. After(run[r])'
      BY <1>2, <1>3, <1>4, <1>5, <1>6 DEF After
    <2>3. CoversAll(run[r])'
      <3>1. ASSUME NEW i \in Items
            PROVE  (Excused \/ Covered(row.phase, row.token, Told, i))'
        BY <1>7 DEF RowInv, RowCovers
      <3> QED BY <1>2, <1>5, <3>1 DEF CoversAll, Covered
    <2>4. MeetsAll(run[r])'
      <3>1. row'.phase = "delta" \/ row'.token.at > 0
        BY <1>2, <1>3, <1>5
      <3> QED BY <1>2, <1>5, <1>7, <3>1 DEF MeetsAll, RowInv, RowMeets,
                                            MetThere, MetAll
    <2> QED BY <1>1, <1>2, <1>3, <1>7, <1>9, <2>1, <2>2, <2>3, <2>4, InvKept
            DEF RunInv, Reads, Loops, Streams, Applies, Settles, Busy
  <1> QED BY <1>2, <1>8, <1>9

LEMMA DoneKeeps ==
    ASSUME Stepping, NEW r \in Runners, Done(r)
    PROVE  SyncInv'
  <1> DEFINE s == run[r]
             w == run'[r]
  <1>1. SyncInv /\ OneAtATime /\ OneAtATime' /\ Typing' /\ Types
    BY HasInv DEF Stepping
  <1>2. PICK T \in Tokens :
        /\ Others(r)
        /\ w.pc = IF s.reconciling THEN "count" ELSE "record"
        /\ w.last = TRUE
        /\ T.at = 0 /\ T.pos = s.token.pos
        /\ T.disk = s.token.disk
        /\ Save(r, "delta", T)
    BY <1>1, DoneDoes
  <1>3. /\ s.pc = "stream"
        /\ s.phase = "crawl" => ToList(r) = {}
        /\ UNCHANGED <<src, log, mounted, cat, fresh>>
    BY DEF Done, Listening, At, source, items
  <1>4. /\ s.reconciling = (row.phase = "crawl" /\ row.from)
        /\ s.token.disk = mounted
    BY <1>1, <1>3, Streaming
  <1>5. ASSUME s.phase = "crawl", NEW i \in Items, i > s.token.at
        PROVE  Shown(src, T.disk, i) = 0
    <2>1. There(i, mounted) = 0
      BY <1>3, <1>5 DEF ToList
    <2> QED BY <1>2, <1>4, <2>1 DEF There, Shown
  <1>6. RowInv' /\ NoneEarly'
    BY <1>1, <1>2, <1>3, <1>5, SavedInv
  <1>7. /\ row'.phase = "delta" /\ row'.from = row.from
    BY <1>1, <1>2, SaveDoes
  <1>8. CASE s.reconciling
    <2>1. w.pc = "count" /\ row'.from
      BY <1>2, <1>4, <1>7, <1>8
    <2>2. RunInv(run[r])'
      BY <1>2, <1>7, <2>1
         DEF RunInv, Reads, Loops, Streams, Applies, Settles
    <2> QED BY <1>1, <1>2, <1>3, <1>6, <2>2, InvKept DEF Busy
  <1>9. CASE ~s.reconciling
    BY <1>1, <1>2, <1>3, <1>6, <1>9, Rests, InvKept DEF Busy
  <1> QED BY <1>8, <1>9

-----------------------------------------------------------------------------
(* The reconcile.                                                           *)

LEMMA Reconciling ==
    ASSUME SyncInv, NEW r \in Runners,
           run[r].pc \in {"count", "hold", "stale", "remove", "finish"}
    PROVE  /\ row.phase = "delta" /\ row.from /\ ~Beginning /\ ~Excused
           /\ ~run[r].last => AsRow(run[r])
           /\ run[r].pc # "count" => Stale \subseteq run[r].counted
           /\ Stale = Live \ fresh
  BY HasInv DEF Settles, Beginning, Excused, Stale

LEMMA CountKeeps ==
    ASSUME Stepping, NEW r \in Runners, Count(r)
    PROVE  SyncInv'
  <1> DEFINE s == run[r]
             w == run'[r]
  <1>1. SyncInv /\ OneAtATime /\ OneAtATime' /\ Typing' /\ Types
    BY HasInv DEF Stepping
  <1>2. /\ Others(r)
        /\ w.pc = IF Held(Cardinality(Stale)) THEN "hold" ELSE "stale"
        /\ w.counted = Stale /\ w.last = s.last
        /\ w.phase = s.phase /\ w.token = s.token
        /\ w.left = s.left /\ w.cleared = s.cleared
    BY <1>1, CountDoes
  <1>3. /\ s.pc = "count" /\ SameRow
        /\ UNCHANGED <<src, log, cat, fresh, skips, skipsMet, row>>
    BY DEF Count, At, SameRow, source, items, left
  <1>4. RowInv'
    BY <1>1, <1>3, HasInv, RowKept
  <1>5. /\ row.phase = "delta" /\ row.from /\ ~Beginning
        /\ ~s.last => AsRow(s)
    BY <1>1, <1>3, Reconciling
  <1>6. NoneEarly'
    BY <1>1, <1>2, <1>3, <1>5, HasInv, BeginningSame, EarlyKept
  <1>7. Stale' = Stale
    BY <1>3, StaleSame
  <1>8. Held(Cardinality(Stale)) => row.confirmed = 0
    BY <1>1, HasInv DEF Held, Guarded
  <1>9. RunInv(run[r])'
    BY <1>2, <1>3, <1>5, <1>7, <1>8
       DEF RunInv, Reads, Loops, Streams, Applies, Settles, AsRow
  <1> QED BY <1>1, <1>2, <1>3, <1>4, <1>6, <1>9, InvKept DEF Busy

LEMMA HoldKeeps ==
    ASSUME Stepping, NEW r \in Runners, Hold(r)
    PROVE  SyncInv'
  <1> DEFINE s == run[r]
  <1>1. SyncInv /\ OneAtATime /\ OneAtATime' /\ Typing' /\ Types
    BY HasInv DEF Stepping
  <1>2. /\ Others(r) /\ run'[r].pc = "record"
        /\ row'.held = Cardinality(s.counted)
        /\ row'.phase = row.phase /\ row'.token = row.token
        /\ row'.from = row.from /\ row'.deferred = row.deferred
        /\ row'.confirmed = row.confirmed
    BY <1>1, HoldDoes
  <1>3. /\ s.pc = "hold"
        /\ UNCHANGED <<src, log, cat, fresh, skips, skipsMet>>
    BY DEF Hold, At, source, items, left
  <1>4. /\ row.phase = "delta" /\ row.from /\ Stale \subseteq s.counted
        /\ row.confirmed = 0
    BY <1>1, <1>3, Reconciling, HasInv DEF Settles
  <1>5. RowCovers'
    BY <1>1, <1>2, <1>3, HasInv DEF RowCovers, Excused, Covered, Told
  <1>6. RowMeets'
    BY <1>1, <1>2, <1>3, HasInv DEF RowMeets, MetThere, MetAll
  <1>7. RowSane'
    BY <1>1, <1>2, <1>3, HasInv DEF RowSane
  <1>8. Guarded'
    <2>1. s.counted \in SUBSET Items
      BY <1>1 DEF Types, Runs
    <2>2. Cardinality(Stale) <= Cardinality(s.counted)
      BY <1>4, <2>1, ItemsFinite
    <2>3. Stale' = Stale
      BY <1>2, <1>3, StaleSame
    <2> QED BY <1>2, <1>4, <2>2, <2>3 DEF Guarded
  <1>9. NoneEarly'
    BY <1>2, <1>4 DEF NoneEarly, Beginning
  <1> QED BY <1>1, <1>2, <1>3, <1>5, <1>6, <1>7, <1>8, <1>9, Rests, InvKept
          DEF RowInv, Busy

LEMMA ReadStaleKeeps ==
    ASSUME Stepping, NEW r \in Runners, ReadStale(r)
    PROVE  SyncInv'
  <1> DEFINE s == run[r]
             w == run'[r]
  <1>1. SyncInv /\ OneAtATime /\ OneAtATime' /\ Typing' /\ Types
    BY HasInv DEF Stepping
  <1>2. /\ Others(r)
        /\ w.pc = IF Stale = {} THEN "finish" ELSE "remove"
        /\ w.batch \subseteq Stale
        /\ Stale # {} => w.batch # {}
        /\ w.counted = s.counted /\ w.last = s.last
        /\ w.phase = s.phase /\ w.token = s.token
        /\ w.left = s.left /\ w.cleared = s.cleared
    BY <1>1, ReadStaleDoes
  <1>3. /\ s.pc = "stale" /\ SameRow
        /\ UNCHANGED <<src, log, cat, fresh, skips, skipsMet, row>>
    BY DEF ReadStale, At, SameRow, source, items, left
  <1>4. RowInv'
    BY <1>1, <1>3, HasInv, RowKept
  <1>5. /\ row.phase = "delta" /\ row.from /\ ~Beginning
        /\ ~s.last => AsRow(s)
        /\ Stale \subseteq s.counted
    BY <1>1, <1>3, Reconciling
  <1>6. NoneEarly'
    BY <1>1, <1>2, <1>3, <1>5, HasInv, BeginningSame, EarlyKept
  <1>7. Stale' = Stale
    BY <1>3, StaleSame
  <1>8. RunInv(run[r])'
    BY <1>2, <1>3, <1>5, <1>7
       DEF RunInv, Reads, Loops, Streams, Applies, Settles, AsRow
  <1> QED BY <1>1, <1>2, <1>3, <1>4, <1>6, <1>8, InvKept DEF Busy

LEMMA RemoveStaleKeeps ==
    ASSUME Stepping, NEW r \in Runners, RemoveStale(r)
    PROVE  SyncInv'
  <1> DEFINE s == run[r]
             w == run'[r]
             i == Min(s.batch)
  <1>1. SyncInv /\ OneAtATime /\ OneAtATime' /\ Typing' /\ Types
    BY HasInv DEF Stepping
  <1>2. /\ Others(r)
        /\ w.pc = IF s.batch = {i} THEN "stale" ELSE "remove"
        /\ w.batch = s.batch \ {i}
        /\ w.counted = s.counted /\ w.last = s.last
        /\ w.phase = s.phase /\ w.token = s.token
        /\ w.left = s.left /\ w.cleared = s.cleared
        /\ cat' = [cat EXCEPT ![i].live = FALSE]
        /\ s.batch # {} => i \in s.batch
    BY <1>1, RemoveStaleDoes
  <1>3. /\ s.pc = "remove" /\ SameRow
        /\ UNCHANGED <<src, log, fresh, skips, skipsMet, row>>
    BY DEF RemoveStale, At, SameRow, source, left
  <1>4. /\ row.phase = "delta" /\ row.from /\ ~Beginning /\ ~Excused
        /\ ~s.last => AsRow(s)
        /\ Stale \subseteq s.counted
        /\ Stale = Live \ fresh
    BY <1>1, <1>3, Reconciling
  <1>5. s.batch \subseteq Stale /\ s.batch # {}
    BY <1>1, <1>3, HasInv DEF Settles
  <1>6. i \in Stale /\ i \in Items /\ cat[i].live /\ i \notin fresh
    BY <1>2, <1>4, <1>5 DEF Live
  <1>7. /\ ~cat'[i].live
        /\ \A j \in Items : j # i => cat'[j] = cat[j]
    <2>1. cat \in [Items -> Cats] /\ cat[i] \in Cats
      BY <1>1, <1>6 DEF Types
    <2> HIDE DEF i
    <2>2. cat'[i] = [cat[i] EXCEPT !.live = FALSE]
      BY <1>2, <1>6, <2>1
    <2>3. ~cat'[i].live
      BY <2>1, <2>2 DEF Cats
    <2> QED BY <1>2, <1>6, <2>1, <2>3
  <1> HIDE DEF i
  <1>8. Stale' = Stale \ {i}
    <2>1. Live' = Live \ {i}
      BY <1>7 DEF Live
    <2> QED BY <1>3, <1>4, <2>1 DEF Stale
  <1>9. RowCovers /\ RowMeets /\ RowSane /\ Guarded
    BY <1>1, HasInv
  <1>10. RowCovers'
    <2> SUFFICES ASSUME NEW j \in Items
                 PROVE  (Excused \/ Covered(row.phase, row.token, Told, j))'
      BY DEF RowCovers
    <2>1. CASE j = i
      <3>1. \/ Shown(src, row.token.disk, i) = 0
            \/ AheadIn(log, row.token.pos, i)
        BY <1>4, <1>6, <1>9 DEF RowMeets, MetAll
      <3> QED BY <1>3, <1>4, <2>1, <3>1 DEF Covered
    <2>2. CASE j # i
      <3>1. cat'[j] = cat[j]
        BY <1>7, <2>2
      <3> QED BY <1>3, <1>9, <3>1 DEF RowCovers, Excused, Covered, Told
    <2> QED BY <2>1, <2>2
  <1>11. RowMeets'
    <2> SUFFICES ASSUME NEW j \in Items
                 PROVE  (/\ MetThere(row.token, j)
                         /\ MetAll(row.phase, row.token, j))'
      BY DEF RowMeets
    <2>1. MetThere(row.token, j) /\ MetAll(row.phase, row.token, j)
      BY <1>4, <1>9 DEF RowMeets
    <2>2. cat'[j] = cat[j] \/ ~cat'[j].live
      BY <1>7
    <2> QED BY <1>3, <2>1, <2>2 DEF MetThere, MetAll
  <1>12. RowSane'
    <2>1. ASSUME NEW j \in Items PROVE (cat[j].live => cat[j].rev # 0)'
      BY <1>7, <1>9 DEF RowSane
    <2> QED BY <1>3, <1>9, <2>1 DEF RowSane
  <1>13. Guarded'
    <2>1. Stale \in SUBSET Items
      BY StaleTyped
    <2>2. /\ Cardinality(Stale') <= Cardinality(Stale)
          /\ Cardinality(Stale') \in 0..NumItems
          /\ Cardinality(Stale) \in 0..NumItems
      BY <1>8, <2>1, ItemsFinite
    <2>3. NumItems \in Nat /\ row.held \in Nat /\ row.confirmed \in Nat
      BY <1>1, FieldTypes, ConstantsTyped
    <2>4. \A n \in Nat : Cardinality(Stale) <= n => Cardinality(Stale') <= n
      BY <2>2, <2>3
    <2> QED BY <1>3, <1>9, <2>3, <2>4 DEF Guarded
  <1>14. NoneEarly'
    BY <1>1, <1>2, <1>3, <1>4, HasInv, BeginningSame, EarlyKept
  <1>15. RunInv(run[r])'
    <2>1. w.pc = "remove" => w.batch \subseteq Stale' /\ w.batch # {}
      BY <1>2, <1>5, <1>8
    <2>2. Stale' \subseteq w.counted
      BY <1>2, <1>4, <1>8
    <2>3. ~w.last => AsRow(run[r])'
      BY <1>2, <1>3, <1>4 DEF AsRow
    <2> QED BY <1>2, <1>3, <1>4, <2>1, <2>2, <2>3
            DEF RunInv, Reads, Loops, Streams, Applies, Settles
  <1> QED BY <1>1, <1>2, <1>3, <1>10, <1>11, <1>12, <1>13, <1>14, <1>15,
             InvKept
          DEF RowInv, Busy

LEMMA FinishKeeps ==
    ASSUME Stepping, NEW r \in Runners, Finish(r)
    PROVE  SyncInv'
  <1> DEFINE s == run[r]
             w == run'[r]
  <1>1. SyncInv /\ OneAtATime /\ OneAtATime' /\ Typing' /\ Types
    BY HasInv DEF Stepping
  <1>2. /\ Others(r)
        /\ w.pc = IF s.last THEN "record" ELSE "loop"
        /\ w.reconciling = FALSE
        /\ w.phase = s.phase /\ w.token = s.token
        /\ w.left = s.left /\ w.cleared = s.cleared
        /\ row'.from = FALSE /\ row'.held = 0
        /\ row'.confirmed = 0 /\ row'.deferred = FALSE
        /\ row'.phase = row.phase /\ row'.token = row.token
    BY <1>1, FinishDoes
  <1>3. /\ s.pc = "finish"
        /\ skips' = IF row.from THEN skipsMet ELSE skips
        /\ UNCHANGED <<src, log, cat, fresh, skipsMet>>
    BY DEF Finish, At, source, items
  <1>4. /\ row.phase = "delta" /\ row.from /\ ~Excused
        /\ ~s.last => AsRow(s)
        /\ Stale = Live \ fresh
    BY <1>1, <1>3, Reconciling
  <1>5. Stale = {}
    BY <1>1, <1>3, HasInv DEF Settles
  <1>6. RowCovers /\ RowMeets /\ RowSane
    BY <1>1, HasInv
  <1>7. RowCovers'
    <2> SUFFICES ASSUME NEW i \in Items
                 PROVE  (Excused \/ Covered(row.phase, row.token, Told, i))'
      BY DEF RowCovers
    <2>1. Told' = Told
      BY <1>2, <1>3, <1>4 DEF Told
    <2>2. Covered(row.phase, row.token, Told, i) /\ MetThere(row.token, i)
      BY <1>4, <1>6 DEF RowCovers, RowMeets
    <2>3. cat[i].live => i \in fresh
      BY <1>4, <1>5 DEF Live
    <2> QED BY <1>2, <1>3, <1>4, <2>1, <2>2, <2>3
            DEF Covered, MetThere, Mirrored
  <1>8. RowMeets'
    BY <1>2 DEF RowMeets
  <1>9. RowSane'
    BY <1>2, <1>3, <1>4, <1>6 DEF RowSane
  <1>10. Guarded'
    BY <1>2 DEF Guarded
  <1>11. NoneEarly'
    BY <1>2 DEF NoneEarly, Beginning
  <1>12. CASE s.last
    BY <1>1, <1>2, <1>3, <1>7, <1>8, <1>9, <1>10, <1>11, <1>12, Rests, InvKept
       DEF RowInv, Busy
  <1>13. CASE ~s.last
    <2>1. AsRow(run[r])' /\ Follows(run[r])'
      BY <1>2, <1>4, <1>13 DEF AsRow, Follows
    <2>2. RunInv(run[r])'
      BY <1>2, <1>13, <2>1
         DEF RunInv, Reads, Loops, Streams, Applies, Settles
    <2> QED BY <1>1, <1>2, <1>3, <1>7, <1>8, <1>9, <1>10, <1>11, <2>2, InvKept
            DEF RowInv, Busy
  <1> QED BY <1>12, <1>13

-----------------------------------------------------------------------------
(* The source and the admin.                                                *)

\* What a change does to an item is told past every position of the feed.
LEMMA ChangeTold ==
    ASSUME Types, NEW c \in Items, ChangeItem(c),
           NEW p \in Nat, p <= Len(log), NEW i \in Items
    PROVE  /\ AheadIn(log, p, i) => AheadIn(log', p, i)
           /\ \A d : \/ Shown(src', d, i) = Shown(src, d, i)
                     \/ AheadIn(log', p, i)
  <1>1. /\ \A j \in Items : j # c => src'[j] = src[j]
        /\ Len(log') = Len(log) + 1 /\ log'[Len(log')] = c
        /\ \A k \in 1..Len(log) : log'[k] = log[k]
        /\ Len(log) \in Nat
    BY ChangeDoes, LogTyped
  <1>2. ASSUME AheadIn(log, p, i) PROVE AheadIn(log', p, i)
    <2>1. PICK k \in p + 1 .. Len(log) : log[k] = i
      BY <1>2 DEF AheadIn
    <2>2. k \in 1..Len(log) /\ k \in p + 1 .. Len(log')
      BY <1>1
    <2>3. log'[k] = i
      BY <1>1, <2>1, <2>2
    <2> QED BY <2>2, <2>3 DEF AheadIn
  <1>3. CASE i = c
    <2>1. Len(log') \in p + 1 .. Len(log')
      BY <1>1
    <2>2. AheadIn(log', p, i)
      BY <1>1, <1>3, <2>1 DEF AheadIn
    <2> QED BY <2>2
  <1>4. CASE i # c
    BY <1>1, <1>2, <1>4 DEF Shown
  <1> QED BY <1>3, <1>4

LEMMA ChangeItemKeeps ==
    ASSUME Stepping, NEW c \in Items, ChangeItem(c)
    PROVE  SyncInv'
  <1>1. SyncInv /\ OneAtATime /\ Typing' /\ Types
    BY HasInv DEF Stepping
  <1>2. /\ UNCHANGED <<mounted, cat, fresh, skips, skipsMet, row, run>>
        /\ SameRow
    BY DEF ChangeItem, SameRow, items, left
  <1>3. /\ RowCovers /\ RowMeets /\ RowSane /\ Guarded /\ NoneEarly
        /\ row.token.pos \in Nat /\ Len(log) \in Nat
        /\ row.token.pos <= Len(log)
    BY <1>1, HasInv, FieldTypes DEF RowSane
  <1>4. /\ Len(log') = Len(log) + 1
        /\ \A k \in 1..Len(log) : log'[k] = log[k]
    BY <1>1, ChangeDoes
  <1>5. Stale' = Stale
    BY <1>2, StaleSame
  <1>6. RowCovers'
    <2> SUFFICES ASSUME NEW i \in Items
                 PROVE  (Excused \/ Covered(row.phase, row.token, Told, i))'
      BY DEF RowCovers
    <2>1. Excused \/ Covered(row.phase, row.token, Told, i)
      BY <1>3 DEF RowCovers
    <2>2. /\ AheadIn(log, row.token.pos, i) => AheadIn(log', row.token.pos, i)
          /\ \A d : \/ Shown(src', d, i) = Shown(src, d, i)
                    \/ AheadIn(log', row.token.pos, i)
      BY <1>1, <1>3, ChangeTold
    <2> QED BY <1>2, <2>1, <2>2 DEF Excused, Covered, Told
  <1>7. RowMeets'
    <2> SUFFICES ASSUME row.from, row.phase = "delta" \/ row.token.at > 0,
                        NEW i \in Items
                 PROVE  (/\ MetThere(row.token, i)
                         /\ MetAll(row.phase, row.token, i))'
      BY <1>2 DEF RowMeets
    <2>1. MetThere(row.token, i) /\ MetAll(row.phase, row.token, i)
      BY <1>3 DEF RowMeets
    <2>2. /\ AheadIn(log, row.token.pos, i) => AheadIn(log', row.token.pos, i)
          /\ \A d : \/ Shown(src', d, i) = Shown(src, d, i)
                    \/ AheadIn(log', row.token.pos, i)
      BY <1>1, <1>3, ChangeTold
    <2> QED BY <1>2, <2>1, <2>2 DEF MetThere, MetAll
  <1>8. RowSane'
    BY <1>2, <1>3, <1>4 DEF RowSane
  <1>9. Guarded'
    BY <1>2, <1>3, <1>5 DEF Guarded
  <1>10. NoneEarly'
    BY <1>2, <1>3 DEF NoneEarly, Beginning
  <1>11. ASSUME NEW q \in Runners PROVE RunInv(run[q])'
    <2> DEFINE s == run[q]
    <2>1. Reads(s) /\ Loops(s) /\ Streams(s) /\ Applies(s) /\ Settles(s)
      BY <1>1, HasInv
    <2>2. Reads(run[q])' /\ Loops(run[q])'
      BY <1>2, <2>1 DEF Reads, Loops, AsRow, Follows
    <2>3. Settles(run[q])'
      BY <1>2, <1>5, <2>1 DEF Settles, AsRow
    <2>4. CASE s.pc \in {"stream", "apply"}
      <3>1. /\ Follows(s) /\ After(s) /\ CoversAll(s) /\ MeetsAll(s)
            /\ s.token.pos <= Len(log) /\ s.token.pos \in Nat
            /\ s.phase = row.phase
        BY <1>1, <2>4, Streaming
      <3>2. ASSUME NEW i \in Items
            PROVE  /\ AheadIn(log, s.token.pos, i)
                        => AheadIn(log', s.token.pos, i)
                   /\ \A d : \/ Shown(src', d, i) = Shown(src, d, i)
                             \/ AheadIn(log', s.token.pos, i)
        BY <1>1, <3>1, ChangeTold
      <3>3. Follows(run[q])'
        BY <1>2, <3>1 DEF Follows
      <3>4. After(run[q])'
        <4>1. s.token.pos <= Len(log')
          BY <1>3, <1>4, <3>1
        <4> QED BY <1>2, <3>1, <4>1 DEF After
      <3>5. CoversAll(run[q])'
        BY <1>2, <3>1, <3>2 DEF CoversAll, Excused, Covered, Told, Pending
      <3>6. MeetsAll(run[q])'
        BY <1>2, <3>1, <3>2 DEF MeetsAll, MetThere, MetAll, Pending
      <3>7. Applies(run[q])'
        <4> SUFFICES ASSUME s.pc = "apply" PROVE Applies(run[q])'
          BY <1>2 DEF Applies
        <4>1. s.item \in Items
          BY <2>1 DEF Applies
        <4>2. /\ AheadIn(log, s.token.pos, s.item)
                   => AheadIn(log', s.token.pos, s.item)
              /\ \/ Shown(src', mounted, s.item) = Shown(src, mounted, s.item)
                 \/ AheadIn(log', s.token.pos, s.item)
          BY <3>2, <4>1
        <4>3. s.phase = "delta" => log'[s.token.pos] = log[s.token.pos]
          <5>1. s.phase = "delta" => s.token.pos > row.token.pos
            BY <2>1 DEF Applies
          <5>2. s.phase = "delta" => s.token.pos \in 1..Len(log)
            BY <1>3, <3>1, <5>1
          <5> QED BY <1>4, <5>2
        <4> QED BY <1>2, <2>1, <4>1, <4>2, <4>3 DEF Applies
      <3> QED BY <2>2, <2>3, <3>3, <3>4, <3>5, <3>6, <3>7
              DEF RunInv, Streams
    <2>5. CASE s.pc \notin {"stream", "apply"}
      BY <1>2, <2>2, <2>3, <2>5 DEF RunInv, Streams, Applies
    <2> QED BY <2>4, <2>5
  <1> QED BY <1>1, <1>6, <1>7, <1>8, <1>9, <1>10, <1>11 DEF SyncInv, RowInv

LEMMA MoveDiskKeeps ==
    ASSUME Stepping, MoveDisk
    PROVE  SyncInv'
  <1>1. SyncInv /\ Typing'
    BY DEF Stepping
  <1>2. /\ \A q \in Runners : run'[q].pc = "idle"
        /\ SameRow /\ UNCHANGED run
        /\ UNCHANGED <<src, log, cat, fresh, skips, skipsMet>>
    BY DEF MoveDisk, Running, SameRow, items, left
  <1>3. RowInv'
    BY <1>1, <1>2, HasInv, RowKept
  <1>4. NoneEarly'
    BY <1>1, <1>2, HasInv, BeginningSame DEF NoneEarly
  <1> QED BY <1>1, <1>2, <1>3, <1>4, Rests DEF SyncInv

LEMMA AdminKeeps ==
    ASSUME Stepping, ~AdminAnytime, Admin
    PROVE  SyncInv'
  <1>1. SyncInv /\ Typing' /\ Types
    BY HasInv DEF Stepping
  <1>2. /\ Acts /\ UNCHANGED <<source, cat, skips, run>>
        /\ \/ SameRow /\ UNCHANGED <<fresh, skipsMet>>
           \/ /\ row'.confirmed = row.held /\ row.held # 0
              /\ row'.held = row.held /\ row'.phase = row.phase
              /\ row'.token = row.token /\ row'.from = row.from
              /\ row'.deferred = row.deferred
              /\ UNCHANGED <<fresh, skipsMet>>
           \/ /\ row'.phase = "crawl" /\ row'.token = NoToken
              /\ row'.from = TRUE /\ row'.held = 0 /\ row'.confirmed = 0
              /\ fresh' = {} /\ skipsMet' = {}
    BY <1>1, AdminDoes
  <1>3. /\ \A q \in Runners : run'[q].pc = "idle"
        /\ UNCHANGED <<src, log, cat, skips, run>>
    BY <1>2 DEF Acts, Running, source
  <1>4. RowInv /\ NoneEarly /\ RowCovers /\ RowMeets /\ RowSane /\ Guarded
    BY <1>1, HasInv
  <1>5. CASE SameRow /\ UNCHANGED <<fresh, skipsMet>>
    <2>1. RowInv'
      BY <1>3, <1>4, <1>5, RowKept
    <2>2. NoneEarly'
      BY <1>3, <1>4, <1>5, BeginningSame DEF NoneEarly
    <2> QED BY <1>1, <1>3, <2>1, <2>2, Rests DEF SyncInv
  <1>6. CASE /\ row'.confirmed = row.held /\ row.held # 0
             /\ row'.held = row.held /\ row'.phase = row.phase
             /\ row'.token = row.token /\ row'.from = row.from
             /\ row'.deferred = row.deferred
             /\ UNCHANGED <<fresh, skipsMet>>
    <2>1. RowCovers'
      BY <1>3, <1>4, <1>6 DEF RowCovers, Excused, Covered, Told
    <2>2. RowMeets'
      BY <1>3, <1>4, <1>6 DEF RowMeets, MetThere, MetAll
    <2>3. RowSane'
      BY <1>3, <1>4, <1>6 DEF RowSane
    <2>4. Guarded'
      BY <1>3, <1>4, <1>6, StaleSame DEF Guarded
    <2>5. NoneEarly'
      BY <1>3, <1>4, <1>6 DEF NoneEarly, Beginning
    <2> QED BY <1>1, <1>3, <2>1, <2>2, <2>3, <2>4, <2>5, Rests
            DEF SyncInv, RowInv
  <1>7. CASE /\ row'.phase = "crawl" /\ row'.token = NoToken
             /\ row'.from = TRUE /\ row'.held = 0 /\ row'.confirmed = 0
             /\ fresh' = {} /\ skipsMet' = {}
    <2>1. RowInv' /\ NoneEarly'
      BY <1>1, <1>3, <1>7, AnewInv
    <2> QED BY <1>1, <1>3, <2>1, Rests DEF SyncInv
  <1> QED BY <1>2, <1>5, <1>6, <1>7

LEMMA StutterKeeps ==
    ASSUME Stepping, UNCHANGED vars
    PROVE  SyncInv'
  <1> USE DEF vars, source, items, left, bounds
  <1>1. SyncInv /\ Typing'
    BY DEF Stepping
  <1>2. SameRow /\ UNCHANGED <<src, log, mounted, cat, fresh, skips, skipsMet,
                               row, run>>
    BY DEF SameRow
  <1>3. RowInv'
    BY <1>1, <1>2, HasInv, RowKept
  <1>4. NoneEarly'
    BY <1>1, <1>2, HasInv, BeginningSame DEF NoneEarly
  <1>5. ASSUME NEW q \in Runners PROVE RunInv(run[q])'
    BY <1>1, <1>2, HasInv, RunKept
  <1> QED BY <1>1, <1>3, <1>4, <1>5 DEF SyncInv
-----------------------------------------------------------------------------
(* The theorems.                                                            *)

LEMMA InitInv == Init => SyncInv
  <1> SUFFICES ASSUME Init PROVE SyncInv
    OBVIOUS
  <1>1. Typing /\ Types
    BY InitTyping DEF Typing
  <1>2. /\ row.phase = "crawl" /\ row.token = NoToken /\ row.from = TRUE
        /\ row.held = 0 /\ row.confirmed = 0 /\ fresh = {}
        /\ NoToken.at = 0 /\ NoToken.pos = 0
    BY DEF Init, NoToken
  <1>3. RowCovers
    BY <1>2, ItemsAreNat DEF RowCovers, Covered
  <1>4. RowMeets
    BY <1>2 DEF RowMeets
  <1>5. RowSane
    <2>1. \A i \in Items : cat[i] \in {[rev |-> 0, live |-> FALSE],
                                       [rev |-> 1, live |-> TRUE]}
      BY DEF Init
    <2>2. \A i \in Items : cat[i].live => cat[i].rev # 0
      BY <2>1
    <2> QED BY <1>1, <1>2, <2>2, FieldTypes DEF RowSane
  <1>6. Guarded
    BY <1>2 DEF Guarded
  <1>7. NoneEarly
    BY <1>2 DEF NoneEarly, Beginning
  <1>8. ASSUME NEW r \in Runners PROVE RunInv(run[r])
    <2>1. run[r].pc = "idle"
      BY DEF Init, Idle
    <2> QED BY <2>1 DEF RunInv, Reads, Loops, Streams, Applies, Settles
  <1> QED BY <1>1, <1>3, <1>4, <1>5, <1>6, <1>7, <1>8 DEF SyncInv, RowInv

LEMMA NextInv ==
    ASSUME ~AdminAnytime, ~EarlyStops
    PROVE  SyncInv /\ OneAtATime /\ OneAtATime' /\ [Next]_vars => SyncInv'
  <1> SUFFICES ASSUME SyncInv, OneAtATime, OneAtATime', [Next]_vars
               PROVE  SyncInv'
    OBVIOUS
  <1>1. Stepping
    BY HasInv, TypingNext DEF Stepping
  <1>2. CASE \E i \in Items : ChangeItem(i)
    BY <1>1, <1>2, ChangeItemKeeps
  <1>3. CASE MoveDisk
    BY <1>1, <1>3, MoveDiskKeeps
  <1>4. CASE Admin
    BY <1>1, <1>4, AdminKeeps
  <1>5. CASE \E r \in Runners : runSync(r) \/ Fail(r) \/ Crash(r) \/ Expire(r)
    <2>1. PICK r \in Runners : runSync(r) \/ Fail(r) \/ Crash(r) \/ Expire(r)
      BY <1>5
    <2>2. CASE Follow(r)
      BY <1>1, <2>2, CrawlAgainKeeps, StartStreamKeeps, ResyncKeeps,
         ListItemKeeps, DeltaEventKeeps, UnreadableKeeps, ApplyKeeps,
         CheckpointKeeps, DoneKeeps
         DEF Follow
    <2>3. CASE Reconcile(r)
      BY <1>1, <2>3, CountKeeps, HoldKeeps, ReadStaleKeeps, RemoveStaleKeeps,
         FinishKeeps
         DEF Reconcile
    <2>4. CASE Begin(r) \/ ReadState(r) \/ CheckIdentity(r)
      BY <1>1, <2>4, BeginKeeps, ReadStateKeeps, CheckIdentityKeeps
    <2>5. CASE Record(r) \/ Cancel(r) \/ Crash(r) \/ Fail(r)
      BY <1>1, <2>5, EndingKeeps
    <2>6. CASE Expire(r)
      BY <1>1, <2>6, ExpireKeeps
    <2> QED BY <2>1, <2>2, <2>3, <2>4, <2>5, <2>6 DEF runSync
  <1>6. CASE UNCHANGED vars
    BY <1>1, <1>6, StutterKeeps
  <1> QED BY <1>2, <1>3, <1>4, <1>5, <1>6 DEF Next

\* The invariant says what the runs check.
LEMMA InvGives ==
    ASSUME SyncInv
    PROVE  NothingMissed /\ HeldIsPending /\ ConfirmedGoesThrough
  <1>1. RowCovers /\ Guarded /\ skipsMet \subseteq skips
    BY HasInv DEF Types
  <1>2. ASSUME NEW i \in Items
        PROVE  \/ row.phase = "crawl" /\ i > row.token.at
               \/ Mirrors(i, row.token.disk) \/ Ahead(i)
               \/ i \in skips
               \/ row.from /\ There(i, row.token.disk) = 0
               \/ row.deferred
    <2>1. Excused \/ Covered(row.phase, row.token, Told, i)
      BY <1>1 DEF RowCovers
    <2> QED BY <1>1, <2>1 DEF Excused, Covered, Told, Mirrored, Mirrors,
                              AheadIn, Ahead, Shown, There
  <1>3. NothingMissed
    BY <1>2 DEF NothingMissed
  <1>4. HeldIsPending /\ ConfirmedGoesThrough
    BY <1>1 DEF HeldIsPending, ConfirmedGoesThrough, Guarded, Held
  <1> QED BY <1>3, <1>4

\* While runs do not overlap, admins act between them, and no crawl is cut
\* short before its first checkpoint, the invariant is kept.
THEOREM SyncInvariant ==
    ASSUME ~AdminAnytime, ~EarlyStops
    PROVE  Spec /\ []OneAtATime => []SyncInv
  <1>1. Init => SyncInv
    BY InitInv
  <1>2. SyncInv /\ OneAtATime /\ OneAtATime' /\ [Next]_vars => SyncInv'
    BY NextInv
  <1> QED BY <1>1, <1>2, PTL DEF Spec

\* What a saved token is past is not lost, however runs end (sync.ts: a token
\* is saved only after everything before it committed).
THEOREM NothingIsMissed ==
    ASSUME ~AdminAnytime, ~EarlyStops
    PROVE  Spec /\ []OneAtATime => []NothingMissed
  <1>1. SyncInv => NothingMissed
    BY InvGives
  <1> QED BY <1>1, SyncInvariant, PTL

\* What the guard holds still has its reconcile to do (sync-admin.ts, "held").
THEOREM HeldStaysPending ==
    ASSUME ~AdminAnytime, ~EarlyStops
    PROVE  Spec /\ []OneAtATime => []HeldIsPending
  <1>1. SyncInv => HeldIsPending
    BY InvGives
  <1> QED BY <1>1, SyncInvariant, PTL

\* The guard never holds again what an admin confirmed (sync-admin.ts,
\* "confirmed").
THEOREM ConfirmedIsMade ==
    ASSUME ~AdminAnytime, ~EarlyStops
    PROVE  Spec /\ []OneAtATime => []ConfirmedGoesThrough
  <1>1. SyncInv => ConfirmedGoesThrough
    BY InvGives
  <1> QED BY <1>1, SyncInvariant, PTL

\* A reconcile removes only items its guard counted (sync.ts reconcile()).
THEOREM RemovesWhatItCounted ==
    ASSUME ~AdminAnytime, ~EarlyStops
    PROVE  Spec /\ []OneAtATime => OnlyCountedRemoved
  <1> DEFINE Counted ==
        \A r \in Runners :
          \A i \in run[r].batch \ run'[r].batch :
             run[r].pc = "remove" /\ cat[i].live /\ ~cat'[i].live
                 => i \in run[r].counted
  <1>1. SyncInv => Counted
    <2> SUFFICES ASSUME SyncInv, NEW r \in Runners, run[r].pc = "remove",
                        NEW i \in run[r].batch
                 PROVE  i \in run[r].counted
      OBVIOUS
    <2>1. run[r].batch \subseteq Stale /\ Stale \subseteq run[r].counted
      BY HasInv DEF Settles
    <2> QED BY <2>1
  <1>2. OnlyCountedRemoved <=> [][Counted]_vars
    BY PTL DEF OnlyCountedRemoved
  <1> QED BY <1>1, <1>2, SyncInvariant, PTL
=============================================================================
