---------------------------- MODULE AccessProofs ----------------------------
(***************************************************************************)
(* Theorems about Access, for every set of people, clients, transactions   *)
(* and requests, and every bound.                                          *)
(***************************************************************************)
EXTENDS Access, TLAPS

CodeRows  == [st : {"none", "open", "used", "replayed"},
              user : People \cup {Nobody}, client : Clients \cup {NoClient},
              grant : 0..MaxGrants]
GrantRows == [st : {"none", "live", "revoked"}, user : People \cup {Nobody},
              client : Clients \cup {NoClient}, n : Rotations]
TxRows    == [op : Ops, pc : Pcs, user : People \cup {Nobody},
              client : Clients \cup {NoClient}, approved : BOOLEAN,
              why : {"locked", "disabled", "retired"}, code : 0..MaxCodes,
              grant : 0..MaxGrants, n : Rotations,
              todo : SUBSET Rows, mine : SUBSET Rows]
ReqRows   == [st : {"idle", "reading", "answered", "withheld"},
              grant : 0..MaxGrants, n : Rotations, broken : BOOLEAN]

Types == /\ stopped \in [People -> SUBSET Stops]
         /\ client \in [Clients -> Statuses]
         /\ code \in [CodeIds -> CodeRows]
         /\ grant \in [GrantIds -> GrantRows]
         /\ tokens \subseteq GrantIds \X Rotations
         /\ tx \in [Txs -> TxRows]
         /\ \A l \in locks : l.tx \in Txs /\ l.mode \in {"share", "update"}
         /\ req \in [Requests -> ReqRows]

LEMMA Typed == (TypeOK <=> Types) /\ (TypeOK' <=> Types')
  BY Zenon DEF TypeOK, Types, CodeRows, GrantRows, TxRows, ReqRows

-----------------------------------------------------------------------------
(* The invariant.                                                          *)

Users    == {"issue", "redeem", "refresh"}
Deciders == {"approve", "refuse", "stop", "resume"}

EndPcs      == {"codes", "ending codes", "grants", "ending grants", "commit"}
CodesMet    == {"ending codes", "grants", "ending grants", "commit"}
GrantsMet   == {"ending grants", "commit"}
PastPerson  == {"client", "code", "replay", "grant", "commit"}
PastClient  == {"code", "replay", "grant", "commit"}

\* Where each kind of transaction can be.
Steps(w) ==
    /\ w.op = "none" => w.pc = "idle"
    /\ w.op = "issue" => w.pc \in {"person", "client", "commit"}
    /\ w.op = "redeem" => w.pc \in {"person", "client", "code", "replay"}
    /\ w.op = "refresh" => w.pc \in {"person", "client", "grant"}
    /\ w.op = "approve" => w.pc \in {"epoch", "client"}
    /\ w.op = "refuse" => w.pc \in {"epoch", "client"} \cup EndPcs
    /\ w.op = "stop" => w.pc \in {"epoch", "person"} \cup EndPcs
    /\ w.op = "resume" => w.pc \in {"epoch", "person"}
    /\ w.op = "remove" => w.pc \in {"person"} \cup EndPcs

\* Whom and what it is about.
About(w) ==
    /\ w.op \in Users \cup {"stop", "resume", "remove"} => w.user \in People
    /\ w.op = "stop" => w.why \in Stops
    /\ w.op \in {"issue", "refresh", "approve", "refuse"} => w.client \in Clients
    /\ w.op = "redeem" => /\ w.code \in CodeIds /\ code[w.code].st # "none"
                          /\ w.user = code[w.code].user
    /\ w.pc = "replay" => /\ w.grant = code[w.code].grant
                          /\ code[w.code].st # "open"
    /\ w.op = "refresh" => /\ w.grant \in GrantIds /\ grant[w.grant].st # "none"
                           /\ w.user = grant[w.grant].user
                           /\ w.client = grant[w.grant].client
                           /\ w.n <= grant[w.grant].n
    /\ w.pc \notin {"ending codes", "ending grants"} => w.todo = {}
    /\ w.pc = "ending codes" => \A row \in w.todo : row[1] = "code"
    /\ w.pc = "ending grants" => \A row \in w.todo : row[1] = "grant"
    /\ \A k \in CodeIds : Code(k) \in w.mine => code[k].st # "none"
    /\ \A g \in GrantIds : Grant(g) \in w.mine => grant[g].st # "none"

\* The locks it holds by then.
Holds(t) ==
    LET w == tx[t] IN
    /\ w.op \in Deciders /\ w.pc # "epoch" => Lock(t, Epoch, "update") \in locks
    /\ w.op \in Users /\ w.pc \in PastPerson
          => Lock(t, Person(w.user), "share") \in locks
    /\ w.op \in {"stop", "remove"} /\ w.pc \in EndPcs
          => Lock(t, Person(w.user), "update") \in locks
    /\ w.op = "refuse" /\ w.pc \in EndPcs
          => Lock(t, Client(w.client), "update") \in locks
    /\ w.op \in Users /\ w.pc \in PastClient /\ w.approved
          => /\ w.client \in Clients /\ client[w.client] = "approved"
             /\ Lock(t, Client(w.client), "share") \in locks

\* A lock tells how far its transaction is.
Tells(l) ==
    LET w == tx[l.tx] IN
    \/ /\ l.row = Epoch /\ l.mode = "update"
       /\ w.op \in Deciders /\ w.pc # "epoch"
    \/ /\ l.row = Person(w.user) /\ l.mode = "share"
       /\ w.op \in Users /\ w.pc \in PastPerson
    \/ /\ l.row = Person(w.user) /\ l.mode = "update"
       /\ w.op \in {"stop", "remove"} /\ w.pc \in EndPcs
    \/ /\ l.row = Client(w.client) /\ l.mode = "share"
       /\ w.op \in Users /\ w.pc \in PastClient
    \/ /\ l.row = Client(w.client) /\ l.mode = "update"
       /\ w.op = "refuse" /\ w.pc \in EndPcs
    \/ l.row = Code(w.code) /\ w.op = "redeem" /\ w.pc = "replay"
    \/ /\ \E k \in CodeIds : l.row = Code(k)
       /\ w.op \in Enders /\ w.pc \in CodesMet
    \/ /\ \E g \in GrantIds : l.row = Grant(g)
       /\ w.op \in Enders /\ w.pc \in GrantsMet

\* Whoever may update a row is alone with it.
Alone == \A l, m \in locks :
            l.row = m.row /\ l.tx # m.tx => l.mode = "share" /\ m.mode = "share"

\* What ends access has met all there is to end: while it holds the person or
\* the client nothing is issued that it would miss.
Covers(t) ==
    LET w == tx[t] IN
    w.op \in Enders =>
        /\ w.pc \in CodesMet => \A k \in CodeIds :
              code[k].st = "open" /\ Theirs(t, code[k])
                 => Code(k) \in w.todo \cup w.mine
        /\ w.pc \in GrantsMet => \A g \in GrantIds :
              grant[g].st = "live" /\ Theirs(t, grant[g])
                 => Grant(g) \in w.todo \cup w.mine

Issued ==
    /\ \A k \in CodeIds : code[k].st # "none"
          => code[k].user \in People /\ code[k].client \in Clients
    /\ \A k \in CodeIds : code[k].grant # 0 => grant[code[k].grant].st # "none"
    /\ \A g \in GrantIds : grant[g].st # "none"
          => grant[g].user \in People /\ grant[g].client \in Clients
    /\ \A g \in GrantIds, n \in Rotations : <<g, n>> \in tokens
          => grant[g].st # "none" /\ n <= grant[g].n

\* A request that lost what it was let in with.
Asked(q) ==
    req[q].st = "reading" =>
        LET g == req[q].grant n == req[q].n IN
        /\ g \in GrantIds /\ grant[g].st # "none" /\ n <= grant[g].n
        /\ req[q].broken => grant[g].st = "revoked" \/ <<g, n>> \notin tokens

Inv ==
    /\ TypeOK
    /\ \A t \in Txs : Steps(tx[t]) /\ About(tx[t]) /\ Holds(t) /\ Covers(t)
    /\ \A l \in locks : Tells(l)
    /\ Alone
    /\ Issued
    /\ \A q \in Requests : Asked(q)
    /\ EndedMeansOver
    /\ AnswersAreOfLiveAccess

-----------------------------------------------------------------------------
(* Steps of the proof that say nothing of one action.                       *)

LEMMA ConstantsTyped ==
    /\ NoCode \in CodeRows /\ NoGrant \in GrantRows
    /\ Begun \in TxRows /\ NoAnswer \in ReqRows
    /\ Nobody \notin People /\ NoClient \notin Clients
    /\ MaxCodes \in Nat /\ MaxGrants \in Nat /\ MaxRotations \in Nat
    /\ CodeIds \subseteq 0..MaxCodes /\ GrantIds \subseteq 0..MaxGrants
    /\ 0 \notin GrantIds /\ Rotations \subseteq Nat
  <1>1. /\ MaxCodes \in Nat /\ MaxGrants \in Nat /\ MaxRotations \in Nat
        /\ Nobody \notin People /\ NoClient \notin Clients
    BY AccessAssumption
  <1>2. /\ CodeIds \subseteq 0..MaxCodes /\ GrantIds \subseteq 0..MaxGrants
        /\ 0 \notin GrantIds /\ Rotations \subseteq Nat
        /\ 0 \in Rotations /\ 0 \in 0..MaxCodes /\ 0 \in 0..MaxGrants
    BY <1>1 DEF CodeIds, GrantIds, Rotations
  <1>3. NoCode \in CodeRows /\ NoGrant \in GrantRows /\ NoAnswer \in ReqRows
    BY <1>2 DEF NoCode, CodeRows, NoGrant, GrantRows, NoAnswer, ReqRows
  <1>4. Begun \in TxRows
    BY <1>2 DEF Begun, TxRows, Ops, Pcs
  <1> QED BY <1>1, <1>2, <1>3, <1>4

\* What every step keeps of the codes and the grants.
CodesGoOn ==
    \A k \in CodeIds : code[k].st # "none" =>
        /\ code'[k].st # "none"
        /\ code'[k].user = code[k].user /\ code'[k].client = code[k].client
        /\ code[k].st # "open" => /\ code'[k].st # "open"
                                  /\ code'[k].grant = code[k].grant

GrantsGoOn ==
    \A g \in GrantIds : grant[g].st # "none" =>
        /\ grant'[g].st # "none"
        /\ grant'[g].user = grant[g].user /\ grant'[g].client = grant[g].client
        /\ grant[g].n <= grant'[g].n
        /\ grant[g].st = "revoked" => grant'[g].st = "revoked"

\* Nothing new is made that one who ends access would miss.
NoneMissed(u) ==
    tx[u].op \in Enders =>
        /\ tx[u].pc \in CodesMet => \A k \in CodeIds :
              code'[k].st = "open" /\ Theirs(u, code'[k])
                 => /\ code[k].st = "open" /\ code[k].user = code'[k].user
                    /\ code[k].client = code'[k].client
        /\ tx[u].pc \in GrantsMet => \A g \in GrantIds :
              grant'[g].st = "live" /\ Theirs(u, grant'[g])
                 => /\ grant[g].st = "live" /\ grant[g].user = grant'[g].user
                    /\ grant[g].client = grant'[g].client

\* An approval a transaction counts on stands.
ApprovalStands(u) ==
    \A c \in Clients : client[c] = "approved" /\ Lock(u, Client(c), "share") \in locks
                          => client'[c] = "approved"

TxKept(t) == Steps(tx[t]) /\ About(tx[t]) /\ Holds(t) /\ Covers(t)

\* A transaction another one's step does not touch.
LEMMA OtherKept ==
    ASSUME Inv, NEW u \in Txs, tx'[u] = tx[u], TypeOK',
           \A l \in locks : l.tx = u => l \in locks',
           CodesGoOn, GrantsGoOn, NoneMissed(u), ApprovalStands(u)
    PROVE  TxKept(u)'
  <1>1. /\ Steps(tx[u]) /\ About(tx[u]) /\ Holds(u) /\ Covers(u)
        /\ tx[u] \in TxRows
    BY Typed DEF Types, Inv
  <1>2. Steps(tx[u])'
    BY <1>1 DEF Steps
  <1>3. About(tx[u])'
    <2>1. tx[u].op = "refresh" => /\ grant[tx[u].grant].n \in Nat
                                  /\ grant'[tx[u].grant].n \in Nat
                                  /\ tx[u].n \in Nat
      BY <1>1, ConstantsTyped, Typed DEF Types, About, Inv, GrantRows, TxRows
    <2>2. tx[u].pc = "replay" => tx[u].op = "redeem"
      BY <1>1 DEF Steps, TxRows, Ops, Enders, EndPcs
    <2>3. tx[u].op = "redeem" =>
             /\ tx[u].code \in CodeIds /\ code'[tx[u].code].st # "none"
             /\ tx[u].user = code'[tx[u].code].user
      BY <1>1 DEF About, CodesGoOn
    <2>4. tx[u].pc = "replay" => /\ tx[u].grant = code'[tx[u].code].grant
                                 /\ code'[tx[u].code].st # "open"
      BY <1>1, <2>2 DEF About, CodesGoOn
    <2>5. tx[u].op = "refresh" =>
             /\ tx[u].grant \in GrantIds /\ grant'[tx[u].grant].st # "none"
             /\ tx[u].user = grant'[tx[u].grant].user
             /\ tx[u].client = grant'[tx[u].grant].client
             /\ tx[u].n <= grant'[tx[u].grant].n
      <3> SUFFICES ASSUME tx[u].op = "refresh",
                          NEW g \in GrantIds, g = tx[u].grant
                   PROVE  /\ grant'[g].st # "none" /\ tx[u].user = grant'[g].user
                          /\ tx[u].client = grant'[g].client
                          /\ tx[u].n <= grant'[g].n
        BY <1>1 DEF About
      <3>1. /\ grant[g].st # "none" /\ tx[u].user = grant[g].user
            /\ tx[u].client = grant[g].client /\ tx[u].n <= grant[g].n
        BY <1>1 DEF About
      <3>2. /\ grant'[g].st # "none" /\ grant'[g].user = grant[g].user
            /\ grant'[g].client = grant[g].client /\ grant[g].n <= grant'[g].n
        BY <3>1 DEF GrantsGoOn
      <3> QED BY <2>1, <3>1, <3>2
    <2>6. /\ \A k \in CodeIds : Code(k) \in tx[u].mine => code'[k].st # "none"
          /\ \A g \in GrantIds : Grant(g) \in tx[u].mine => grant'[g].st # "none"
      BY <1>1 DEF About, CodesGoOn, GrantsGoOn
    <2>7. \A k : Code(k)' = Code(k) /\ Grant(k)' = Grant(k)
      BY DEF Code, Grant
    <2> QED BY <1>1, <2>3, <2>4, <2>5, <2>6, <2>7 DEF About
  <1>4. Holds(u)'
    <2>1. \A row, mode : Lock(u, row, mode) \in locks => Lock(u, row, mode) \in locks'
      BY DEF Lock
    <2> QED BY <1>1, <2>1 DEF Holds, ApprovalStands
  <1>5. Covers(u)'
    BY <1>1 DEF Covers, NoneMissed, Theirs
  <1> QED BY <1>2, <1>3, <1>4, <1>5 DEF TxKept

\* A step of one transaction on its own: what it has to show.
LEMMA OwnStepKept ==
    ASSUME Inv, NEW t \in Txs, NEW w \in TxRows,
           tx' = [tx EXCEPT ![t] = w], UNCHANGED <<tables, req>>,
           locks \subseteq locks', Alone',
           \A l \in locks' : /\ l.tx \in Txs /\ l.mode \in {"share", "update"}
                             /\ l.tx # t => l \in locks
                             /\ l.tx = t => Tells(l)',
           TxKept(t)'
    PROVE  Inv'
  <1>1. TypeOK'
    BY Typed DEF Types, Inv, tables
  <1>2. \A u \in Txs : TxKept(u)'
    <2> SUFFICES ASSUME NEW u \in Txs, u # t PROVE TxKept(u)'
      OBVIOUS
    <2>1. tx'[u] = tx[u]
      BY Typed DEF Types, Inv
    <2>2. CodesGoOn /\ GrantsGoOn /\ NoneMissed(u) /\ ApprovalStands(u)
      BY Typed DEF Types, Inv, tables, CodesGoOn, GrantsGoOn, NoneMissed, ApprovalStands,
         CodeRows, GrantRows, Rotations
    <2> QED BY <1>1, <2>1, <2>2, OtherKept
  <1>3. \A l \in locks' : Tells(l)'
    <2> SUFFICES ASSUME NEW l \in locks', l.tx # t PROVE Tells(l)'
      OBVIOUS
    <2>1. l \in locks /\ tx'[l.tx] = tx[l.tx]
      BY Typed DEF Types, Inv
    <2> QED BY <2>1 DEF Inv, Tells
  <1>4. Issued' /\ \A q \in Requests : Asked(q)'
    BY DEF Inv, tables, Issued, Asked
  <1>5. EndedMeansOver' /\ AnswersAreOfLiveAccess'
    BY DEF Inv, tables, EndedMeansOver, RefusedIsOver, StoppedIsOver,
       ReplayedIsOver, Over, CodesOf, GrantsOf, AnswersAreOfLiveAccess
  <1> QED BY <1>1, <1>2, <1>3, <1>4, <1>5 DEF Inv, TxKept

\* A transaction that ends, with what it commits.
LEMMA EndKept ==
    ASSUME Inv, NEW t \in Txs, End(t), TypeOK', CodesGoOn, GrantsGoOn,
           \A u \in Txs \ {t} : NoneMissed(u) /\ ApprovalStands(u),
           Issued', \A q \in Requests : Asked(q)',
           EndedMeansOver', AnswersAreOfLiveAccess'
    PROVE  Inv'
  <1>1. /\ tx' = [tx EXCEPT ![t] = Begun] /\ tx \in [Txs -> TxRows]
        /\ locks' = {l \in locks : l.tx # t}
    BY Typed DEF Types, Inv, End, Released
  <1>2. \A u \in Txs : TxKept(u)'
    <2>1. ASSUME NEW u \in Txs, u # t PROVE TxKept(u)'
      BY <1>1, <2>1, OtherKept
    <2>2. TxKept(t)'
      BY <1>1 DEF TxKept, Steps, About, Holds, Covers, Begun, Users, Deciders,
         Enders, EndPcs
    <2> QED BY <2>1, <2>2
  <1>3. \A l \in locks' : Tells(l)'
    <2> SUFFICES ASSUME NEW l \in locks' PROVE Tells(l)'
      OBVIOUS
    <2>1. l \in locks /\ tx'[l.tx] = tx[l.tx]
      BY <1>1, Typed DEF Types, Inv
    <2> QED BY <2>1 DEF Inv, Tells
  <1>4. Alone'
    BY <1>1 DEF Inv, Alone
  <1> QED BY <1>2, <1>3, <1>4 DEF Inv, TxKept

\* A step of no transaction.
LEMMA NoTxKept ==
    ASSUME Inv, UNCHANGED <<tx, locks>>, TypeOK', CodesGoOn, GrantsGoOn,
           \A u \in Txs : NoneMissed(u) /\ ApprovalStands(u),
           Issued', \A q \in Requests : Asked(q)',
           EndedMeansOver', AnswersAreOfLiveAccess'
    PROVE  Inv'
  <1>1. \A u \in Txs : TxKept(u)'
    BY OtherKept
  <1>2. Alone' /\ \A l \in locks' : Tells(l)'
    BY DEF Inv, Alone, Tells
  <1> QED BY <1>1, <1>2 DEF Inv, TxKept

-----------------------------------------------------------------------------
(* The steps of one transaction that write no table.                       *)

LEMMA GotoDoes ==
    ASSUME TypeOK, NEW t \in Txs, NEW pc \in Pcs
    PROVE  /\ Goto(t, pc) \in TxRows
           /\ Goto(t, pc).pc = pc /\ Goto(t, pc).op = tx[t].op
           /\ Goto(t, pc).user = tx[t].user /\ Goto(t, pc).client = tx[t].client
           /\ Goto(t, pc).approved = tx[t].approved
           /\ Goto(t, pc).why = tx[t].why /\ Goto(t, pc).code = tx[t].code
           /\ Goto(t, pc).grant = tx[t].grant /\ Goto(t, pc).n = tx[t].n
           /\ Goto(t, pc).todo = tx[t].todo /\ Goto(t, pc).mine = tx[t].mine
  BY Typed DEF Types, Goto, TxRows

\* A transaction at rest, or at its first row, holds nothing.
LEMMA NothingHeld ==
    ASSUME Inv, NEW t \in Txs,
           \/ tx[t].pc \in {"idle", "epoch"}
           \/ tx[t].pc = "person" /\ tx[t].op \in Users \cup {"remove"}
    PROVE  \A l \in locks : l.tx # t
  <1>1. /\ Steps(tx[t]) /\ tx[t].op \in Ops
        /\ \A l \in locks : l.tx = t => Tells(l)
    BY Typed DEF Types, Inv, TxRows
  <1> QED BY <1>1 DEF Steps, Tells, Users, Deciders, Enders, Ops, EndPcs,
          PastPerson, PastClient, CodesMet, GrantsMet

LEMMA BeginKept ==
    ASSUME Inv, NEW t \in Txs, NEW w \in TxRows, Begin(t, w),
           \/ w.pc = "epoch"
           \/ w.pc = "person" /\ w.op \in Users \cup {"remove"},
           Steps(w), About(w)
    PROVE  Inv'
  <1>1. /\ tx' = [tx EXCEPT ![t] = w] /\ tx[t].pc = "idle"
        /\ UNCHANGED <<tables, locks, req>> /\ tx'[t] = w
    BY Typed DEF Begin, Types, Inv
  <1>2. Alone' /\ \A l \in locks' : l.tx # t
    BY <1>1, NothingHeld DEF Inv, Alone
  <1>3. Steps(tx[t])' /\ About(tx[t])'
    BY <1>1 DEF tables, Steps, About
  <1>4. Holds(t)' /\ Covers(t)'
    BY <1>1 DEF Holds, Covers, Users, Deciders, Enders, PastPerson, PastClient,
       EndPcs, CodesMet, GrantsMet
  <1>5. \A l \in locks' : l \in locks /\ l.tx \in Txs
                             /\ l.mode \in {"share", "update"}
    BY <1>1, Typed DEF Types, Inv
  <1> QED BY <1>1, <1>2, <1>3, <1>4, <1>5, OwnStepKept DEF TxKept

LEMMA TakeKept ==
    ASSUME Inv, NEW t \in Txs, NEW w \in TxRows, NEW row,
           NEW mode \in {"share", "update"}, Take(t, row, mode, w),
           Steps(w), About(w), Holds(t)', Covers(t)',
           \A l \in locks' : l.tx = t => Tells(l)'
    PROVE  Inv'
  <1>1. /\ tx' = [tx EXCEPT ![t] = w] /\ tx'[t] = w
        /\ UNCHANGED <<tables, req>>
        /\ locks' = locks \cup {Lock(t, row, mode)}
        /\ Free(t, row, mode)
    BY Typed DEF Take, Types, Inv
  <1>2. /\ Lock(t, row, mode).tx = t /\ Lock(t, row, mode).row = row
        /\ Lock(t, row, mode).mode = mode
    BY DEF Lock
  <1>3. \A l \in locks : l.tx \in Txs /\ l.mode \in {"share", "update"}
    BY Typed DEF Types, Inv
  <1>4. Alone'
    <2>1. ASSUME NEW l \in locks, l.row = row, l.tx # t
          PROVE  l.mode = "share" /\ mode = "share"
      BY <1>1, <1>3, <2>1 DEF Free, Against, Held
    <2> QED BY <1>1, <1>2, <2>1 DEF Inv, Alone
  <1>5. \A l \in locks' : /\ l.tx \in Txs /\ l.mode \in {"share", "update"}
                          /\ l.tx # t => l \in locks
    BY <1>1, <1>2, <1>3
  <1>6. Steps(tx[t])' /\ About(tx[t])'
    BY <1>1 DEF tables, Steps, About
  <1> QED BY <1>1, <1>4, <1>5, <1>6, OwnStepKept, ZenonT(60) DEF TxKept

LEMMA LockEpochKept ==
    ASSUME Inv, NEW t \in Txs, LockEpoch(t)
    PROVE  Inv'
  <1> DEFINE pc == IF tx[t].op \in {"approve", "refuse"} THEN "client" ELSE "person"
             w  == Goto(t, pc)
  <1>1. /\ TypeOK /\ Steps(tx[t]) /\ About(tx[t]) /\ tx[t].op \in Ops
        /\ tx[t].pc = "epoch"
    BY Typed DEF Types, Inv, TxRows, LockEpoch
  <1>2. tx[t].op \in Deciders
    BY <1>1 DEF Steps, Deciders, Ops, Enders, EndPcs
  <1>3. Take(t, Epoch, "update", w)
    BY DEF LockEpoch
  <1>4. /\ w \in TxRows /\ w.pc = pc /\ w.op = tx[t].op
        /\ w.user = tx[t].user /\ w.client = tx[t].client
        /\ w.why = tx[t].why /\ w.todo = tx[t].todo
        /\ w.mine = tx[t].mine
    <2>1. pc \in Pcs
      BY DEF Pcs
    <2> HIDE DEF pc
    <2> QED BY <1>1, <2>1, GotoDoes
  <1> HIDE DEF w
  <1>5. Steps(w) /\ About(w)
    BY <1>1, <1>2, <1>4 DEF Steps, About, Deciders, Users
  <1> HIDE DEF pc
  <1>6. pc \in {"client", "person"}
    BY DEF pc
  <1>7. /\ tx'[t] = w /\ locks' = locks \cup {Lock(t, Epoch, "update")}
        /\ \A l \in locks : l.tx # t
    BY <1>1, <1>3, NothingHeld, Typed DEF Take, Types
  <1>8. Holds(t)' /\ Covers(t)'
    BY <1>2, <1>4, <1>6, <1>7
    DEF Holds, Covers, Users, Deciders, EndPcs, CodesMet, GrantsMet
  <1>9. \A l \in locks' : l.tx = t => Tells(l)'
    BY <1>2, <1>4, <1>6, <1>7 DEF Tells, Lock
  <1> QED BY <1>3, <1>4, <1>5, <1>8, <1>9, TakeKept

LEMMA HoldPersonKept ==
    ASSUME Inv, NEW t \in Txs, HoldPerson(t)
    PROVE  Inv'
  <1> DEFINE w == Goto(t, "client")
  <1>1. /\ TypeOK /\ Steps(tx[t]) /\ About(tx[t])
        /\ tx[t].op \in Users /\ tx[t].pc = "person"
    BY DEF Inv, HoldPerson, Users
  <1>2. Take(t, Person(tx[t].user), "share", w)
    BY DEF HoldPerson
  <1>3. /\ w \in TxRows /\ w.pc = "client" /\ w.op = tx[t].op
        /\ w.user = tx[t].user /\ w.client = tx[t].client
        /\ w.why = tx[t].why /\ w.todo = tx[t].todo
        /\ w.mine = tx[t].mine
        /\ w.code = tx[t].code /\ w.grant = tx[t].grant /\ w.n = tx[t].n
    <2>1. "client" \in Pcs
      BY DEF Pcs
    <2> QED BY <1>1, <2>1, GotoDoes
  <1> HIDE DEF w
  <1>4. Steps(w) /\ About(w)
    BY <1>1, <1>3 DEF Steps, About, Users
  <1>5. /\ tx'[t] = w /\ locks' = locks \cup {Lock(t, Person(w.user), "share")}
        /\ \A l \in locks : l.tx # t
    BY <1>1, <1>2, <1>3, NothingHeld, Typed DEF Take, Types
  <1>6. Holds(t)' /\ Covers(t)'
    BY <1>1, <1>3, <1>5
    DEF Holds, Covers, Users, Deciders, EndPcs, CodesMet, GrantsMet, PastClient,
        Enders
  <1>7. \A l \in locks' : l.tx = t => Tells(l)'
    BY <1>1, <1>3, <1>5 DEF Tells, Lock, PastPerson
  <1> QED BY <1>2, <1>3, <1>4, <1>6, <1>7, TakeKept

LEMMA HoldClientKept ==
    ASSUME Inv, NEW t \in Txs, NEW op, NEW next,
           \/ op = "issue" /\ next = "commit"
           \/ op = "redeem" /\ next = "code"
           \/ op = "refresh" /\ next = "grant",
           HoldClient(t, op, next)
    PROVE  Inv'
  <1> DEFINE c == tx[t].client
             a == Approved(c)
             w == [tx[t] EXCEPT !.pc = next, !.approved = a]
  <1>1. /\ TypeOK /\ Steps(tx[t]) /\ About(tx[t]) /\ Holds(t)
        /\ tx[t] \in TxRows /\ tx[t].op = op /\ tx[t].pc = "client"
        /\ op \in Users /\ next \in {"commit", "code", "grant"} /\ next \in Pcs
    BY Typed DEF Types, Inv, HoldClient, At, Users, Pcs
  <1>2. a \in BOOLEAN /\ (a => c \in Clients /\ client[c] = "approved")
    BY DEF Approved
  <1>3. \/ Take(t, Client(c), "share", w)
        \/ /\ ~a /\ tx' = [tx EXCEPT ![t] = w] /\ UNCHANGED <<tables, locks, req>>
    BY <1>1 DEF HoldClient, Approved
  <1> HIDE DEF a
  <1>4. /\ w \in TxRows /\ w.pc = next /\ w.op = op
        /\ w.user = tx[t].user /\ w.client = c
        /\ w.why = tx[t].why /\ w.todo = tx[t].todo /\ w.approved = a
        /\ w.mine = tx[t].mine
        /\ w.code = tx[t].code /\ w.grant = tx[t].grant /\ w.n = tx[t].n
    BY <1>1, <1>2 DEF TxRows
  <1> HIDE DEF w
  <1>5. Steps(w) /\ About(w)
    BY <1>1, <1>4 DEF Steps, About, Users
  <1>6. tx'[t] = w /\ UNCHANGED tables /\ locks \subseteq locks'
    BY <1>1, <1>3, Typed DEF Types, Take
  <1>7. Lock(t, Person(w.user), "share") \in locks'
    BY <1>1, <1>4, <1>6 DEF Holds, PastPerson
  <1>8. \A l \in locks : l.tx = t => l.row = Person(w.user) /\ l.mode = "share"
    BY <1>1, <1>4
    DEF Inv, Tells, Users, Deciders, EndPcs, CodesMet, GrantsMet, Enders, PastClient
  <1>9. \A l \in locks : l.tx = t => Tells(l)'
    BY <1>1, <1>4, <1>6, <1>8 DEF Tells, PastPerson
  <1>10. Covers(t)'
    BY <1>1, <1>4, <1>6 DEF Covers, Enders, Users
  <1>11. CASE Take(t, Client(c), "share", w)
    <2>1. locks' = locks \cup {Lock(t, Client(c), "share")}
      BY <1>11 DEF Take
    <2>2. Holds(t)'
      BY <1>1, <1>2, <1>4, <1>6, <1>7, <2>1
      DEF Holds, Users, Deciders, EndPcs, tables
    <2>3. \A l \in locks' : l.tx = t => Tells(l)'
      BY <1>1, <1>4, <1>6, <1>9, <2>1 DEF Tells, Lock, PastClient
    <2> QED BY <1>4, <1>5, <1>10, <1>11, <2>2, <2>3, TakeKept
  <1>12. CASE /\ ~a /\ tx' = [tx EXCEPT ![t] = w]
              /\ UNCHANGED <<tables, locks, req>>
    <2>1. Holds(t)'
      BY <1>1, <1>4, <1>6, <1>7, <1>12 DEF Holds, Users, Deciders, EndPcs
    <2>2. Alone' /\ Steps(tx[t])' /\ About(tx[t])'
      BY <1>5, <1>6, <1>12 DEF Inv, Alone, Steps, About, tables
    <2>3. \A l \in locks : l.tx \in Txs /\ l.mode \in {"share", "update"}
      BY <1>1, Typed DEF Types
    <2> QED BY <1>4, <1>9, <1>10, <1>12, <2>1, <2>2, <2>3, OwnStepKept,
               ZenonT(60) DEF TxKept
  <1> QED BY <1>3, <1>11, <1>12

\* The row of what is ended, held until it is.
LEMMA HoldEndedKept ==
    ASSUME Inv, NEW t \in Txs, NEW row,
           \/ /\ tx[t].op = "refuse" /\ tx[t].pc = "client"
              /\ row = Client(tx[t].client)
           \/ /\ tx[t].op \in {"stop", "remove"} /\ tx[t].pc = "person"
              /\ row = Person(tx[t].user),
           Take(t, row, "update", Goto(t, "codes"))
    PROVE  Inv'
  <1> DEFINE w == Goto(t, "codes")
  <1>1. /\ TypeOK /\ Steps(tx[t]) /\ About(tx[t]) /\ Holds(t)
    BY DEF Inv
  <1>2. /\ w \in TxRows /\ w.pc = "codes" /\ w.op = tx[t].op
        /\ w.user = tx[t].user /\ w.client = tx[t].client
        /\ w.why = tx[t].why /\ w.todo = tx[t].todo
        /\ w.mine = tx[t].mine
    <2>1. "codes" \in Pcs
      BY DEF Pcs
    <2> QED BY <1>1, <2>1, GotoDoes
  <1>3. /\ tx'[t] = w /\ locks' = locks \cup {Lock(t, row, "update")}
    BY <1>1, Typed DEF Take, Types
  <1> HIDE DEF w
  <1>4. Steps(w) /\ About(w)
    BY <1>1, <1>2 DEF Steps, About, Users, EndPcs
  <1>5. Holds(t)'
    BY <1>1, <1>2, <1>3
    DEF Holds, Users, Deciders, EndPcs, PastPerson, PastClient
  <1>6. Covers(t)'
    BY <1>2, <1>3 DEF Covers, CodesMet, GrantsMet
  <1>7. \A l \in locks : l.tx = t => /\ l.row = Epoch /\ l.mode = "update"
                                     /\ tx[t].op \in Deciders
    BY <1>1 DEF Inv, Tells, Users, Deciders, EndPcs, CodesMet, GrantsMet, Enders,
       PastClient
  <1>8. \A l \in locks' : l.tx = t => Tells(l)'
    <2>1. \A l \in locks : l.tx = t => Tells(l)'
      BY <1>2, <1>3, <1>7 DEF Tells
    <2>2. Lock(t, row, "update").tx = t /\ Lock(t, row, "update").row = row
          /\ Lock(t, row, "update").mode = "update"
      BY DEF Lock
    <2>3. Tells(Lock(t, row, "update"))'
      BY <1>2, <1>3, <2>2 DEF Tells, EndPcs
    <2> QED BY <1>3, <2>1, <2>3
  <1> QED BY <1>2, <1>4, <1>5, <1>6, <1>8, TakeKept DEF w

LEMMA ReadUsedKept ==
    ASSUME Inv, NEW t \in Txs, ReadUsed(t)
    PROVE  Inv'
  <1> DEFINE k == tx[t].code
             w == [tx[t] EXCEPT !.pc = "replay", !.grant = code[k].grant]
  <1>1. /\ TypeOK /\ Steps(tx[t]) /\ About(tx[t]) /\ Holds(t)
        /\ tx[t] \in TxRows /\ tx[t].op = "redeem" /\ tx[t].pc = "code"
        /\ code[k].st # "open" /\ k \in CodeIds /\ code[k] \in CodeRows
    BY Typed DEF Types, Inv, ReadUsed, At, About
  <1>2. Take(t, Code(k), "update", w)
    BY DEF ReadUsed
  <1>3. /\ w \in TxRows /\ w.pc = "replay" /\ w.op = "redeem"
        /\ w.user = tx[t].user /\ w.client = tx[t].client
        /\ w.why = tx[t].why /\ w.todo = tx[t].todo
        /\ w.mine = tx[t].mine
        /\ w.approved = tx[t].approved
        /\ w.code = tx[t].code /\ w.grant = code[k].grant
    BY <1>1 DEF TxRows, CodeRows, Pcs
  <1> HIDE DEF w
  <1>4. Steps(w) /\ About(w)
    BY <1>1, <1>3 DEF Steps, About, Users
  <1>5. tx'[t] = w /\ locks' = locks \cup {Lock(t, Code(k), "update")}
        /\ UNCHANGED tables
    BY <1>1, <1>2, Typed DEF Take, Types
  <1>6. Holds(t)'
    BY <1>1, <1>3, <1>5
    DEF Holds, Users, Deciders, EndPcs, PastPerson, PastClient, tables
  <1>7. Covers(t)'
    BY <1>3, <1>5 DEF Covers, Enders
  <1>a. \A l \in locks : l.tx = t =>
           /\ l.mode = "share"
           /\ l.row \in {Person(tx[t].user), Client(tx[t].client)}
    BY <1>1
    DEF Inv, Tells, Users, Deciders, EndPcs, CodesMet, GrantsMet, Enders
  <1>8. \A l \in locks : l.tx = t => Tells(l)'
    BY <1>3, <1>5, <1>a DEF Tells, Users, PastClient, PastPerson
  <1>9. \A l \in locks' : l.tx = t => Tells(l)'
    BY <1>3, <1>5, <1>8 DEF Tells, Lock
  <1> QED BY <1>2, <1>3, <1>4, <1>6, <1>7, <1>9, TakeKept

\* What ends access goes from one statement to the next: what it holds stays
\* the same, and tells so.
EnderStep(t, w) ==
    /\ tx' = [tx EXCEPT ![t] = w] /\ UNCHANGED <<tables, req>>
    /\ tx[t].pc \in EndPcs /\ tx[t].op \in Enders
    /\ w.op = tx[t].op /\ w.user = tx[t].user /\ w.client = tx[t].client
    /\ w.why = tx[t].why /\ w.pc \in EndPcs
    /\ tx[t].pc \in CodesMet => w.pc \in CodesMet
    /\ tx[t].pc \in GrantsMet => w.pc \in GrantsMet

LEMMA EnderHolds ==
    ASSUME Inv, NEW t \in Txs, NEW w \in TxRows, EnderStep(t, w),
           locks \subseteq locks'
    PROVE  /\ Steps(w) /\ Holds(t)'
           /\ \A l \in locks : l.tx = t => Tells(l)'
  <1>1. /\ TypeOK /\ Steps(tx[t]) /\ Holds(t) /\ tx'[t] = w
        /\ w.op = tx[t].op /\ w.user = tx[t].user /\ w.client = tx[t].client
    BY Typed DEF Types, Inv, EnderStep
  <1>2. /\ tx[t].op \notin Users /\ tx[t].pc # "epoch" /\ w.pc # "epoch"
        /\ tx[t].op # "redeem" /\ w.pc \in EndPcs /\ tx[t].pc \in EndPcs
        /\ tx[t].pc \in CodesMet => w.pc \in CodesMet
        /\ tx[t].pc \in GrantsMet => w.pc \in GrantsMet
        /\ tx[t].op \in Enders
    BY DEF Users, Enders, EndPcs, EnderStep
  <1>3. Steps(w)
    BY <1>1, <1>2 DEF Steps, Enders
  <1>4. Holds(t)'
    BY <1>1, <1>2 DEF Holds
  <1>5. \A l \in locks : l.tx = t => Tells(l)'
    <2> SUFFICES ASSUME NEW l \in locks, l.tx = t PROVE Tells(l)'
      OBVIOUS
    <2>1. Tells(l) /\ tx'[l.tx] = w
      BY <1>1 DEF Inv
    <2> QED BY <1>1, <1>2, <2>1 DEF Tells
  <1> QED BY <1>3, <1>4, <1>5

LEMMA EnderGoesOn ==
    ASSUME Inv, NEW t \in Txs, NEW w \in TxRows, EnderStep(t, w),
           UNCHANGED locks, About(w), Covers(t)'
    PROVE  Inv'
  <1>1. /\ TypeOK /\ tx'[t] = w /\ UNCHANGED <<tables, req>>
        /\ tx' = [tx EXCEPT ![t] = w]
    BY Typed DEF Types, Inv, EnderStep
  <1>2. /\ Steps(w) /\ Holds(t)'
        /\ \A l \in locks : l.tx = t => Tells(l)'
    BY EnderHolds
  <1>3. Alone' /\ Steps(tx[t])' /\ About(tx[t])'
    BY <1>1, <1>2 DEF Inv, Alone, Steps, About, tables
  <1>4. \A l \in locks : l.tx \in Txs /\ l.mode \in {"share", "update"}
    BY <1>1, Typed DEF Types
  <1> QED BY <1>1, <1>2, <1>3, <1>4, OwnStepKept, ZenonT(60) DEF TxKept

\* Only what ends access is at its statements, or at a commit of its own.
LEMMA AtAnEnd ==
    ASSUME Inv, NEW t \in Txs, tx[t].pc \in EndPcs \ {"commit"}
    PROVE  tx[t].op \in Enders
  BY Typed DEF Types, TxRows, Ops, Inv, Steps, Enders, EndPcs

LEMMA EndRowsKept ==
    ASSUME Inv, NEW t \in Txs,
           \/ EndRows(t, "code", "codes", "ending codes")
           \/ EndRows(t, "grant", "grants", "ending grants")
    PROVE  Inv'
  <1> DEFINE due(table) == {row \in Rows : row[1] = table /\ Matches(t, row)}
             w(table, to) == [tx[t] EXCEPT !.pc = to, !.todo = due(table)]
  <1>1. /\ TypeOK /\ About(tx[t]) /\ Covers(t) /\ tx[t] \in TxRows
        /\ tx \in [Txs -> TxRows] /\ UNCHANGED <<tables, locks, req>>
        /\ tx[t].pc \in {"codes", "grants"} /\ tx[t].op \in Enders
        /\ tx[t].todo = {}
    BY AtAnEnd, Typed DEF Types, Inv, EndRows, EndPcs, About
  <1>2. /\ \A row \in CodeIds : Code(row) \in Rows /\ Code(row)[1] = "code"
                                /\ Code(row)[2] = row
        /\ \A row \in GrantIds : Grant(row) \in Rows /\ Grant(row)[1] = "grant"
                                 /\ Grant(row)[2] = row
    BY DEF Code, Grant, Rows
  <1>3. CASE EndRows(t, "code", "codes", "ending codes")
    <2> DEFINE v == w("code", "ending codes")
    <2>1. tx' = [tx EXCEPT ![t] = v] /\ tx[t].pc = "codes"
      BY <1>1, <1>3 DEF EndRows
    <2>2. due("code") \in SUBSET Rows /\ \A row \in due("code") : row[1] = "code"
      OBVIOUS
    <2>3. \A k \in CodeIds : code[k].st = "open" /\ Theirs(t, code[k])
             => Code(k) \in due("code")
      BY <1>2 DEF Matches
    <2> HIDE DEF due
    <2>4. /\ v \in TxRows /\ v.pc = "ending codes" /\ v.op = tx[t].op
          /\ v.user = tx[t].user /\ v.client = tx[t].client
          /\ v.why = tx[t].why /\ v.todo = due("code") /\ v.mine = tx[t].mine
      BY <1>1, <2>2 DEF TxRows, Pcs
    <2> HIDE DEF w
    <2>5. About(v)
      BY <1>1, <2>2, <2>4 DEF About, Enders, Users
    <2>6. Covers(t)'
      BY <1>1, <2>1, <2>3, <2>4 DEF Covers, Theirs, GrantsMet, tables
    <2> QED BY <1>1, <2>1, <2>4, <2>5, <2>6, EnderGoesOn
            DEF EnderStep, EndPcs, CodesMet, GrantsMet
  <1>4. CASE EndRows(t, "grant", "grants", "ending grants")
    <2> DEFINE v == w("grant", "ending grants")
    <2>1. tx' = [tx EXCEPT ![t] = v] /\ tx[t].pc = "grants"
      BY <1>1, <1>4 DEF EndRows
    <2>2. due("grant") \in SUBSET Rows /\ \A row \in due("grant") : row[1] = "grant"
      OBVIOUS
    <2>3. \A g \in GrantIds : grant[g].st = "live" /\ Theirs(t, grant[g])
             => Grant(g) \in due("grant")
      BY <1>2 DEF Matches
    <2> HIDE DEF due
    <2>4. /\ v \in TxRows /\ v.pc = "ending grants" /\ v.op = tx[t].op
          /\ v.user = tx[t].user /\ v.client = tx[t].client
          /\ v.why = tx[t].why /\ v.todo = due("grant") /\ v.mine = tx[t].mine
      BY <1>1, <2>2 DEF TxRows, Pcs
    <2> HIDE DEF w
    <2>5. About(v)
      BY <1>1, <2>2, <2>4 DEF About, Enders, Users
    <2>6. Covers(t)'
      BY <1>1, <2>1, <2>3, <2>4 DEF Covers, Theirs, CodesMet, tables
    <2> QED BY <1>1, <2>1, <2>4, <2>5, <2>6, EnderGoesOn
            DEF EnderStep, EndPcs, CodesMet, GrantsMet
  <1> QED BY <1>3, <1>4

LEMMA EndedRowsKept ==
    ASSUME Inv, NEW t \in Txs,
           \/ EndedRows(t, "ending codes", "grants")
           \/ EndedRows(t, "ending grants", "commit")
    PROVE  Inv'
  <1>1. /\ TypeOK /\ About(tx[t]) /\ Covers(t) /\ tx[t] \in TxRows
        /\ tx \in [Txs -> TxRows] /\ UNCHANGED <<tables, locks, req>>
        /\ tx[t].pc \in {"ending codes", "ending grants"} /\ tx[t].op \in Enders
        /\ tx[t].todo = {}
    BY AtAnEnd, Typed DEF Types, Inv, EndedRows, EndPcs
  <1>2. PICK to \in {"grants", "commit"} :
           /\ tx' = [tx EXCEPT ![t].pc = to]
           /\ to = "grants" <=> tx[t].pc = "ending codes"
    BY DEF EndedRows
  <1> DEFINE w == [tx[t] EXCEPT !.pc = to]
  <1>3. tx' = [tx EXCEPT ![t] = w]
    BY <1>1, <1>2
  <1>4. /\ w \in TxRows /\ w.pc = to /\ w.op = tx[t].op
        /\ w.user = tx[t].user /\ w.client = tx[t].client
        /\ w.why = tx[t].why /\ w.todo = tx[t].todo /\ w.mine = tx[t].mine
    BY <1>1 DEF TxRows, Pcs
  <1> HIDE DEF w
  <1>5. About(w)
    BY <1>1, <1>4 DEF About, Enders, Users
  <1>6. Covers(t)'
    <2>1. tx'[t] = w /\ code' = code /\ grant' = grant
      BY <1>1, <1>3 DEF tables
    <2>2. \A r : Theirs(t, r)' <=> Theirs(t, r)
      BY <1>4, <2>1 DEF Theirs
    <2>3. tx[t].pc \in CodesMet /\ (w.pc \in GrantsMet => tx[t].pc \in GrantsMet)
      BY <1>1, <1>2, <1>4 DEF CodesMet, GrantsMet
    <2> QED BY <1>1, <1>4, <2>1, <2>2, <2>3 DEF Covers
  <1> QED BY <1>1, <1>2, <1>3, <1>4, <1>5, <1>6, EnderGoesOn
          DEF EnderStep, EndPcs, CodesMet, GrantsMet

LEMMA EndRowKept ==
    ASSUME Inv, NEW t \in Txs, NEW row \in Rows, EndRow(t, row)
    PROVE  Inv'
  <1> DEFINE mine == IF Matches(t, row) THEN tx[t].mine \cup {row} ELSE tx[t].mine
             todo == tx[t].todo \ {row}
             w == [tx[t] EXCEPT !.todo = todo, !.mine = mine]
  <1>1. /\ TypeOK /\ About(tx[t]) /\ Covers(t) /\ tx[t] \in TxRows
        /\ tx \in [Txs -> TxRows] /\ UNCHANGED <<tables, req>>
        /\ row \in tx[t].todo
    BY Typed DEF Types, Inv, EndRow
  <1>2. /\ tx[t].pc \in {"ending codes", "ending grants"} /\ tx[t].op \in Enders
        /\ tx[t].pc \in EndPcs
    BY <1>1, AtAnEnd DEF About, EndPcs
  <1>3. /\ tx' = [tx EXCEPT ![t] = w] /\ Free(t, row, "update")
        /\ locks' = IF Matches(t, row) THEN locks \cup {Lock(t, row, "update")}
                                       ELSE locks
    BY <1>1 DEF EndRow
  <1>4. /\ mine \in SUBSET Rows /\ todo \in SUBSET Rows
        /\ Matches(t, row) => row \in mine
        /\ \A r \in tx[t].todo \cup tx[t].mine : r # row => r \in todo \cup mine
        /\ row \in tx[t].mine => row \in mine /\ todo \subseteq tx[t].todo
        /\ todo \subseteq tx[t].todo
        /\ \A r \in mine : r # row => r \in tx[t].mine
        /\ row \in mine => row \in tx[t].mine \/ Matches(t, row)
    BY <1>1 DEF TxRows
  <1> HIDE DEF mine, todo
  <1>5. /\ w \in TxRows /\ w.pc = tx[t].pc /\ w.op = tx[t].op
        /\ w.user = tx[t].user /\ w.client = tx[t].client
        /\ w.why = tx[t].why /\ w.todo = todo /\ w.mine = mine
    BY <1>1, <1>4 DEF TxRows
  <1> HIDE DEF w
  <1>6. About(w)
    <2>1. /\ \A k \in CodeIds : row = Code(k) /\ Matches(t, row) => code[k].st # "none"
          /\ \A g \in GrantIds : row = Grant(g) /\ Matches(t, row) => grant[g].st # "none"
      BY DEF Matches, Code, Grant
    <2>2. /\ \A k \in CodeIds : Code(k) \in mine => code[k].st # "none"
          /\ \A g \in GrantIds : Grant(g) \in mine => grant[g].st # "none"
      BY <1>1, <1>4, <2>1 DEF About
    <2> QED BY <1>1, <1>2, <1>4, <1>5, <2>2 DEF About, Enders, Users
  <1>7. EnderStep(t, w)
    BY <1>1, <1>2, <1>3, <1>5 DEF EnderStep
  <1>8. tx'[t] = w /\ code' = code /\ grant' = grant
    BY <1>1, <1>3 DEF tables
  <1>9. \A r : Theirs(t, r)' <=> Theirs(t, r)
    BY <1>5, <1>8 DEF Theirs
  <1>10. Covers(t)'
    <2>1. \A k \in CodeIds : row = Code(k) =>
             (code[k].st = "open" /\ Theirs(t, code[k]) => Matches(t, row))
      BY DEF Code, Matches
    <2>2. \A g \in GrantIds : row = Grant(g) =>
             (grant[g].st = "live" /\ Theirs(t, grant[g]) => Matches(t, row))
      BY DEF Grant, Matches
    <2> QED BY <1>1, <1>4, <1>5, <1>8, <1>9, <2>1, <2>2 DEF Covers
  <1>11. CASE ~Matches(t, row)
    BY <1>3, <1>5, <1>6, <1>7, <1>10, <1>11, EnderGoesOn
  <1>12. CASE Matches(t, row)
    <2>1. Take(t, row, "update", w)
      BY <1>1, <1>3, <1>12 DEF Take
    <2>2. /\ Steps(w) /\ Holds(t)'
          /\ \A l \in locks : l.tx = t => Tells(l)'
      BY <1>3, <1>5, <1>7, EnderHolds
    <2>3. Tells(Lock(t, row, "update"))'
      <3>1. \/ tx[t].pc = "ending codes" /\ row[1] = "code"
            \/ tx[t].pc = "ending grants" /\ row[1] = "grant"
        BY <1>1, <1>2 DEF About
      <3>2. \/ \E k \in CodeIds : row = Code(k)
            \/ \E g \in GrantIds : row = Grant(g)
        BY DEF Rows, Code, Grant
      <3>3. /\ row[1] = "code" => \E k \in CodeIds : row = Code(k)
            /\ row[1] = "grant" => \E g \in GrantIds : row = Grant(g)
        BY <3>2 DEF Code, Grant
      <3>4. Lock(t, row, "update").row = row /\ Lock(t, row, "update").tx = t
        BY DEF Lock
      <3> QED BY <1>2, <1>5, <1>8, <3>1, <3>3, <3>4
              DEF Tells, CodesMet, GrantsMet
    <2>4. \A l \in locks' : l.tx = t => Tells(l)'
      BY <1>3, <1>12, <2>2, <2>3
    <2> QED BY <1>5, <1>6, <1>10, <2>1, <2>2, <2>4, TakeKept
  <1> QED BY <1>11, <1>12

-----------------------------------------------------------------------------
(* The steps that write.                                                    *)

LEMMA EndTyped ==
    ASSUME TypeOK, NEW t \in Txs, End(t)
    PROVE  /\ tx' \in [Txs -> TxRows]
           /\ \A l \in locks' : l.tx \in Txs /\ l.mode \in {"share", "update"}
  BY Typed, ConstantsTyped DEF Types, End, Released

LEMMA CodesStand ==
    ASSUME UNCHANGED code
    PROVE  CodesGoOn
  BY DEF CodesGoOn

LEMMA GrantsStand ==
    ASSUME TypeOK, UNCHANGED grant
    PROVE  GrantsGoOn
  <1>1. \A g \in GrantIds : grant[g].n \in Nat
    BY Typed, ConstantsTyped DEF Types, GrantRows
  <1>2. \A g \in GrantIds : grant[g].n <= grant[g].n
    BY <1>1
  <1> QED BY <1>2 DEF GrantsGoOn

LEMMA BrokenTyped ==
    ASSUME TypeOK, NEW over, Break(over)
    PROVE  req' \in [Requests -> ReqRows]
  <1>1. \A q \in Requests : /\ req[q] \in ReqRows
                            /\ [req[q] EXCEPT !.broken = TRUE] \in ReqRows
    BY Typed DEF Types, ReqRows
  <1> QED BY <1>1 DEF Break

\* Of a request: what it was let in with stays, and it is told when it ends.
LEMMA BreakDoes ==
    ASSUME TypeOK, NEW over, Break(over), NEW q \in Requests
    PROVE  /\ req'[q].st = req[q].st /\ req'[q].grant = req[q].grant
           /\ req'[q].n = req[q].n
           /\ req'[q].broken => \/ req[q].broken
                                \/ /\ req[q].st = "reading"
                                   /\ <<req[q].grant, req[q].n>> \in over
  BY Typed DEF Types, Break, ReqRows

\* What a decision, a resumption or a step that keeps nothing changes.
LEMMA StatusKept ==
    ASSUME Inv, NEW t \in Txs, End(t), UNCHANGED <<code, grant, tokens, req>>,
           stopped' \in [People -> SUBSET Stops],
           client' \in [Clients -> Statuses],
           \A p \in People : stopped'[p] # {} => stopped[p] # {},
           \A c \in Clients : /\ client'[c] = "refused" => client[c] = "refused"
                              /\ client[c] = "approved" => client'[c] = "approved"
    PROVE  Inv'
  <1>1. TypeOK'
    BY Typed, EndTyped DEF Types, Inv
  <1>2. CodesGoOn /\ GrantsGoOn
    BY CodesStand, GrantsStand DEF Inv
  <1>3. \A u \in Txs : NoneMissed(u) /\ ApprovalStands(u)
    BY DEF NoneMissed, ApprovalStands, Theirs
  <1>4. Issued' /\ \A q \in Requests : Asked(q)'
    BY DEF Inv, Issued, Asked
  <1>5. EndedMeansOver' /\ AnswersAreOfLiveAccess'
    BY DEF Inv, EndedMeansOver, RefusedIsOver, StoppedIsOver,
       ReplayedIsOver, Over, CodesOf, GrantsOf, AnswersAreOfLiveAccess
  <1> QED BY <1>1, <1>2, <1>3, <1>4, <1>5, EndKept

LEMMA ApproveKept ==
    ASSUME Inv, NEW t \in Txs, Approve(t)
    PROVE  Inv'
  <1>1. /\ client' = [client EXCEPT ![tx[t].client] = "approved"] /\ End(t)
        /\ UNCHANGED <<stopped, code, grant, tokens, req>>
    BY DEF Approve
  <1>2. stopped \in [People -> SUBSET Stops] /\ client \in [Clients -> Statuses]
    BY Typed DEF Types, Inv
  <1>3. client' \in [Clients -> Statuses]
    BY <1>1, <1>2 DEF Statuses
  <1>4. \A c \in Clients : client'[c] \in {client[c], "approved"}
    BY <1>1, <1>2
  <1>5. \A c \in Clients : /\ client'[c] = "refused" => client[c] = "refused"
                           /\ client[c] = "approved" => client'[c] = "approved"
    BY <1>4
  <1> QED BY <1>1, <1>2, <1>3, <1>5, StatusKept

LEMMA ResumeKept ==
    ASSUME Inv, NEW t \in Txs, Resume(t)
    PROVE  Inv'
  <1>1. /\ \/ stopped' = stopped
           \/ stopped' = [stopped EXCEPT ![tx[t].user] = @ \ {tx[t].why}]
        /\ End(t) /\ UNCHANGED <<client, code, grant, tokens, req>>
    BY DEF Resume
  <1>2. stopped \in [People -> SUBSET Stops] /\ client \in [Clients -> Statuses]
    BY Typed DEF Types, Inv
  <1>3. stopped' \in [People -> SUBSET Stops]
    BY <1>1, <1>2
  <1>4. \A p \in People : stopped'[p] \subseteq stopped[p]
    BY <1>1, <1>2
  <1> QED BY <1>1, <1>2, <1>3, <1>4, StatusKept

\* Rolled back, or nothing to do.
LEMMA NothingWritten ==
    ASSUME Inv, NEW t \in Txs, End(t), UNCHANGED <<tables, req>>
    PROVE  Inv'
  <1>1. stopped \in [People -> SUBSET Stops] /\ client \in [Clients -> Statuses]
    BY Typed DEF Types, Inv
  <1> QED BY <1>1, StatusKept DEF tables

LEMMA StopPersonKept ==
    ASSUME Inv, NEW t \in Txs, StopPerson(t)
    PROVE  Inv'
  <1>1. CASE End(t) /\ UNCHANGED <<tables, req>>
    BY <1>1, NothingWritten
  <1>2. CASE Take(t, Person(tx[t].user), "update", Goto(t, "codes"))
    BY <1>2, HoldEndedKept DEF StopPerson, At
  <1> QED BY <1>1, <1>2 DEF StopPerson

LEMMA NoteClientKept ==
    ASSUME Inv, NEW c \in Clients, NoteClient(c)
    PROVE  Inv'
  <1>1. /\ client[c] = "none" /\ client' = [client EXCEPT ![c] = "pending"]
        /\ UNCHANGED <<stopped, code, grant, tokens, tx, locks, req>>
    BY DEF NoteClient
  <1>2. TypeOK' /\ client \in [Clients -> Statuses]
    BY <1>1, Typed DEF Types, Inv, Statuses
  <1>3. \A d \in Clients : client'[d] = IF d = c THEN "pending" ELSE client[d]
    BY <1>1, <1>2
  <1>4. CodesGoOn /\ GrantsGoOn
    BY <1>1, CodesStand, GrantsStand DEF Inv
  <1>5. \A u \in Txs : NoneMissed(u) /\ ApprovalStands(u)
    BY <1>1, <1>3 DEF NoneMissed, ApprovalStands, Theirs
  <1>6. Issued' /\ \A q \in Requests : Asked(q)'
    BY <1>1 DEF Inv, Issued, Asked
  <1>7. EndedMeansOver' /\ AnswersAreOfLiveAccess'
    BY <1>1, <1>3 DEF Inv, EndedMeansOver, RefusedIsOver, StoppedIsOver,
       ReplayedIsOver, Over, CodesOf, GrantsOf, AnswersAreOfLiveAccess
  <1> QED BY <1>1, <1>2, <1>4, <1>5, <1>6, <1>7, NoTxKept

\* Who holds the person and the approved client shares them with no one who
\* ends their access.
LEMMA NoEnder ==
    ASSUME Inv, NEW t \in Txs, NEW u \in Txs, u # t,
           tx[t].op \in Users, tx[t].pc \in PastClient, tx[t].approved,
           tx[u].op \in Enders, tx[u].pc \in EndPcs,
           NEW r, r.user = tx[t].user, r.client = tx[t].client
    PROVE  ~Theirs(u, r)
  <1>1. Holds(t) /\ Holds(u) /\ Alone
    BY DEF Inv
  <1>2. /\ Lock(t, Person(tx[t].user), "share") \in locks
        /\ Lock(t, Client(tx[t].client), "share") \in locks
    BY <1>1 DEF Holds, PastClient, PastPerson
  <1>3. CASE tx[u].op = "refuse"
    <2>1. Lock(u, Client(tx[u].client), "update") \in locks
      BY <1>1, <1>3 DEF Holds
    <2> QED BY <1>1, <1>2, <1>3, <2>1 DEF Alone, Lock, Theirs
  <1>4. CASE tx[u].op \in {"stop", "remove"}
    <2>1. Lock(u, Person(tx[u].user), "update") \in locks
      BY <1>1, <1>4 DEF Holds
    <2> QED BY <1>1, <1>2, <1>4, <2>1 DEF Alone, Lock, Theirs
  <1> QED BY <1>3, <1>4 DEF Enders

\* A code only for a person not stopped and a client approved all the while.
LEMMA IssueCodeKept ==
    ASSUME Inv, NEW t \in Txs, NEW k \in CodeIds, IssueCode(t, k)
    PROVE  Inv'
  <1> DEFINE w == tx[t]
             r == [NoCode EXCEPT !.st = "open", !.user = w.user,
                                 !.client = w.client]
  <1>1. /\ TypeOK /\ w \in TxRows /\ About(w) /\ Holds(t) /\ Issued
        /\ w.op = "issue" /\ w.pc = "commit" /\ LivePerson(w.user) /\ w.approved
        /\ code[k].st = "none" /\ code' = [code EXCEPT ![k] = r] /\ End(t)
        /\ UNCHANGED <<stopped, client, grant, tokens, req>>
        /\ code \in [CodeIds -> CodeRows]
    BY Typed DEF Types, Inv, IssueCode, At, Fresh
  <1>2. /\ w.user \in People /\ stopped[w.user] = {}
        /\ w.client \in Clients /\ client[w.client] = "approved"
    BY <1>1 DEF LivePerson, About, Users, Holds, PastClient
  <1>3. /\ r \in CodeRows /\ r.st = "open" /\ r.user = w.user
        /\ r.client = w.client /\ r.grant = 0
    BY <1>1, ConstantsTyped DEF CodeRows, TxRows, NoCode
  <1> HIDE DEF r
  <1>4. /\ code' \in [CodeIds -> CodeRows] /\ code'[k] = r
        /\ \A j \in CodeIds : j # k => code'[j] = code[j]
    BY <1>1, <1>3
  <1>5. TypeOK'
    BY <1>1, <1>4, Typed, EndTyped DEF Types
  <1>6. CodesGoOn /\ GrantsGoOn
    BY <1>1, <1>4, GrantsStand DEF CodesGoOn
  <1>7. ASSUME NEW u \in Txs \ {t} PROVE NoneMissed(u) /\ ApprovalStands(u)
    <2>1. ApprovalStands(u)
      BY <1>1 DEF ApprovalStands
    <2>2. tx[u].op \in Enders /\ tx[u].pc \in EndPcs => ~Theirs(u, r)
      BY <1>1, <1>3, NoEnder DEF Users, PastClient
    <2>3. CodesMet \subseteq EndPcs /\ GrantsMet \subseteq EndPcs
      BY DEF CodesMet, GrantsMet, EndPcs
    <2>4. NoneMissed(u)
      BY <1>1, <1>4, <2>2, <2>3 DEF NoneMissed
    <2> QED BY <2>1, <2>4
  <1>8. Issued' /\ \A q \in Requests : Asked(q)'
    BY <1>1, <1>2, <1>3, <1>4 DEF Inv, Issued, Asked
  <1>9. EndedMeansOver' /\ AnswersAreOfLiveAccess'
    <2>1. RefusedIsOver'
      BY <1>1, <1>2, <1>3, <1>4
      DEF Inv, EndedMeansOver, RefusedIsOver, Over, CodesOf, GrantsOf
    <2>2. StoppedIsOver'
      BY <1>1, <1>2, <1>3, <1>4
      DEF Inv, EndedMeansOver, StoppedIsOver, Over, CodesOf, GrantsOf
    <2>3. ReplayedIsOver'
      BY <1>1, <1>3, <1>4 DEF Inv, EndedMeansOver, ReplayedIsOver
    <2> QED BY <1>1, <2>1, <2>2, <2>3
            DEF Inv, EndedMeansOver, AnswersAreOfLiveAccess
  <1> QED BY <1>1, <1>5, <1>6, <1>7, <1>8, <1>9, EndKept

\* A code redeemed in time makes a grant for who holds the approval; redeemed
\* wrongly, or too late, it makes none.
LEMMA RedeemKept ==
    ASSUME Inv, NEW t \in Txs, NEW right \in BOOLEAN, NEW g \in GrantIds,
           Redeem(t, right, g)
    PROVE  Inv'
  <1> DEFINE w == tx[t]
             k == w.code
             made == /\ right /\ code[k].client = w.client /\ w.approved
                     /\ LivePerson(code[k].user)
             r == [st |-> "live", n |-> 0, user |-> code[k].user,
                   client |-> code[k].client]
             now == IF made THEN g ELSE code[k].grant
             c == [code[k] EXCEPT !.st = "used", !.grant = now]
  <1>1. /\ TypeOK /\ w \in TxRows /\ About(w) /\ Holds(t) /\ Issued
        /\ w.op = "redeem" /\ w.pc = "code" /\ code[k].st = "open"
        /\ made => grant[g].st = "none"
        /\ grant' = IF made THEN [grant EXCEPT ![g] = r] ELSE grant
        /\ tokens' = IF made THEN tokens \cup {<<g, 0>>} ELSE tokens
        /\ End(t) /\ UNCHANGED <<stopped, client, req>>
        /\ code \in [CodeIds -> CodeRows] /\ grant \in [GrantIds -> GrantRows]
        /\ tokens \subseteq GrantIds \X Rotations
    BY Typed DEF Types, Inv, Redeem, At, Fresh
  <1>2. k \in CodeIds /\ code[k] \in CodeRows /\ code[k].user = w.user
        /\ code[k].user \in People /\ code[k].client \in Clients
    BY <1>1 DEF About, Issued
  <1>3. made \in BOOLEAN /\ now \in 0..MaxGrants
    BY <1>1, <1>2, ConstantsTyped DEF CodeRows, LivePerson, TxRows
  <1>4. made => /\ w.approved /\ w.client = code[k].client
                /\ stopped[code[k].user] = {} /\ client[code[k].client] = "approved"
    BY <1>1 DEF LivePerson, Holds, Users, PastClient
  <1>5. /\ r \in GrantRows /\ r.st = "live" /\ r.n = 0
        /\ r.user = code[k].user /\ r.client = code[k].client
    BY <1>2, ConstantsTyped DEF GrantRows, Rotations
  <1>6. code' = [code EXCEPT ![k] = c]
    BY <1>1 DEF Redeem
  <1> HIDE DEF made, now, r
  <1>7. /\ c \in CodeRows /\ c.st = "used" /\ c.user = code[k].user
        /\ c.client = code[k].client /\ c.grant = now
    BY <1>2, <1>3 DEF CodeRows
  <1> HIDE DEF c
  <1>8. /\ code' \in [CodeIds -> CodeRows] /\ code'[k] = c
        /\ \A j \in CodeIds : j # k => code'[j] = code[j]
    BY <1>1, <1>2, <1>6, <1>7
  <1>9. /\ grant' \in [GrantIds -> GrantRows]
        /\ made => grant'[g] = r
        /\ \A h \in GrantIds : h # g \/ ~made => grant'[h] = grant[h]
    BY <1>1, <1>3, <1>5
  <1>10. TypeOK'
    <2>1. tokens' \subseteq GrantIds \X Rotations
      BY <1>1, ConstantsTyped DEF Rotations
    <2> QED BY <1>1, <1>8, <1>9, <2>1, Typed, EndTyped DEF Types
  <1>11. CodesGoOn
    BY <1>1, <1>7, <1>8 DEF CodesGoOn
  <1>12. GrantsGoOn
    <2>1. \A h \in GrantIds : grant[h].n \in Nat
      BY <1>1, ConstantsTyped DEF GrantRows
    <2>2. \A h \in GrantIds : grant[h].st # "none" => grant'[h] = grant[h]
      BY <1>1, <1>9
    <2>3. \A h \in GrantIds : grant[h].n <= grant[h].n
      BY <2>1
    <2> QED BY <2>2, <2>3 DEF GrantsGoOn
  <1>13. ASSUME NEW u \in Txs \ {t} PROVE NoneMissed(u) /\ ApprovalStands(u)
    <2>1. ApprovalStands(u)
      BY <1>1 DEF ApprovalStands
    <2>2. made /\ tx[u].op \in Enders /\ tx[u].pc \in EndPcs => ~Theirs(u, r)
      BY <1>1, <1>2, <1>4, <1>5, NoEnder DEF Users, PastClient
    <2>3. CodesMet \subseteq EndPcs /\ GrantsMet \subseteq EndPcs
      BY DEF CodesMet, GrantsMet, EndPcs
    <2>4. NoneMissed(u)
      BY <1>7, <1>8, <1>9, <2>2, <2>3 DEF NoneMissed
    <2> QED BY <2>1, <2>4
  <1>14. Issued'
    <2>1. \A j \in CodeIds : code'[j].st # "none"
             => code'[j].user \in People /\ code'[j].client \in Clients
      BY <1>1, <1>2, <1>7, <1>8 DEF Issued
    <2>2. \A h \in GrantIds : grant'[h].st # "none"
             => grant'[h].user \in People /\ grant'[h].client \in Clients
      BY <1>1, <1>2, <1>5, <1>9 DEF Issued
    <2>3. ASSUME NEW h \in GrantIds, NEW n \in Rotations, <<h, n>> \in tokens'
          PROVE  grant'[h].st # "none" /\ n <= grant'[h].n
      <3>1. CASE <<h, n>> \in tokens
        BY <1>1, <1>9, <3>1 DEF Issued
      <3>2. CASE made /\ h = g /\ n = 0
        BY <1>5, <1>9, <3>2
      <3> QED BY <1>1, <2>3, <3>1, <3>2
    <2>4. ASSUME NEW j \in CodeIds, code'[j].grant # 0
          PROVE  grant'[code'[j].grant].st # "none"
      <3>1. CASE made /\ j = k
        BY <1>5, <1>7, <1>8, <1>9, <3>1 DEF now
      <3>2. CASE ~made \/ j # k
        <4>1. code'[j].grant = code[j].grant /\ code[j].grant \in GrantIds
          BY <1>1, <1>7, <1>8, <2>4, <3>2 DEF now, CodeRows, GrantIds
        <4>2. grant[code[j].grant].st # "none"
          BY <1>1, <2>4, <4>1 DEF Issued
        <4> QED BY <1>1, <1>9, <4>1, <4>2
      <3> QED BY <3>1, <3>2
    <2> QED BY <2>1, <2>2, <2>3, <2>4 DEF Issued
  <1>15. ASSUME NEW q \in Requests PROVE Asked(q)'
    <2>1. Asked(q) /\ req' = req
      BY <1>1 DEF Inv
    <2>2. ASSUME req[q].st = "reading"
          PROVE  /\ req[q].grant \in GrantIds
                 /\ grant'[req[q].grant] = grant[req[q].grant]
                 /\ <<req[q].grant, req[q].n>> \notin tokens
                       => <<req[q].grant, req[q].n>> \notin tokens'
      BY <1>1, <1>9, <2>1, <2>2 DEF Asked
    <2> QED BY <2>1, <2>2 DEF Asked
  <1>16. EndedMeansOver' /\ AnswersAreOfLiveAccess'
    <2>1. RefusedIsOver'
      BY <1>1, <1>4, <1>5, <1>7, <1>8, <1>9
      DEF Inv, EndedMeansOver, RefusedIsOver, Over, CodesOf, GrantsOf
    <2>2. StoppedIsOver'
      BY <1>1, <1>4, <1>5, <1>7, <1>8, <1>9
      DEF Inv, EndedMeansOver, StoppedIsOver, Over, CodesOf, GrantsOf
    <2>3. ReplayedIsOver'
      <3> SUFFICES ASSUME NEW j \in CodeIds, code'[j].st = "replayed",
                          code'[j].grant # 0
                   PROVE  grant'[code'[j].grant].st = "revoked"
        BY DEF ReplayedIsOver
      <3>1. code'[j] = code[j]
        <4>1. code'[k].st # "replayed"
          BY <1>7, <1>8
        <4> QED BY <1>8, <4>1
      <3>2. grant[code[j].grant].st = "revoked"
        BY <3>1 DEF Inv, EndedMeansOver, ReplayedIsOver
      <3>3. code[j] \in CodeRows /\ code[j].grant # 0
        BY <1>8, <3>1
      <3>4. code[j].grant \in GrantIds
        BY <3>3, ConstantsTyped DEF CodeRows, GrantIds
      <3> QED BY <1>1, <1>9, <3>1, <3>2, <3>4
    <2> QED BY <1>1, <2>1, <2>2, <2>3
            DEF Inv, EndedMeansOver, AnswersAreOfLiveAccess
  <1> QED BY <1>1, <1>10, <1>11, <1>12, <1>13, <1>14, <1>15, <1>16, EndKept

\* A grant is revoked, and who reads with it is told.
LEMMA RevokeDoes ==
    ASSUME Inv, NEW g \in GrantIds, grant[g].st # "none",
           grant' = [grant EXCEPT ![g].st = "revoked"],
           Break({g} \X Rotations), UNCHANGED tokens
    PROVE  /\ grant' \in [GrantIds -> GrantRows]
           /\ \A h \in GrantIds :
                 /\ grant'[h].user = grant[h].user
                 /\ grant'[h].client = grant[h].client
                 /\ grant'[h].n = grant[h].n
                 /\ grant'[h].st = IF h = g THEN "revoked" ELSE grant[h].st
           /\ GrantsGoOn
           /\ req' \in [Requests -> ReqRows]
           /\ \A q \in Requests : Asked(q)'
           /\ AnswersAreOfLiveAccess'
  <1>1. TypeOK /\ grant \in [GrantIds -> GrantRows]
    BY Typed DEF Types, Inv
  <1>2. grant' \in [GrantIds -> GrantRows]
    BY <1>1 DEF GrantRows
  <1>3. \A h \in GrantIds :
           /\ grant'[h].user = grant[h].user
           /\ grant'[h].client = grant[h].client
           /\ grant'[h].n = grant[h].n
           /\ grant'[h].st = IF h = g THEN "revoked" ELSE grant[h].st
    BY <1>1 DEF GrantRows
  <1>4. GrantsGoOn
    <2>1. \A h \in GrantIds : grant[h].n \in Nat
      BY <1>1, ConstantsTyped DEF GrantRows
    <2>2. \A h \in GrantIds : grant[h].n <= grant[h].n
      BY <2>1
    <2> QED BY <1>3, <2>2 DEF GrantsGoOn
  <1>5. req' \in [Requests -> ReqRows]
    BY <1>1, BrokenTyped
  <1>6. ASSUME NEW q \in Requests PROVE Asked(q)'
    <2>1. /\ req'[q].st = req[q].st /\ req'[q].grant = req[q].grant
          /\ req'[q].n = req[q].n
          /\ req'[q].broken => req[q].broken \/ req[q].grant = g
      <3>1. PICK over : over = {g} \X Rotations
        OBVIOUS
      <3>2. Break(over)
        BY <3>1
      <3>3. /\ req'[q].st = req[q].st /\ req'[q].grant = req[q].grant
            /\ req'[q].n = req[q].n
            /\ req'[q].broken => \/ req[q].broken
                                 \/ /\ req[q].st = "reading"
                                    /\ <<req[q].grant, req[q].n>> \in over
        BY <1>1, <3>2, BreakDoes
      <3> QED BY <3>1, <3>3
    <2>2. Asked(q)
      BY DEF Inv
    <2> QED BY <1>3, <2>1, <2>2 DEF Asked
  <1>7. AnswersAreOfLiveAccess'
    <2>1. \A q \in Requests : /\ req'[q].st = req[q].st
                              /\ req[q].st # "reading" =>
                                    (req'[q].broken => req[q].broken)
      BY <1>1, BreakDoes
    <2> QED BY <2>1 DEF Inv, AnswersAreOfLiveAccess
  <1> QED BY <1>2, <1>3, <1>4, <1>5, <1>6, <1>7

LEMMA ReplayKept ==
    ASSUME Inv, NEW t \in Txs, Replay(t)
    PROVE  Inv'
  <1> DEFINE k == tx[t].code
             g == tx[t].grant
  <1>1. /\ TypeOK /\ About(tx[t]) /\ tx[t].op = "redeem" /\ tx[t].pc = "replay"
        /\ End(t) /\ UNCHANGED <<stopped, client, tokens>>
        /\ code' = [code EXCEPT ![k].st = "replayed"]
        /\ code \in [CodeIds -> CodeRows]
        /\ stopped \in [People -> SUBSET Stops]
        /\ client \in [Clients -> Statuses]
        /\ tokens \subseteq GrantIds \X Rotations
        /\ grant \in [GrantIds -> GrantRows] /\ req \in [Requests -> ReqRows]
    BY Typed DEF Types, Inv, Replay, At
  <1>2. k \in CodeIds /\ g = code[k].grant /\ code[k].st \notin {"none", "open"}
    BY <1>1 DEF About
  <1>3. /\ code' \in [CodeIds -> CodeRows]
        /\ \A j \in CodeIds :
              /\ code'[j].user = code[j].user /\ code'[j].client = code[j].client
              /\ code'[j].grant = code[j].grant
              /\ code'[j].st = IF j = k THEN "replayed" ELSE code[j].st
    BY <1>1, <1>2 DEF CodeRows
  <1>4. CodesGoOn
    BY <1>2, <1>3 DEF CodesGoOn
  <1>5. /\ grant' \in [GrantIds -> GrantRows] /\ GrantsGoOn
        /\ req' \in [Requests -> ReqRows]
        /\ \A q \in Requests : Asked(q)'
        /\ AnswersAreOfLiveAccess'
        /\ \A h \in GrantIds :
              /\ grant'[h].user = grant[h].user
              /\ grant'[h].client = grant[h].client
              /\ grant'[h].n = grant[h].n
              /\ grant'[h].st = IF h = g THEN "revoked" ELSE grant[h].st
    <2>1. CASE g = 0
      <3>1. UNCHANGED <<grant, req>>
        BY <2>1 DEF Replay
      <3> QED BY <1>1, <2>1, <3>1, GrantsStand, ConstantsTyped
              DEF Inv, Asked, AnswersAreOfLiveAccess
    <2>2. CASE g # 0
      <3>1. /\ grant' = [grant EXCEPT ![g].st = "revoked"]
            /\ Break({g} \X Rotations)
        BY <2>2 DEF Replay
      <3>2. g \in GrantIds /\ grant[g].st # "none"
        BY <1>1, <1>2, <2>2 DEF Inv, Issued, CodeRows, GrantIds
      <3> HIDE DEF g
      <3> QED BY <1>1, <3>1, <3>2, RevokeDoes
    <2> QED BY <2>1, <2>2
  <1>6. TypeOK'
    BY <1>1, <1>3, <1>5, EndTyped, Typed DEF Types
  <1>7. \A u \in Txs : NoneMissed(u) /\ ApprovalStands(u)
    BY <1>1, <1>2, <1>3, <1>5 DEF NoneMissed, ApprovalStands, Theirs
  <1>8. Issued'
    <2>1. /\ \A j \in CodeIds : code'[j].st # "none" => code[j].st # "none"
          /\ \A h \in GrantIds : grant[h].st # "none" => grant'[h].st # "none"
          /\ \A h \in GrantIds : grant'[h].st # "none" =>
                grant[h].st # "none" \/ h = g
      BY <1>2, <1>3, <1>5
    <2>2. g \in GrantIds => grant[g].st # "none"
      BY <1>2, ConstantsTyped DEF Inv, Issued
    <2>3. \A j \in CodeIds : code[j].grant # 0 => code[j].grant \in GrantIds
      BY <1>1 DEF CodeRows, GrantIds
    <2> QED BY <1>1, <1>3, <1>5, <2>1, <2>2, <2>3, SMTT(30) DEF Inv, Issued
  <1>9. EndedMeansOver'
    <2>1. RefusedIsOver' /\ StoppedIsOver'
      BY <1>1, <1>2, <1>3, <1>5, SMTT(30) DEF Inv, EndedMeansOver, RefusedIsOver,
         StoppedIsOver, Over, CodesOf, GrantsOf
    <2>2. ReplayedIsOver'
      <3> SUFFICES ASSUME NEW j \in CodeIds, code'[j].st = "replayed",
                          code'[j].grant # 0
                   PROVE  grant'[code'[j].grant].st = "revoked"
        BY DEF ReplayedIsOver
      <3>1. code'[j].grant = code[j].grant /\ code[j].grant \in GrantIds
        BY <1>1, <1>3 DEF CodeRows, GrantIds
      <3>2. j # k => grant[code[j].grant].st = "revoked"
        BY <1>3, <3>1 DEF Inv, EndedMeansOver, ReplayedIsOver
      <3> QED BY <1>2, <1>5, <3>1, <3>2
    <2> QED BY <2>1, <2>2 DEF EndedMeansOver
  <1> QED BY <1>1, <1>4, <1>5, <1>6, <1>7, <1>8, <1>9, EndKept

\* What a revocation leaves of the tables, whoever makes it.
LEMMA RevokedKept ==
    ASSUME Inv, NEW g \in GrantIds, grant[g].st # "none",
           grant' = [grant EXCEPT ![g].st = "revoked"],
           Break({g} \X Rotations), UNCHANGED <<stopped, client, code, tokens>>
    PROVE  /\ CodesGoOn /\ GrantsGoOn /\ Issued' /\ EndedMeansOver'
           /\ \A u \in Txs : NoneMissed(u) /\ ApprovalStands(u)
           /\ \A q \in Requests : Asked(q)'
           /\ AnswersAreOfLiveAccess'
           /\ (/\ tx' \in [Txs -> TxRows]
               /\ \A l \in locks' : l.tx \in Txs /\ l.mode \in {"share", "update"}
              => TypeOK')
  <1>1. /\ grant' \in [GrantIds -> GrantRows] /\ GrantsGoOn
        /\ req' \in [Requests -> ReqRows]
        /\ \A q \in Requests : Asked(q)'
        /\ AnswersAreOfLiveAccess'
        /\ \A h \in GrantIds :
              /\ grant'[h].user = grant[h].user
              /\ grant'[h].client = grant[h].client
              /\ grant'[h].n = grant[h].n
              /\ grant'[h].st = IF h = g THEN "revoked" ELSE grant[h].st
    BY RevokeDoes
  <1>2. Types
    BY Typed DEF Inv
  <1>3. /\ tx' \in [Txs -> TxRows]
        /\ \A l \in locks' : l.tx \in Txs /\ l.mode \in {"share", "update"}
        => TypeOK'
    BY <1>1, <1>2, Typed DEF Types
  <1>4. CodesGoOn
    BY CodesStand
  <1>5. \A u \in Txs : NoneMissed(u) /\ ApprovalStands(u)
    BY <1>1 DEF NoneMissed, ApprovalStands, Theirs
  <1>6. Issued'
    <2>1. \A h \in GrantIds : grant'[h].st # "none" <=> grant[h].st # "none"
      BY <1>1
    <2>2. \A j \in CodeIds : code[j].grant # 0 => code[j].grant \in GrantIds
      BY <1>2 DEF Types, CodeRows, GrantIds
    <2> QED BY <1>1, <2>1, <2>2 DEF Inv, Issued
  <1>7. EndedMeansOver'
    <2>1. RefusedIsOver' /\ StoppedIsOver'
      BY <1>1 DEF Inv, EndedMeansOver, RefusedIsOver,
         StoppedIsOver, Over, CodesOf, GrantsOf
    <2>2. ReplayedIsOver'
      <3>1. \A j \in CodeIds : code[j].grant # 0 => code[j].grant \in GrantIds
        BY <1>2 DEF Types, CodeRows, GrantIds
      <3> QED BY <1>1, <3>1 DEF Inv, EndedMeansOver, ReplayedIsOver
    <2> QED BY <2>1, <2>2 DEF EndedMeansOver
  <1> QED BY <1>1, <1>3, <1>4, <1>5, <1>6, <1>7

LEMMA RefreshReplayKept ==
    ASSUME Inv, NEW t \in Txs, RefreshReplay(t)
    PROVE  Inv'
  <1> DEFINE g == tx[t].grant
  <1>1. /\ grant' = [grant EXCEPT ![g].st = "revoked"]
        /\ Break({g} \X Rotations) /\ End(t)
        /\ UNCHANGED <<stopped, client, code, tokens>>
        /\ g \in GrantIds /\ grant[g].st # "none"
    BY DEF RefreshReplay, At, Inv, About
  <1>2. /\ tx' \in [Txs -> TxRows]
        /\ \A l \in locks' : l.tx \in Txs /\ l.mode \in {"share", "update"}
    BY <1>1, EndTyped DEF Inv
  <1> HIDE DEF g
  <1>3. /\ CodesGoOn /\ GrantsGoOn /\ Issued' /\ EndedMeansOver'
        /\ \A u \in Txs : NoneMissed(u) /\ ApprovalStands(u)
        /\ \A q \in Requests : Asked(q)'
        /\ AnswersAreOfLiveAccess' /\ TypeOK'
    BY <1>1, <1>2, RevokedKept
  <1> QED BY <1>1, <1>3, EndKept

LEMMA ClientRevokesKept ==
    ASSUME Inv, NEW g \in GrantIds, ClientRevokes(g)
    PROVE  Inv'
  <1>1. /\ grant' = [grant EXCEPT ![g].st = "revoked"]
        /\ Break({g} \X Rotations) /\ grant[g].st # "none"
        /\ UNCHANGED <<stopped, client, code, tokens, tx, locks>>
    BY DEF ClientRevokes
  <1>2. /\ tx' \in [Txs -> TxRows]
        /\ \A l \in locks' : l.tx \in Txs /\ l.mode \in {"share", "update"}
    BY <1>1, Typed DEF Types, Inv
  <1>3. /\ CodesGoOn /\ GrantsGoOn /\ Issued' /\ EndedMeansOver'
        /\ \A u \in Txs : NoneMissed(u) /\ ApprovalStands(u)
        /\ \A q \in Requests : Asked(q)'
        /\ AnswersAreOfLiveAccess' /\ TypeOK'
    BY <1>1, <1>2, RevokedKept
  <1> QED BY <1>1, <1>3, NoTxKept

LEMMA RefreshKept ==
    ASSUME Inv, NEW t \in Txs, Refresh(t)
    PROVE  Inv'
  <1> DEFINE g == tx[t].grant
             n == grant[g].n + 1
             r == [grant[g] EXCEPT !.n = n]
  <1>1. /\ TypeOK /\ g \in GrantIds /\ grant[g].st = "live"
        /\ n <= MaxRotations /\ tokens' = tokens \cup {<<g, n>>} /\ End(t)
        /\ UNCHANGED <<stopped, client, code, req>>
        /\ grant' = [grant EXCEPT ![g].n = n]
        /\ grant \in [GrantIds -> GrantRows] /\ grant[g] \in GrantRows
        /\ tokens \subseteq GrantIds \X Rotations
    BY Typed DEF Types, Inv, Refresh, At, About
  <1>2. grant[g].n \in Nat /\ MaxRotations \in Nat /\ n \in Rotations
    BY <1>1, ConstantsTyped DEF GrantRows, Rotations
  <1>3. grant' = [grant EXCEPT ![g] = r]
    BY <1>1
  <1>4. /\ r \in GrantRows /\ r.st = "live" /\ r.n = n
        /\ r.user = grant[g].user /\ r.client = grant[g].client
    BY <1>1, <1>2 DEF GrantRows
  <1>5. grant[g].n < n
    BY <1>2
  <1> HIDE DEF n, r
  <1>6. /\ grant' \in [GrantIds -> GrantRows]
        /\ \A h \in GrantIds :
              /\ grant'[h].st = grant[h].st /\ grant'[h].user = grant[h].user
              /\ grant'[h].client = grant[h].client
              /\ grant'[h].n = IF h = g THEN n ELSE grant[h].n
    BY <1>1, <1>3, <1>4
  <1>7. TypeOK'
    <2>1. tokens' \subseteq GrantIds \X Rotations
      BY <1>1, <1>2
    <2> QED BY <1>1, <1>6, <2>1, EndTyped, Typed DEF Types
  <1>8. \A h \in GrantIds : grant[h].n \in Nat /\ grant'[h].n \in Nat
                            /\ grant[h].n <= grant'[h].n
    <2>1. \A h \in GrantIds : grant[h].n \in Nat
      BY <1>1, ConstantsTyped DEF GrantRows
    <2>2. n \in Nat
      BY <1>2, ConstantsTyped
    <2> QED BY <1>2, <1>5, <1>6, <2>1, <2>2
  <1>9. CodesGoOn /\ GrantsGoOn
    BY <1>1, <1>6, <1>8, CodesStand DEF GrantsGoOn
  <1>10. \A u \in Txs : NoneMissed(u) /\ ApprovalStands(u)
    BY <1>1, <1>6 DEF NoneMissed, ApprovalStands, Theirs
  <1>11. Issued'
    <2>1. ASSUME NEW h \in GrantIds, NEW m \in Rotations, <<h, m>> \in tokens'
          PROVE  grant'[h].st # "none" /\ m <= grant'[h].n
      <3>1. CASE <<h, m>> \in tokens
        <4>1. grant[h].st # "none" /\ m <= grant[h].n /\ m \in Nat
          BY <3>1, ConstantsTyped DEF Inv, Issued
        <4> QED BY <1>6, <1>8, <4>1
      <3>2. CASE h = g /\ m = n
        BY <1>1, <1>2, <1>6, <3>2, ConstantsTyped
      <3> QED BY <1>1, <2>1, <3>1, <3>2
    <2>2. \A j \in CodeIds : code[j].grant # 0 => code[j].grant \in GrantIds
      BY <1>1, Typed DEF Types, CodeRows, GrantIds
    <2> QED BY <1>1, <1>6, <2>1, <2>2 DEF Inv, Issued
  <1>12. ASSUME NEW q \in Requests PROVE Asked(q)'
    <2> SUFFICES ASSUME req[q].st = "reading"
                 PROVE  /\ req[q].grant \in GrantIds
                        /\ grant'[req[q].grant].st # "none"
                        /\ req[q].n <= grant'[req[q].grant].n
                        /\ req[q].broken =>
                              \/ grant'[req[q].grant].st = "revoked"
                              \/ <<req[q].grant, req[q].n>> \notin tokens'
      BY <1>1 DEF Asked
    <2>1. /\ req[q].grant \in GrantIds /\ grant[req[q].grant].st # "none"
          /\ req[q].n <= grant[req[q].grant].n
          /\ req[q].broken => \/ grant[req[q].grant].st = "revoked"
                              \/ <<req[q].grant, req[q].n>> \notin tokens
      BY DEF Inv, Asked
    <2>2. req[q].n \in Nat /\ n \in Nat
      BY <1>1, <1>2, Typed, ConstantsTyped DEF Types, ReqRows
    <2>3. <<req[q].grant, req[q].n>> # <<g, n>>
      BY <1>5, <1>8, <2>1, <2>2
    <2>4. req[q].n <= grant'[req[q].grant].n
      BY <1>8, <2>1, <2>2
    <2> QED BY <1>1, <1>6, <2>1, <2>3, <2>4
  <1>13. EndedMeansOver' /\ AnswersAreOfLiveAccess'
    <2>1. RefusedIsOver' /\ StoppedIsOver' /\ AnswersAreOfLiveAccess'
      BY <1>1, <1>6 DEF Inv, EndedMeansOver, RefusedIsOver,
         StoppedIsOver, Over, CodesOf, GrantsOf, AnswersAreOfLiveAccess
    <2>2. \A j \in CodeIds : code[j].grant # 0 => code[j].grant \in GrantIds
      BY <1>1, Typed DEF Types, CodeRows, GrantIds
    <2>3. ReplayedIsOver'
      BY <1>1, <1>6, <2>2 DEF Inv, EndedMeansOver, ReplayedIsOver
    <2> QED BY <2>1, <2>3 DEF EndedMeansOver
  <1> QED BY <1>1, <1>7, <1>9, <1>10, <1>11, <1>12, <1>13, EndKept

LEMMA TokenEndsKept ==
    ASSUME Inv, NEW tok \in tokens, TokenEnds(tok)
    PROVE  Inv'
  <1>1. /\ tokens' = tokens \ {tok}
        /\ UNCHANGED <<stopped, client, code, grant, tx, locks>>
    BY DEF TokenEnds
  <1>2. PICK over : over = {tok}
    OBVIOUS
  <1>3. Break(over)
    BY <1>2 DEF TokenEnds
  <1>4. TypeOK
    BY DEF Inv
  <1>5. req' \in [Requests -> ReqRows]
    BY <1>3, <1>4, BrokenTyped
  <1>6. \A q \in Requests :
           /\ req'[q].st = req[q].st /\ req'[q].grant = req[q].grant
           /\ req'[q].n = req[q].n
           /\ req'[q].broken => \/ req[q].broken
                                \/ /\ req[q].st = "reading"
                                   /\ <<req[q].grant, req[q].n>> \in over
    BY <1>3, <1>4, BreakDoes
  <1>7. TypeOK'
    BY <1>1, <1>4, <1>5, Typed DEF Types
  <1>8. CodesGoOn /\ GrantsGoOn
    BY <1>1, <1>4, CodesStand, GrantsStand
  <1>9. \A u \in Txs : NoneMissed(u) /\ ApprovalStands(u)
    BY <1>1 DEF NoneMissed, ApprovalStands, Theirs
  <1>10. Issued'
    BY <1>1 DEF Inv, Issued
  <1>11. \A q \in Requests : Asked(q)'
    BY <1>1, <1>2, <1>6 DEF Inv, Asked
  <1>12. EndedMeansOver'
    BY <1>1 DEF Inv, EndedMeansOver, RefusedIsOver, StoppedIsOver,
       ReplayedIsOver, Over, CodesOf, GrantsOf
  <1>13. AnswersAreOfLiveAccess'
    BY <1>6 DEF Inv, AnswersAreOfLiveAccess
  <1> QED BY <1>1, <1>7, <1>8, <1>9, <1>10, <1>11, <1>12, <1>13, NoTxKept

\* A request is let in, or its answer is ready: nothing else changes.
LEMMA RequestKept ==
    ASSUME Inv, UNCHANGED <<tables, tx, locks>>,
           req' \in [Requests -> ReqRows],
           \A q \in Requests : Asked(q)', AnswersAreOfLiveAccess'
    PROVE  Inv'
  <1>1. TypeOK /\ UNCHANGED <<stopped, client, code, grant, tokens>>
    BY DEF Inv, tables
  <1>2. TypeOK'
    BY <1>1, Typed DEF Types
  <1>3. CodesGoOn /\ GrantsGoOn
    BY <1>1, CodesStand, GrantsStand
  <1>4. \A u \in Txs : NoneMissed(u) /\ ApprovalStands(u)
    BY <1>1 DEF NoneMissed, ApprovalStands, Theirs
  <1>5. Issued' /\ EndedMeansOver'
    BY <1>1 DEF Inv, Issued, EndedMeansOver, RefusedIsOver, StoppedIsOver,
       ReplayedIsOver, Over, CodesOf, GrantsOf
  <1> QED BY <1>2, <1>3, <1>4, <1>5, NoTxKept

LEMMA CheckAccessTokenKept ==
    ASSUME Inv, NEW q \in Requests, NEW tok \in tokens, CheckAccessToken(q, tok)
    PROVE  Inv'
  <1>1. PICK g \in GrantIds, n \in Rotations : tok = <<g, n>>
    BY Typed DEF Types, Inv
  <1> DEFINE r == [NoAnswer EXCEPT !.st = "reading", !.grant = g, !.n = n]
  <1>2. /\ req' = [req EXCEPT ![q] = r] /\ req \in [Requests -> ReqRows]
        /\ UNCHANGED <<tables, tx, locks>>
    BY <1>1, Typed DEF CheckAccessToken, Types, Inv
  <1>3. /\ r \in ReqRows /\ r.st = "reading" /\ r.grant = g /\ r.n = n
        /\ r.broken = FALSE
    BY ConstantsTyped DEF NoAnswer, ReqRows
  <1>4. grant[g].st # "none" /\ n <= grant[g].n
    BY <1>1 DEF Inv, Issued
  <1> HIDE DEF r
  <1>5. /\ req' \in [Requests -> ReqRows]
        /\ \A p \in Requests : req'[p] = IF p = q THEN r ELSE req[p]
    BY <1>2, <1>3
  <1>6. \A p \in Requests : Asked(p)'
    BY <1>2, <1>3, <1>4, <1>5 DEF Inv, Asked, tables
  <1>7. AnswersAreOfLiveAccess'
    BY <1>3, <1>5 DEF Inv, AnswersAreOfLiveAccess
  <1> QED BY <1>2, <1>5, <1>6, <1>7, RequestKept

\* An answer that leaves is of a grant that is live and a token that stands, so
\* of a request that lost neither.
LEMMA AnswerKept ==
    ASSUME Inv, NEW q \in Requests, Answer(q)
    PROVE  Inv'
  <1> DEFINE st == IF GrantIsLive(req[q].grant, req[q].n)
                   THEN "answered" ELSE "withheld"
             r == [req[q] EXCEPT !.st = st]
  <1>1. /\ req' = [req EXCEPT ![q].st = st] /\ req \in [Requests -> ReqRows]
        /\ req[q] \in ReqRows /\ UNCHANGED <<tables, tx, locks>>
        /\ req[q].st = "reading"
    BY Typed DEF Answer, Types, Inv
  <1>2. req' = [req EXCEPT ![q] = r]
    BY <1>1
  <1>3. st = "answered" => ~req[q].broken
    BY <1>1 DEF GrantIsLive, Inv, Asked
  <1>4. st \in {"answered", "withheld"}
    OBVIOUS
  <1> HIDE DEF st
  <1>5. r \in ReqRows /\ r.st = st /\ r.broken = req[q].broken
    BY <1>1, <1>4 DEF ReqRows
  <1> HIDE DEF r
  <1>6. /\ req' \in [Requests -> ReqRows]
        /\ \A p \in Requests : req'[p] = IF p = q THEN r ELSE req[p]
    BY <1>1, <1>2, <1>5
  <1>7. \A p \in Requests : Asked(p)'
    BY <1>1, <1>4, <1>5, <1>6 DEF Inv, Asked, tables
  <1>8. AnswersAreOfLiveAccess'
    BY <1>3, <1>5, <1>6 DEF Inv, AnswersAreOfLiveAccess
  <1> QED BY <1>1, <1>6, <1>7, <1>8, RequestKept

\* All that is theirs to end was met by now, and nothing was made since.
LEMMA CommitEndKept ==
    ASSUME Inv, NEW t \in Txs, CommitEnd(t)
    PROVE  Inv'
  <1> DEFINE w == tx[t]
  <1>1. /\ TypeOK /\ About(w) /\ Holds(t) /\ Covers(t) /\ w \in TxRows
        /\ w.op \in Enders /\ w.pc = "commit" /\ End(t) /\ UNCHANGED tokens
        /\ code \in [CodeIds -> CodeRows] /\ grant \in [GrantIds -> GrantRows]
        /\ stopped \in [People -> SUBSET Stops]
        /\ client \in [Clients -> Statuses]
        /\ tokens \subseteq GrantIds \X Rotations
        /\ req \in [Requests -> ReqRows]
    BY Typed DEF Types, Inv, CommitEnd
  <1>2. /\ \A k \in CodeIds : code[k].st = "open" /\ Theirs(t, code[k])
              => Code(k) \in w.mine
        /\ \A g \in GrantIds : grant[g].st = "live" /\ Theirs(t, grant[g])
              => Grant(g) \in w.mine
    <2>1. w.todo = {} /\ w.pc \in CodesMet /\ w.pc \in GrantsMet
      BY <1>1 DEF About, CodesMet, GrantsMet
    <2> QED BY <1>1, <2>1 DEF Covers
  <1>3. /\ \A k \in CodeIds : Code(k) \in w.mine => code[k].st # "none"
        /\ \A g \in GrantIds : Grant(g) \in w.mine => grant[g].st # "none"
    BY <1>1 DEF About
  <1>4. /\ code' = [k \in CodeIds |-> IF Code(k) \in w.mine
                                      THEN [code[k] EXCEPT !.st = "used"]
                                      ELSE code[k]]
        /\ grant' = [g \in GrantIds |-> IF Grant(g) \in w.mine
                                        THEN [grant[g] EXCEPT !.st = "revoked"]
                                        ELSE grant[g]]
    BY DEF CommitEnd
  <1>5. /\ stopped' = IF w.op = "stop"
                      THEN [stopped EXCEPT ![w.user] = @ \cup {w.why}] ELSE stopped
        /\ client' = IF w.op = "refuse"
                     THEN [client EXCEPT ![w.client] = "refused"] ELSE client
    BY DEF CommitEnd
  <1>6. /\ w.op = "stop" => w.user \in People /\ w.why \in Stops
        /\ w.op = "refuse" => /\ w.client \in Clients
                              /\ Lock(t, Client(w.client), "update") \in locks
    BY <1>1 DEF About, Holds, EndPcs
  <1>7. /\ code' \in [CodeIds -> CodeRows]
        /\ \A k \in CodeIds :
              /\ code'[k].user = code[k].user /\ code'[k].client = code[k].client
              /\ code'[k].grant = code[k].grant
              /\ code'[k].st = IF Code(k) \in w.mine THEN "used" ELSE code[k].st
    <2>1. \A k \in CodeIds :
             /\ [code[k] EXCEPT !.st = "used"] \in CodeRows
             /\ [code[k] EXCEPT !.st = "used"].st = "used"
             /\ [code[k] EXCEPT !.st = "used"].user = code[k].user
             /\ [code[k] EXCEPT !.st = "used"].client = code[k].client
             /\ [code[k] EXCEPT !.st = "used"].grant = code[k].grant
      BY <1>1 DEF CodeRows
    <2> QED BY <1>1, <1>4, <2>1
  <1>8. /\ grant' \in [GrantIds -> GrantRows]
        /\ \A g \in GrantIds :
              /\ grant'[g].user = grant[g].user
              /\ grant'[g].client = grant[g].client
              /\ grant'[g].n = grant[g].n
              /\ grant'[g].st = IF Grant(g) \in w.mine THEN "revoked"
                                ELSE grant[g].st
    <2>1. \A g \in GrantIds :
             /\ [grant[g] EXCEPT !.st = "revoked"] \in GrantRows
             /\ [grant[g] EXCEPT !.st = "revoked"].st = "revoked"
             /\ [grant[g] EXCEPT !.st = "revoked"].user = grant[g].user
             /\ [grant[g] EXCEPT !.st = "revoked"].client = grant[g].client
             /\ [grant[g] EXCEPT !.st = "revoked"].n = grant[g].n
      BY <1>1 DEF GrantRows
    <2> QED BY <1>1, <1>4, <2>1
  <1>9. /\ stopped' \in [People -> SUBSET Stops]
        /\ \A p \in People : stopped'[p] # {} =>
              stopped[p] # {} \/ (w.op = "stop" /\ p = w.user)
    BY <1>1, <1>5, <1>6
  <1>10. /\ client' \in [Clients -> Statuses]
         /\ \A c \in Clients : client'[c] =
               IF w.op = "refuse" /\ c = w.client THEN "refused" ELSE client[c]
    BY <1>1, <1>5, <1>6 DEF Statuses
  <1>11. PICK over : over = {g \in GrantIds : Theirs(t, grant[g])} \X Rotations
    OBVIOUS
  <1>12. Break(over)
    BY <1>11 DEF CommitEnd
  <1>13. /\ req' \in [Requests -> ReqRows]
         /\ \A q \in Requests :
               /\ req'[q].st = req[q].st /\ req'[q].grant = req[q].grant
               /\ req'[q].n = req[q].n
               /\ req'[q].broken => \/ req[q].broken
                                    \/ /\ req[q].st = "reading"
                                       /\ <<req[q].grant, req[q].n>> \in over
    BY <1>1, <1>12, BrokenTyped, BreakDoes
  <1>14. TypeOK'
    BY <1>1, <1>7, <1>8, <1>9, <1>10, <1>13, EndTyped, Typed DEF Types
  <1>15. CodesGoOn
    BY <1>7 DEF CodesGoOn
  <1>16. GrantsGoOn
    <2>1. \A g \in GrantIds : grant[g].n \in Nat
      BY <1>1, ConstantsTyped DEF GrantRows
    <2>2. \A g \in GrantIds : grant[g].n <= grant'[g].n
      BY <1>8, <2>1
    <2> QED BY <1>8, <2>2 DEF GrantsGoOn
  <1>17. ASSUME NEW u \in Txs \ {t} PROVE NoneMissed(u) /\ ApprovalStands(u)
    <2>1. NoneMissed(u)
      BY <1>7, <1>8 DEF NoneMissed, Theirs
    <2>2. \A c \in Clients : Lock(u, Client(c), "share") \in locks =>
             ~(w.op = "refuse" /\ c = w.client)
      <3> SUFFICES ASSUME Lock(u, Client(w.client), "share") \in locks,
                          w.op = "refuse"
                   PROVE  FALSE
        OBVIOUS
      <3>1. Lock(t, Client(w.client), "update") \in locks
        BY <1>6
      <3> QED BY <1>17, <3>1 DEF Inv, Alone, Lock
    <2>3. ApprovalStands(u)
      BY <1>10, <2>2 DEF ApprovalStands
    <2> QED BY <2>1, <2>3
  <1>18. \A j \in CodeIds : code[j].grant # 0 => code[j].grant \in GrantIds
    BY <1>1 DEF CodeRows, GrantIds
  <1>19. Issued'
    <2>1. \A k \in CodeIds : code'[k].st # "none" => code[k].st # "none"
      BY <1>3, <1>7
    <2>2. \A g \in GrantIds : grant'[g].st # "none" <=> grant[g].st # "none"
      BY <1>3, <1>8
    <2> QED BY <1>1, <1>7, <1>8, <1>18, <2>1, <2>2, SMTT(30)
            DEF Inv, Issued
  <1>20. ASSUME NEW q \in Requests PROVE Asked(q)'
    <2> SUFFICES ASSUME req[q].st = "reading", NEW g, g = req[q].grant
                 PROVE  /\ g \in GrantIds /\ grant'[g].st # "none"
                        /\ req[q].n <= grant'[g].n
                        /\ req'[q].broken => \/ grant'[g].st = "revoked"
                                             \/ <<g, req[q].n>> \notin tokens
      BY <1>1, <1>13 DEF Asked
    <2>1. /\ g \in GrantIds /\ grant[g].st # "none" /\ req[q].n <= grant[g].n
          /\ req[q].broken => \/ grant[g].st = "revoked"
                              \/ <<g, req[q].n>> \notin tokens
      BY DEF Inv, Asked
    <2>2. Theirs(t, grant[g]) => grant'[g].st = "revoked"
      <3>1. grant[g].st \in {"none", "live", "revoked"}
        BY <1>1, <2>1 DEF GrantRows
      <3> QED BY <1>2, <1>8, <2>1, <3>1
    <2>3. req'[q].broken => req[q].broken \/ Theirs(t, grant[g])
      BY <1>11, <1>13
    <2> QED BY <1>8, <2>1, <2>2, <2>3
  <1>21. RefusedIsOver'
    <2> SUFFICES ASSUME NEW c \in Clients, client'[c] = "refused"
                 PROVE  /\ \A k \in CodeIds : code'[k].client = c
                              => code'[k].st # "open"
                        /\ \A g \in GrantIds : grant'[g].client = c
                              => grant'[g].st # "live"
      BY DEF RefusedIsOver, Over, CodesOf, GrantsOf
    <2>1. CASE client[c] = "refused"
      BY <1>7, <1>8, <2>1
      DEF Inv, EndedMeansOver, RefusedIsOver, Over, CodesOf, GrantsOf
    <2>2. CASE w.op = "refuse" /\ c = w.client
      <3>1. \A r : r.client = c => Theirs(t, r)
        BY <2>2 DEF Theirs
      <3> QED BY <1>2, <1>7, <1>8, <3>1
    <2> QED BY <1>10, <2>1, <2>2
  <1>22. StoppedIsOver'
    <2> SUFFICES ASSUME NEW p \in People, stopped'[p] # {}
                 PROVE  /\ \A k \in CodeIds : code'[k].user = p
                              => code'[k].st # "open"
                        /\ \A g \in GrantIds : grant'[g].user = p
                              => grant'[g].st # "live"
      BY DEF StoppedIsOver, Over, CodesOf, GrantsOf
    <2>1. CASE stopped[p] # {}
      BY <1>7, <1>8, <2>1
      DEF Inv, EndedMeansOver, StoppedIsOver, Over, CodesOf, GrantsOf
    <2>2. CASE w.op = "stop" /\ p = w.user
      <3>1. \A r : r.user = p => Theirs(t, r)
        BY <2>2 DEF Theirs
      <3> QED BY <1>2, <1>7, <1>8, <3>1
    <2> QED BY <1>9, <2>1, <2>2
  <1>23. ReplayedIsOver'
    BY <1>7, <1>8, <1>18 DEF Inv, EndedMeansOver, ReplayedIsOver
  <1>24. AnswersAreOfLiveAccess'
    BY <1>13 DEF Inv, AnswersAreOfLiveAccess
  <1> QED BY <1>1, <1>14, <1>15, <1>16, <1>17, <1>19, <1>20, <1>21, <1>22,
          <1>23, <1>24, EndKept DEF EndedMeansOver

-----------------------------------------------------------------------------
(* How transactions begin.                                                  *)

LEMMA DecideKept ==
    ASSUME Inv, NEW t \in Txs, NEW c \in Clients,
           NEW op \in {"approve", "refuse"}, Decide(t, c, op)
    PROVE  Inv'
  <1> DEFINE w == [Begun EXCEPT !.op = op, !.pc = "epoch", !.client = c]
  <1>1. /\ w \in TxRows /\ w.op = op /\ w.pc = "epoch" /\ w.client = c
        /\ w.todo = {} /\ w.mine = {}
    BY ConstantsTyped DEF Begun, TxRows, Ops, Enders, Pcs
  <1>2. Begin(t, w)
    BY DEF Decide
  <1> HIDE DEF w
  <1>3. Steps(w) /\ About(w)
    BY <1>1 DEF Steps, About, Users
  <1> QED BY <1>1, <1>2, <1>3, BeginKept

LEMMA BeginIssueKept ==
    ASSUME Inv, NEW t \in Txs, NEW p \in People, NEW c \in Clients,
           BeginIssue(t, p, c)
    PROVE  Inv'
  <1> DEFINE w == [Begun EXCEPT !.op = "issue", !.pc = "person",
                                !.user = p, !.client = c]
  <1>1. /\ w \in TxRows /\ w.op = "issue" /\ w.pc = "person" /\ w.user = p
        /\ w.client = c /\ w.todo = {} /\ w.mine = {}
    BY ConstantsTyped DEF Begun, TxRows, Ops, Enders, Pcs
  <1>2. Begin(t, w)
    BY DEF BeginIssue
  <1> HIDE DEF w
  <1>3. Steps(w) /\ About(w)
    BY <1>1 DEF Steps, About, Users
  <1> QED BY <1>1, <1>2, <1>3, BeginKept DEF Users

LEMMA BeginRedeemKept ==
    ASSUME Inv, NEW t \in Txs, NEW k \in CodeIds,
           NEW c \in Clients \cup {NoClient}, BeginRedeem(t, k, c)
    PROVE  Inv'
  <1> DEFINE p == code[k].user
             w == [Begun EXCEPT !.op = "redeem", !.pc = "person", !.code = k,
                                !.user = p, !.client = c]
  <1>1. code[k].st # "none" /\ p \in People /\ k \in 0..MaxCodes
    BY ConstantsTyped DEF BeginRedeem, Inv, Issued
  <1>2. Begin(t, w)
    BY DEF BeginRedeem
  <1>3. p = code[k].user
    OBVIOUS
  <1> HIDE DEF p
  <1>4. /\ w \in TxRows /\ w.op = "redeem" /\ w.pc = "person" /\ w.user = p
        /\ w.client = c /\ w.code = k /\ w.todo = {} /\ w.mine = {}
    BY <1>1, ConstantsTyped DEF Begun, TxRows, Ops, Enders, Pcs
  <1> HIDE DEF w
  <1>5. Steps(w) /\ About(w)
    BY <1>1, <1>3, <1>4 DEF Steps, About, Users
  <1> QED BY <1>2, <1>4, <1>5, BeginKept DEF Users

LEMMA BeginRefreshKept ==
    ASSUME Inv, NEW t \in Txs, NEW g \in GrantIds, NEW n \in Rotations,
           BeginRefresh(t, g, n)
    PROVE  Inv'
  <1> DEFINE p == grant[g].user
             c == grant[g].client
             w == [Begun EXCEPT !.op = "refresh", !.pc = "person", !.grant = g,
                                !.n = n, !.user = p, !.client = c]
  <1>1. /\ grant[g].st # "none" /\ p \in People /\ c \in Clients
        /\ g \in 0..MaxGrants /\ n <= grant[g].n
    BY ConstantsTyped DEF BeginRefresh, Inv, Issued
  <1>2. Begin(t, w)
    BY DEF BeginRefresh
  <1>3. p = grant[g].user /\ c = grant[g].client
    OBVIOUS
  <1> HIDE DEF p, c
  <1>4. /\ w \in TxRows /\ w.op = "refresh" /\ w.pc = "person" /\ w.user = p
        /\ w.client = c /\ w.grant = g /\ w.n = n /\ w.todo = {} /\ w.mine = {}
    BY <1>1, ConstantsTyped DEF Begun, TxRows, Ops, Enders, Pcs
  <1> HIDE DEF w
  <1>5. Steps(w) /\ About(w)
    BY <1>1, <1>3, <1>4 DEF Steps, About, Users
  <1> QED BY <1>2, <1>4, <1>5, BeginKept DEF Users

LEMMA BeginPersonKept ==
    ASSUME Inv, NEW t \in Txs, NEW p \in People, NEW why \in Stops,
           BeginStop(t, p, why) \/ BeginResume(t, p, why)
    PROVE  Inv'
  <1>1. PICK op \in {"stop", "resume"} :
           Begin(t, [Begun EXCEPT !.op = op, !.pc = "epoch", !.user = p,
                                  !.why = why])
    BY DEF BeginStop, BeginResume
  <1> DEFINE w == [Begun EXCEPT !.op = op, !.pc = "epoch", !.user = p,
                                !.why = why]
  <1>2. /\ w \in TxRows /\ w.op = op /\ w.pc = "epoch" /\ w.user = p
        /\ w.why = why /\ w.todo = {} /\ w.mine = {}
    BY ConstantsTyped, AccessAssumption DEF Begun, TxRows, Ops, Enders, Pcs
  <1>3. Begin(t, w)
    BY <1>1
  <1> HIDE DEF w
  <1>4. Steps(w) /\ About(w)
    BY <1>2 DEF Steps, About, Users
  <1> QED BY <1>2, <1>3, <1>4, BeginKept

LEMMA BeginRemoveKept ==
    ASSUME Inv, NEW t \in Txs, NEW p \in People, BeginRemove(t, p)
    PROVE  Inv'
  <1> DEFINE w == [Begun EXCEPT !.op = "remove", !.pc = "person", !.user = p]
  <1>1. /\ w \in TxRows /\ w.op = "remove" /\ w.pc = "person" /\ w.user = p
        /\ w.todo = {} /\ w.mine = {}
    BY ConstantsTyped DEF Begun, TxRows, Ops, Enders, Pcs
  <1>2. Begin(t, w)
    BY DEF BeginRemove
  <1> HIDE DEF w
  <1>3. Steps(w) /\ About(w)
    BY <1>1 DEF Steps, About, Users
  <1> QED BY <1>1, <1>2, <1>3, BeginKept

-----------------------------------------------------------------------------
(* The theorems.                                                            *)

LEMMA InvInit == Init => Inv
  <1> SUFFICES ASSUME Init PROVE Inv
    OBVIOUS
  <1> USE DEF Init
  <1>1. TypeOK
    BY ConstantsTyped, Typed DEF Types, Statuses
  <1>2. \A t \in Txs : Steps(tx[t]) /\ About(tx[t]) /\ Holds(t) /\ Covers(t)
    BY DEF Begun, Steps, About, Holds, Covers, Users, Deciders, Enders, EndPcs,
       PastPerson, PastClient
  <1>3. Alone /\ \A l \in locks : Tells(l)
    BY DEF Alone
  <1>4. Issued /\ \A q \in Requests : Asked(q)
    BY DEF Issued, Asked, NoCode, NoGrant, NoAnswer
  <1>5. EndedMeansOver /\ AnswersAreOfLiveAccess
    BY DEF EndedMeansOver, RefusedIsOver, StoppedIsOver, ReplayedIsOver, Over,
       CodesOf, GrantsOf, AnswersAreOfLiveAccess, NoCode, NoGrant, NoAnswer
  <1> QED BY <1>1, <1>2, <1>3, <1>4, <1>5 DEF Inv

LEMMA InvNext == Inv /\ [Next]_vars => Inv'
  <1> SUFFICES ASSUME Inv, [Next]_vars PROVE Inv'
    OBVIOUS
  <1>1. ASSUME NEW c \in Clients, NoteClient(c) PROVE Inv'
    BY <1>1, NoteClientKept
  <1>2. ASSUME NEW t \in Txs, LockEpoch(t) PROVE Inv'
    BY <1>2, LockEpochKept
  <1>3. ASSUME NEW t \in Txs, HoldPerson(t) PROVE Inv'
    BY <1>3, HoldPersonKept
  <1>4. ASSUME NEW t \in Txs, Deciding(t) PROVE Inv'
    <2>1. ASSUME RefuseClient(t) PROVE Inv'
      BY <2>1, HoldEndedKept DEF RefuseClient, At
    <2> QED BY <1>4, <2>1, DecideKept, ApproveKept DEF Deciding
  <1>5. ASSUME NEW t \in Txs, Issuing(t) PROVE Inv'
    <2>1. ASSUME HoldClient(t, "issue", "commit") PROVE Inv'
      BY <2>1, HoldClientKept
    <2> QED BY <1>5, <2>1, BeginIssueKept, IssueCodeKept DEF Issuing
  <1>6. ASSUME NEW t \in Txs, Redeeming(t) PROVE Inv'
    <2>1. ASSUME HoldClient(t, "redeem", "code") PROVE Inv'
      BY <2>1, HoldClientKept
    <2> QED BY <1>6, <2>1, BeginRedeemKept, RedeemKept, ReadUsedKept, ReplayKept
            DEF Redeeming
  <1>7. ASSUME NEW t \in Txs, Refreshing(t) PROVE Inv'
    <2>1. ASSUME HoldClient(t, "refresh", "grant") PROVE Inv'
      BY <2>1, HoldClientKept
    <2> QED BY <1>7, <2>1, BeginRefreshKept, RefreshKept, RefreshReplayKept
            DEF Refreshing
  <1>8. ASSUME NEW t \in Txs, Ending(t) PROVE Inv'
    <2>1. ASSUME RemovePasskey(t) PROVE Inv'
      BY <2>1, HoldEndedKept DEF RemovePasskey, At
    <2>2. ASSUME NEW p \in People, NEW why \in Stops,
                 BeginStop(t, p, why) \/ BeginResume(t, p, why)
          PROVE  Inv'
      BY <2>2, BeginPersonKept
    <2>3. ASSUME \/ EndRows(t, "code", "codes", "ending codes")
                 \/ EndRows(t, "grant", "grants", "ending grants")
          PROVE  Inv'
      BY <2>3, EndRowsKept
    <2>4. ASSUME \/ EndedRows(t, "ending codes", "grants")
                 \/ EndedRows(t, "ending grants", "commit")
          PROVE  Inv'
      BY <2>4, EndedRowsKept
    <2> QED BY <1>8, <2>1, <2>2, <2>3, <2>4, StopPersonKept, ResumeKept,
               BeginRemoveKept, EndRowKept, CommitEndKept
            DEF Ending
  <1>9. ASSUME NEW t \in Txs, Rollback(t) PROVE Inv'
    BY <1>9, NothingWritten DEF Rollback
  <1>10. ASSUME NEW g \in GrantIds, ClientRevokes(g) PROVE Inv'
    BY <1>10, ClientRevokesKept
  <1>11. ASSUME NEW tok \in tokens, TokenEnds(tok) PROVE Inv'
    BY <1>11, TokenEndsKept
  <1>12. ASSUME NEW q \in Requests, NEW tok \in tokens, CheckAccessToken(q, tok)
         PROVE  Inv'
    BY <1>12, CheckAccessTokenKept
  <1>13. ASSUME NEW q \in Requests, Answer(q) PROVE Inv'
    BY <1>13, AnswerKept
  <1>14. CASE UNCHANGED vars
    <2>1. UNCHANGED <<tables, tx, locks, req>>
      BY <1>14 DEF vars
    <2>2. req' \in [Requests -> ReqRows]
      BY <2>1, Typed DEF Types, Inv
    <2>3. (\A q \in Requests : Asked(q)') /\ AnswersAreOfLiveAccess'
      BY <2>1 DEF Inv, Asked, AnswersAreOfLiveAccess, tables
    <2> QED BY <2>1, <2>2, <2>3, RequestKept
  <1> QED BY <1>1, <1>2, <1>3, <1>4, <1>5, <1>6, <1>7, <1>8, <1>9, <1>10,
             <1>11, <1>12, <1>13, <1>14 DEF Next

LEMMA InvAlways == Spec => []Inv
  BY InvInit, InvNext, PTL DEF Spec

\* Every variable keeps its type, in every behaviour of Access.
THEOREM AccessTyped == Spec => []TypeOK
  <1>1. Inv => TypeOK
    BY DEF Inv
  <1> QED BY <1>1, InvAlways, PTL

\* What an admin, a stop or a replay ended stays ended, for any number of
\* connections at once: a transaction that grants holds the person and the
\* client to its commit, one that ends holds the person or the client from
\* before it looks for what to end, and so misses nothing (oauth.ts).
THEOREM EndedStaysOver == Spec => []EndedMeansOver
  <1>1. Inv => EndedMeansOver
    BY DEF Inv
  <1> QED BY <1>1, InvAlways, PTL

\* No answer leaves for a request that lost its grant, its token, its person or
\* its client while it was read: whatever ends access revokes the grants, and
\* nothing makes a revoked grant live (grantIsLive() in mcp.ts).
THEOREM NoAnswerOnceEnded == Spec => []AnswersAreOfLiveAccess
  <1>1. Inv => AnswersAreOfLiveAccess
    BY DEF Inv
  <1> QED BY <1>1, InvAlways, PTL

-----------------------------------------------------------------------------
(* Nobody waits crosswise.  A transaction that waits stands somewhere in    *)
(* the lock order; the one it waits for, if it waits too, stands after it.  *)

Waits == {"epoch", "person", "client", "code", "ending codes", "replay",
          "grant", "ending grants"}

\* The tables of the rows a transaction needs next.
LEMMA WantedIs ==
    ASSUME Inv, NEW t \in Txs, NEW want \in Wanted(t)
    PROVE  /\ tx[t].pc \in Waits
           /\ tx[t].pc = "epoch" => want[1][1] = "epoch"
           /\ tx[t].pc = "person" => want[1][1] = "person"
           /\ tx[t].pc = "client" => want[1][1] = "client"
           /\ tx[t].pc \in {"code", "ending codes"} => want[1][1] = "code"
           /\ tx[t].pc \in {"replay", "grant", "ending grants"}
                 => want[1][1] = "grant"
  <1>1. About(tx[t]) /\ tx[t].pc \in Pcs
    BY Typed DEF Types, TxRows, Inv
  <1>2. /\ tx[t].pc \notin {"ending codes", "ending grants"} => tx[t].todo = {}
        /\ tx[t].pc = "ending codes" => \A row \in tx[t].todo : row[1] = "code"
        /\ tx[t].pc = "ending grants" => \A row \in tx[t].todo : row[1] = "grant"
    BY <1>1 DEF About
  <1>3. \A p, q : /\ Epoch[1] = "epoch" /\ Person(p)[1] = "person"
                  /\ Client(p)[1] = "client" /\ Code(p)[1] = "code"
                  /\ Grant(p)[1] = "grant" /\ <<p, q>>[1] = p
    BY DEF Epoch, Person, Client, Code, Grant
  <1>4. CASE tx[t].pc = "epoch"
    BY <1>2, <1>3, <1>4 DEF Wanted, Waits
  <1>5. CASE tx[t].pc = "person"
    BY <1>2, <1>3, <1>5 DEF Wanted, Waits
  <1>6. CASE tx[t].pc = "client"
    BY <1>2, <1>3, <1>6 DEF Wanted, Waits
  <1>7. CASE tx[t].pc = "code"
    BY <1>2, <1>3, <1>7 DEF Wanted, Waits
  <1>8. CASE tx[t].pc \in {"replay", "grant"}
    <2>1. CASE tx[t].pc = "replay"
      BY <1>2, <1>3, <2>1 DEF Wanted, Waits
    <2>2. CASE tx[t].pc = "grant"
      BY <1>2, <1>3, <2>2 DEF Wanted, Waits
    <2> QED BY <1>8, <2>1, <2>2
  <1>9. CASE tx[t].pc \in {"ending codes", "ending grants"}
    <2>1. Wanted(t) = {<<row, "update">> : row \in tx[t].todo}
      <3>1. CASE tx[t].pc = "ending codes"
        BY <3>1 DEF Wanted
      <3>2. CASE tx[t].pc = "ending grants"
        BY <3>2 DEF Wanted
      <3> QED BY <1>9, <3>1, <3>2
    <2>2. PICK row \in tx[t].todo : want = <<row, "update">>
      BY <2>1
    <2>3. want[1] = row
      BY <2>2
    <2> QED BY <1>2, <1>9, <2>3 DEF Waits
  <1>10. CASE tx[t].pc \in {"idle", "codes", "grants", "commit"}
    <2>1. Wanted(t) = {<<row, "update">> : row \in tx[t].todo}
      BY <1>10 DEF Wanted
    <2>2. tx[t].todo = {}
      BY <1>2, <1>10
    <2> QED BY <2>1, <2>2
  <1> QED BY <1>1, <1>4, <1>5, <1>6, <1>7, <1>8, <1>9, <1>10 DEF Pcs

\* How far the holder of a row is, when it waits itself.
LEMMA HolderIs ==
    ASSUME Inv, NEW l \in locks, tx[l.tx].pc \in Waits,
           tx[l.tx].op # "remove"
    PROVE  /\ l.row[1] = "epoch" => tx[l.tx].pc # "epoch"
           /\ l.row[1] = "person" => tx[l.tx].pc \notin {"epoch", "person"}
           /\ l.row[1] = "client" =>
                 tx[l.tx].pc \notin {"epoch", "person", "client"}
           /\ l.row[1] = "code" =>
                 \/ tx[l.tx].pc = "replay"
                 \/ /\ tx[l.tx].op \in {"stop", "refuse"}
                    /\ tx[l.tx].pc \in {"ending codes", "ending grants"}
           /\ l.row[1] = "grant" => /\ tx[l.tx].op \in {"stop", "refuse"}
                                    /\ tx[l.tx].pc = "ending grants"
  <1>1. Tells(l)
    BY DEF Inv
  <1>2. \A p : /\ Epoch[1] = "epoch" /\ Person(p)[1] = "person"
               /\ Client(p)[1] = "client" /\ Code(p)[1] = "code"
               /\ Grant(p)[1] = "grant"
    BY DEF Epoch, Person, Client, Code, Grant
  <1> QED BY <1>1, <1>2 DEF Tells, Waits, PastPerson, PastClient, EndPcs, Enders,
             CodesMet, GrantsMet

LEMMA WaitsForLater ==
    ASSUME Inv, NEW t \in Txs, NEW u \in Txs, WaitsFor(t, u),
           tx[t].op # "remove", tx[u].op # "remove", Wanted(u) # {}
    PROVE  /\ tx[t].pc = "epoch" => tx[u].pc # "epoch"
           /\ tx[t].pc = "person" => tx[u].pc \notin {"epoch", "person"}
           /\ tx[t].pc = "client" => tx[u].pc \notin {"epoch", "person", "client"}
           /\ tx[t].pc = "code" =>
                 tx[u].pc \in {"replay", "ending codes", "ending grants"}
           /\ tx[t].pc = "ending codes" => tx[u].pc = "replay"
           /\ tx[t].pc \in {"replay", "grant"} => tx[u].pc = "ending grants"
           /\ tx[t].pc # "ending grants"
  <1>1. PICK want \in Wanted(t), l \in locks :
           l.tx = u /\ l.row = want[1] /\ t # u
    BY DEF WaitsFor, Against, Held
  <1>2. tx[u].pc \in Waits
    BY WantedIs
  <1>3. /\ tx[t].pc \in Waits
        /\ tx[t].pc = "epoch" => l.row[1] = "epoch"
        /\ tx[t].pc = "person" => l.row[1] = "person"
        /\ tx[t].pc = "client" => l.row[1] = "client"
        /\ tx[t].pc \in {"code", "ending codes"} => l.row[1] = "code"
        /\ tx[t].pc \in {"replay", "grant", "ending grants"} => l.row[1] = "grant"
    BY <1>1, WantedIs
  <1>4. /\ l.row[1] = "epoch" => tx[u].pc # "epoch"
        /\ l.row[1] = "person" => tx[u].pc \notin {"epoch", "person"}
        /\ l.row[1] = "client" => tx[u].pc \notin {"epoch", "person", "client"}
        /\ l.row[1] = "code" =>
              \/ tx[u].pc = "replay"
              \/ /\ tx[u].op \in {"stop", "refuse"}
                 /\ tx[u].pc \in {"ending codes", "ending grants"}
        /\ l.row[1] = "grant" => /\ tx[u].op \in {"stop", "refuse"}
                                 /\ tx[u].pc = "ending grants"
    BY <1>1, <1>2, HolderIs
  \* Of those who end access with the epoch there is one past it.
  <1>5. ~(/\ tx[t].pc \in {"ending codes", "ending grants"}
          /\ tx[u].op \in {"stop", "refuse"}
          /\ tx[u].pc \in {"ending codes", "ending grants"})
    <2> SUFFICES ASSUME tx[t].pc \in {"ending codes", "ending grants"},
                        tx[u].op \in {"stop", "refuse"},
                        tx[u].pc \in {"ending codes", "ending grants"}
                 PROVE  FALSE
      OBVIOUS
    <2>1. tx[t].op \in {"stop", "refuse"}
      BY AtAnEnd DEF EndPcs, Enders
    <2>2. Holds(t) /\ Holds(u)
      BY DEF Inv
    <2>3. Lock(t, Epoch, "update") \in locks /\ Lock(u, Epoch, "update") \in locks
      BY <2>1, <2>2 DEF Holds, Deciders
    <2> QED BY <1>1, <2>3 DEF Inv, Alone, Lock
  <1> QED BY <1>3, <1>4, <1>5

\* However many transactions that keep the lock order run at once, they never
\* wait on each other crosswise (oauth.ts:41-46).
THEOREM NeverCross == Spec => []OrderedNeverCross
  <1>1. Inv => OrderedNeverCross
    <2> SUFFICES ASSUME Inv, NEW ts \in SUBSET {t \in Txs : tx[t].op # "remove"},
                        Crosswise(ts)
                 PROVE  ts = {}
      BY DEF OrderedNeverCross
    <2>1. \A t \in ts : \E u \in ts : WaitsFor(t, u)
      BY DEF Crosswise
    <2>2. \A t \in ts : /\ t \in Txs /\ tx[t].op # "remove"
                        /\ Wanted(t) # {} /\ tx[t].pc \in Waits
      <3>1. \A t \in ts : Wanted(t) # {}
        BY <2>1 DEF WaitsFor
      <3> QED BY <3>1, WantedIs
    <2>3. \A t \in ts : tx[t].pc # "ending grants"
      BY <2>1, <2>2, WaitsForLater
    <2>4. \A t \in ts : tx[t].pc \notin {"replay", "grant"}
      BY <2>1, <2>2, <2>3, WaitsForLater
    <2>5. \A t \in ts : tx[t].pc # "ending codes"
      BY <2>1, <2>2, <2>4, WaitsForLater
    <2>6. \A t \in ts : tx[t].pc # "code"
      BY <2>1, <2>2, <2>3, <2>4, <2>5, WaitsForLater
    <2>7. \A t \in ts : tx[t].pc \in {"epoch", "person", "client"}
      BY <2>2, <2>3, <2>4, <2>5, <2>6 DEF Waits
    <2>8. \A t \in ts : tx[t].pc # "client"
      BY <2>1, <2>2, <2>7, WaitsForLater
    <2>9. \A t \in ts : tx[t].pc # "person"
      BY <2>1, <2>2, <2>7, <2>8, WaitsForLater
    <2> QED BY <2>1, <2>2, <2>7, <2>8, <2>9, WaitsForLater
  <1> QED BY <1>1, InvAlways, PTL
=============================================================================
