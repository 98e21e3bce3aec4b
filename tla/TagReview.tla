------------------------------ MODULE TagReview ------------------------------
(***************************************************************************)
(* Tags and their review (core/catalog tagging.ts, rules.ts, primary.ts,   *)
(* review-inbox.ts): the values of one single-value facet on files.  Rules *)
(* give them, models and AI assistants propose them, people decide.        *)
(*                                                                         *)
(* Each is one transaction under the file's lock (a decision's also under  *)
(* the value's), except a reviewer's: asked in one snapshot whether they   *)
(* may, they decide in a later transaction.  Visibility and exposure are   *)
(* ordered alike and stand as one level, 1 the tightest; a value's level   *)
(* is fixed (Packs change it).  No caller of the server proposes a tag as  *)
(* a person, or a home as a model.                                         *)
(***************************************************************************)
EXTENDS Naturals, FiniteSets

CONSTANTS
    Objects,
    Values,
    Tight, Loose,    \* values that set a level, tighter than the default or not
    Policed,         \* values a pack's policies name
    Approved,        \* of the vocabulary at first
    NumItems,        \* bound: review items ever filed
    Reviewers,
    Admins,
    MaxEvents        \* bound: runs of rules, proposals, changes of grants

VARIABLES
    db,              \* tags, items, vocab
    granted,         \* values a live grant names
    asked,           \* what each reviewer asks to decide
    events

vars == <<db, granted, asked, events>>

NoTag   == [source |-> "none", reviewed |-> FALSE, guess |-> FALSE,
            home |-> "none"]
NoItem  == [state |-> "none"]
Closed  == [state |-> "closed"]
NotAsking == [item |-> 0]

\* 0: sets none.  Default is the level of a file no trusted tag classifies.
LevelOf   == [v \in Values |-> IF v \in Tight THEN 1 ELSE IF v \in Loose THEN 3 ELSE 0]
Default   == 2

Init ==
    /\ db = [tags |-> [o \in Objects |-> [v \in Values |-> NoTag]],
             items |-> [i \in 1..NumItems |-> NoItem],
             vocab |-> [v \in Values |->
                          IF v \in Approved THEN "approved" ELSE "unknown"]]
    /\ granted = {}
    /\ asked = [r \in Reviewers |-> NotAsking]
    /\ events = 0

-----------------------------------------------------------------------------
(* What a file has.                                                        *)

Has(s, o, v)    == s.tags[o][v] # NoTag
Others(s, o, v) == {w \in Values \ {v} : Has(s, o, w)}
Known(s, v)     == s.vocab[v] = "approved"
Open(s)         == {i \in 1..NumItems : s.items[i].state = "open"}
OpenFor(s, o, v) == {i \in Open(s) : s.items[i].object = o
                                     /\ s.items[i].value = v}

Trusted(t) == \/ t.source \in {"rule", "user"}
              \/ t.source = "model" /\ t.reviewed

Tightest(ls) == CHOOSE l \in ls : \A m \in ls : l <= m
LevelsOf(vs) == {LevelOf[v] : v \in vs} \ {0}

\* The tightest a trusted tag sets, or else the tenant's default; an unreviewed
\* guess, a value not approved and what waits for review only tighten it.
\* (collectLevels(), enrichmentExposure().)
Level(s, o) ==
    LET sure == {v \in Values : Has(s, o, v) /\ Trusted(s.tags[o][v])
                                /\ Known(s, v)}
        rest == {v \in Values : Has(s, o, v)} \ sure
        waiting == {s.items[i].value : i \in {j \in Open(s) : s.items[j].object = o}}
        base == IF LevelsOf(sure) = {} THEN Default ELSE Tightest(LevelsOf(sure)) IN
    Tightest({base} \cup LevelsOf(rest \cup waiting))

\* v in place of the values vs: some set a level that v doesn't, or more
\* tightly, or a policy names them.
loosens(v, vs) ==
    \/ vs \cap Policed # {}
    \/ \E w \in vs \ {v} : /\ LevelOf[w] # 0
                           /\ LevelOf[v] = 0 \/ LevelOf[v] > LevelOf[w]

-----------------------------------------------------------------------------
(* Changes of one file.                                                    *)

Close(s, is) == [s EXCEPT !.items = [i \in 1..NumItems |->
                   IF i \in is THEN Closed ELSE s.items[i]]]

\* The items that wait for these values of the file decide nothing any more.
replaceValues(s, o, vs) ==
    [Close(s, {i \in Open(s) : s.items[i].object = o /\ s.items[i].value \in vs})
       EXCEPT !.tags[o] = [v \in Values |-> IF v \in vs THEN NoTag ELSE @[v]]]

\* The next item; a full inbox is the bound's.
Fresh(s)  == {i \in 1..NumItems : s.items[i] = NoItem}
fileItem(s, o, v, reason, source) ==
    LET i == CHOOSE j \in Fresh(s) : \A k \in Fresh(s) : j <= k IN
    [s EXCEPT !.items[i] = [state |-> "open", object |-> o, value |-> v,
                            reason |-> reason, source |-> source],
              !.vocab[v] = IF @ = "unknown" THEN "proposed" ELSE @]

\* Why a tag waits: "model" for low-confidence, sensitive and agent.
\* Mutant: a rule's value joins the ones a file has.
Reason_RuleJoins(s, o, v, source, how) ==
    CASE ~Known(s, v) -> "new-value"
      [] source = "rule" -> "none"
      [] LevelOf[v] # 0 \/ v \in granted \/ how = "unsure" -> "model"
      [] OTHER -> IF Others(s, o, v) # {} THEN "conflict" ELSE "none"

Reason(s, o, v, source, how) ==
    IF ~Known(s, v) THEN "new-value"
    ELSE IF /\ source = "model"
            /\ LevelOf[v] # 0 \/ v \in granted \/ how = "unsure" THEN "model"
    ELSE IF Others(s, o, v) # {} THEN "conflict"
    ELSE IF how = "agent" THEN "model"
    ELSE "none"

\* What a source that proposes v on the file leaves.  A rule vouches for a
\* model's guess, which is kept; an item that waits decides, unless it is a
\* model's and a rule gives the approved value: then the tag goes on, and the
\* item waits on; a conflict that is over is withdrawn.
proposeTag(s, o, v, source, how) ==
    LET t == s.tags[o][v]
        over == {i \in OpenFor(s, o, v) : s.items[i].reason = "conflict"
                                          /\ Others(s, o, v) = {}}
        s1 == Close(s, over)
        settles == \A i \in OpenFor(s1, o, v) :
                      /\ source = "rule" /\ Known(s, v)
                      /\ s1.items[i].source = "model"
                      /\ s1.items[i].reason # "new-value"
        reason == Reason(s1, o, v, source, how) IN
    IF t # NoTag THEN
        IF source = "rule" /\ t.source = "model" /\ ~t.reviewed
        THEN [s EXCEPT !.tags[o][v].source = "rule", !.tags[o][v].guess = TRUE]
        ELSE s
    ELSE IF ~settles THEN s1
    ELSE IF reason = "none" THEN
        [s1 EXCEPT !.tags[o][v] = [NoTag EXCEPT !.source = source]]
    ELSE IF OpenFor(s1, o, v) # {} THEN s1
    ELSE fileItem(s1, o, v, reason, source)

\* A rule's tag that no rule gives any more goes; a guess it took over is the
\* model's again, and no home.
Unruled(t) == IF t.guess THEN [NoTag EXCEPT !.source = "model"] ELSE NoTag

\* The home the rules give, once its tag is on the file; a person's stands.
syncPrimary(s, o, wanted, primary) ==
    LET homes == {v \in Values : s.tags[o][v].home # "none"}
        gives == {v \in wanted : primary /\ Has(s, o, v)}
        Moved(t, v) == [t EXCEPT !.home = IF v \in gives THEN "rule" ELSE "none"] IN
    IF \E v \in homes : s.tags[o][v].home = "user" THEN s
    ELSE [s EXCEPT !.tags[o] = [v \in Values |->
            IF v \in homes \cup gives THEN Moved(@[v], v) ELSE @[v]]]

\* wanted is what the first rule that matches gives, unless a person chose.
applyRuleTags(o, given, primary) ==
    LET chosen == \E v \in Values :
                     /\ Has(db, o, v)
                     /\ \/ db.tags[o][v].source = "user"
                        \/ db.tags[o][v].source = "model" /\ db.tags[o][v].reviewed
        wanted == IF chosen THEN {} ELSE given
        s1 == [db EXCEPT !.tags[o] = [v \in Values |->
                 IF @[v].source = "rule" /\ v \notin wanted THEN Unruled(@[v])
                 ELSE @[v]]]
        s2 == IF wanted = {} THEN s1
              ELSE proposeTag(s1, o, CHOOSE v \in wanted : TRUE, "rule", "sure")
        s3 == Close(s2, {i \in Open(s2) : /\ s2.items[i].object = o
                                          /\ s2.items[i].source = "rule"
                                          /\ s2.items[i].value \notin wanted}) IN
    syncPrimary(s3, o, wanted, primary)

-----------------------------------------------------------------------------
(* Decisions.                                                              *)

\* The value a decision puts on the file.
Into(s, how) == IF how.kind = "merge" THEN how.into ELSE s.items[how.item].value

\* The decision puts its value on the file, by the reviewer where it replaces
\* another, by whom the item names where not: a model's item takes the tag from
\* the rule that gives it.
applyReviewed(s, o, v, source) ==
    LET vs == Others(s, o, v)
        home == \E w \in vs : s.tags[o][w].home # "none"
        t == s.tags[o][v]
        takes == source = "model" IN
    IF vs # {} THEN
        [replaceValues(s, o, vs) EXCEPT !.tags[o][v] =
            [source |-> "user", reviewed |-> TRUE, guess |-> FALSE,
             home |-> IF home THEN "user" ELSE t.home]]
    ELSE [s EXCEPT !.tags[o][v] =
            [source |-> IF t = NoTag \/ (takes /\ t.source = "rule") THEN source
                        ELSE t.source,
             reviewed |-> TRUE, guess |-> t.guess /\ ~takes, home |-> t.home]]

\* A new value is rejected on every file, unless it was approved meanwhile.
rejectReview(s, i) ==
    LET x == s.items[i]
        t == s.tags[x.object][x.value]
        same == {j \in Open(s) : s.items[j].value = x.value
                                 /\ s.items[j].reason = "new-value"} IN
    [Close(s, IF x.reason = "new-value" /\ ~Known(s, x.value) THEN same ELSE {i})
       EXCEPT !.tags[x.object][x.value] =
            IF t.source = "model" /\ ~t.reviewed THEN NoTag ELSE t]

\* approveReview(), mergeReview(), rejectReview().
Decided(s, how) ==
    LET x == s.items[how.item] IN
    IF how.kind = "reject" THEN rejectReview(s, how.item)
    ELSE Close(applyReviewed(
            [s EXCEPT !.vocab[Into(s, how)] = "approved"],
            x.object, Into(s, how), x.source), {how.item})

\* Refused: it would replace what the reviewer hasn't been told of, or merge
\* into no approved value, or into itself.
Refused(s, how) ==
    LET x == s.items[how.item] IN
    \/ how.kind = "merge" /\ (how.into = x.value \/ ~Known(s, how.into))
    \/ how.kind # "reject" /\ ~how.replace /\ Others(s, x.object, Into(s, how)) # {}

\* Would the file's level be looser than now, with v on it as a trusted tag in
\* place of the others, and this item no longer waiting?
opensFile(s, i, v) ==
    LET o == s.items[i].object
        t == [s EXCEPT !.items[i] = Closed,
                       !.vocab[v] = "approved",
                       !.tags[o] = [w \in Values |->
                          IF w = v THEN [NoTag EXCEPT !.source = "user"]
                          ELSE NoTag]] IN
    Level(t, o) > Level(s, o)

\* Mutant: merging away a value that tightens the file while it waits.
Reach_NoMerge(s, how) ==
    LET x == s.items[how.item] IN
    IF how.kind = "reject" THEN
        IF ~Known(s, x.value) THEN IF x.reason = "new-value" THEN "vocabulary"
                                                             ELSE "file"
        ELSE IF LevelOf[x.value] # 0 \/ x.value \in Policed THEN "loosens" ELSE "file"
    ELSE IF how.kind = "approve" /\ ~Known(s, x.value) THEN "vocabulary"
    ELSE IF loosens(Into(s, how), Others(s, x.object, Into(s, how))) THEN "loosens"
    ELSE "file"

\* decisionReach().
Reach(s, how) ==
    LET x == s.items[how.item] IN
    IF how.kind = "reject" THEN
        IF ~Known(s, x.value) THEN IF x.reason = "new-value" THEN "vocabulary"
                                                             ELSE "file"
        ELSE IF LevelOf[x.value] # 0 \/ x.value \in Policed THEN "loosens" ELSE "file"
    ELSE IF how.kind = "approve" /\ ~Known(s, x.value) THEN "vocabulary"
    ELSE IF \/ /\ how.kind = "merge" /\ ~Refused(s, [how EXCEPT !.replace = TRUE])
               /\ loosens(how.into, {x.value})
            \/ loosens(Into(s, how), Others(s, x.object, Into(s, how)))
            \/ opensFile(s, how.item, Into(s, how))
         THEN "loosens" ELSE "file"

May(r, how) == r \in Admins \/ Reach(db, how) = "file"

-----------------------------------------------------------------------------
(* Steps.                                                                  *)

Event == events < MaxEvents /\ events' = events + 1

SyncRules ==
    /\ Event
    /\ Fresh(db) # {}
    /\ \E o \in Objects, given \in {{}} \cup {{v} : v \in Values},
          primary \in BOOLEAN : db' = applyRuleTags(o, given, primary)
    /\ UNCHANGED <<granted, asked>>

\* A model's summary, or an assistant, who may not propose what decides access.
Propose ==
    /\ Event
    /\ Fresh(db) # {}
    /\ \E o \in Objects, v \in Values, how \in {"sure", "unsure", "agent"} :
          /\ how = "agent" => Known(db, v) /\ LevelOf[v] = 0 /\ v \notin granted
          /\ db' = proposeTag(db, o, v, "model", how)
    /\ UNCHANGED <<granted, asked>>

GrantChanges ==
    /\ Event
    /\ \E v \in Values :
          /\ Known(db, v)
          /\ granted' = (granted \cup {v}) \ (granted \cap {v})
    /\ UNCHANGED <<db, asked>>

\* reviewItemFor(): an item that is open, and a decision they may make.
Ask(r) ==
    /\ asked[r] = NotAsking
    /\ \E i \in Open(db), kind \in {"approve", "reject", "merge"},
          into \in Values, replace \in BOOLEAN :
          LET how == [item |-> i, kind |-> kind, into |-> into,
                      replace |-> replace] IN
          /\ kind # "merge" => into = db.items[i].value
          /\ kind = "reject" => ~replace
          /\ May(r, how)
          /\ asked' = [asked EXCEPT ![r] = how]
    /\ UNCHANGED <<db, granted, events>>

\* decideReview(): asked again, under the locks.
\* Mutant: what was allowed when it was asked is allowed.
Allowed_Asked(r) == TRUE
Allowed(r) == May(r, asked[r])

Decidable(r) == /\ asked[r].item \in Open(db)
                /\ ~Refused(db, asked[r])
                /\ Allowed(r)

Decide(r) ==
    /\ asked[r] # NotAsking /\ Decidable(r)
    /\ db' = Decided(db, asked[r])
    /\ asked' = [asked EXCEPT ![r] = NotAsking]
    /\ UNCHANGED <<granted, events>>

Declined(r) ==
    /\ asked[r] # NotAsking /\ ~Decidable(r)
    /\ asked' = [asked EXCEPT ![r] = NotAsking]
    /\ UNCHANGED <<db, granted, events>>

Next ==
    \/ SyncRules \/ Propose \/ GrantChanges
    \/ \E r \in Reviewers : Ask(r) \/ Decide(r) \/ Declined(r)

Spec == Init /\ [][Next]_vars

-----------------------------------------------------------------------------
(* Properties.                                                             *)

\* The state has its types.
TypeOK ==
    /\ \A o \in Objects, v \in Values :
          db.tags[o][v].source \in {"none", "model", "rule", "user"}
    /\ \A i \in 1..NumItems : db.items[i].state \in {"none", "open", "closed"}
    /\ db.vocab \in [Values -> {"unknown", "proposed", "approved"}]
    /\ granted \subseteq Values

\* A file holds one value of the facet, and at most one item waits for each
\* value, whoever proposed and decided in what order (tag_reviews_one_open);
\* and its home is a tag that a person or a rule vouches for.
FileInOrder == \A o \in Objects :
    /\ Cardinality({v \in Values : Has(db, o, v)}) <= 1
    /\ \A v \in Values : /\ Cardinality(OpenFor(db, o, v)) <= 1
                         /\ db.tags[o][v].home # "none" =>
                               Trusted(db.tags[o][v]) /\ Known(db, v)

\* Whatever happened since they asked, the decision of a reviewer who is no
\* admin reaches no further than the file, and opens it to nobody by its level
\* (review-inbox.ts: what is checked is what is decided).
StaysInFile(r) ==
    (r \notin Admins /\ asked[r] # NotAsking /\ db' # db
       /\ asked'[r] = NotAsking) =>
    LET file == db.items[asked[r].item].object IN
    /\ Level(db', file) <= Level(db, file)
    /\ db'.vocab = db.vocab
    /\ \A o \in Objects \ {file} : Level(db', o) = Level(db, o)
                                   /\ db'.tags[o] = db.tags[o]
    /\ \A i \in Open(db) : db.items[i].object # file => i \in Open(db)'
StayInFile == \A r \in Reviewers : StaysInFile(r)
OnlyAdminsLoosen == [][StayInFile]_vars
=============================================================================
