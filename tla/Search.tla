--------------------------------- MODULE Search ---------------------------------
(****************************************************************************)
(* Search behind policy (core/catalog search.ts), the gate every read goes    *)
(* through (visibility.ts viewObjects(), core/policy authorize(), levels),    *)
(* and the search documents the database's triggers keep (migration 0001).    *)
(*                                                                          *)
(* A search finds candidates in SQL, by what SQL expects the caller may see,  *)
(* and shows what the gate lets through: two translations of one rule, over   *)
(* rows and over a principal.  Each question is answered in one snapshot, so   *)
(* an answer is a function of the state; what happens are the changes between  *)
(* questions.  A text is the set of its words, a word a number; ts_rank is a   *)
(* weight per field; a level is its rank (visibility 0..2, exposure 0..3).    *)
(* Every tag is the one value of its own facet.                              *)
(****************************************************************************)
EXTENDS Integers, FiniteSets, FiniteSetsExt

CONSTANTS
    Changing,       \* the files something happens to
    MaxChanges

Files == 1..2
Words == 1..2
Tags == {"topic", "dept", "open", "closed", "local", "injection"}
WordOf == [topic |-> 1, dept |-> 2, open |-> 3, closed |-> 3, local |-> 3, injection |-> 3]
Sets == [visibility |-> [open |-> 2, closed |-> 0],
         exposure   |-> [open |-> 3, local |-> 1, injection |-> 0]]
Default == [visibility |-> 1, exposure |-> 2]
Top == [visibility |-> 2, exposure |-> 3]
Folder == <<2, 1>>      \* the word of the folder each file is in
Zone == <<"managed", "indexed">>
Never == 99

VARIABLES
    files,      \* the files, as their rows say
    facets,     \* the facets that are public
    meta,       \* each file's search document: titles, tags, folders
    content,    \* and its summary and text
    caller,     \* who asks, with their grants
    applying,   \* a pack that makes a facet public or private, being applied
    stale,      \* files that got the facet's tag past its snapshot (not the code's)
    changes

vars == <<files, facets, meta, content, caller, applying, stale, changes>>

Caller == [kind: {"member", "guest", "key", "keyless", "stopped"},
           client: {"first-party", "local", "commercial"},
           pack: {"none", "permit", "forbid", "unsearched"},
           own: SUBSET Files, grants: SUBSET Files, tags: SUBSET Tags,
           actions: SUBSET {"search", "read", "open"}, zones: SUBSET {"managed", "indexed"}]

---------------------------------------------------------------------------
(* The tags of a file, and the title someone who can't read it is shown.     *)
All(f) == {t \in Tags : files[f].tags[t] # "none"}
Trusted(f) == {t \in Tags : files[f].tags[t] = "trusted"}
TagWords(S) == {WordOf[t] : t \in S}

Generic == 0    \* GENERIC_TITLE
NonReaderTitle(f) ==
    IF files[f].by = "none" THEN files[f].title
    ELSE IF files[f].by = "model" THEN Generic
    ELSE IF files[f].display = Generic THEN files[f].title ELSE files[f].display

(* The search documents, as their triggers work them out of the rows.        *)
(* Mutant: a model's proposed title is matched on.                            *)
MetaOf(f, public) ==
    [title |-> {files[f].title}, other |-> {NonReaderTitle(f)},
     tags |-> TagWords(All(f)), trusted |-> TagWords(Trusted(f)),
     public |-> TagWords(Trusted(f) \cap public), folders |-> {Folder[f]}]
ContentOf(f) ==
    [summary |-> IF files[f].summary = "none" THEN {} ELSE {2},
     kind |-> files[f].summary, body |-> files[f].body]

---------------------------------------------------------------------------
(* Decisions: the core rules and a pack's, over what the caller holds.       *)
Active == caller.kind # "stopped"
Member == caller.kind = "member"
InScope(a, f) ==
    /\ caller.kind # "keyless"
    /\ caller.kind = "key" => a \in caller.actions /\ Zone[f] \in caller.zones

(* Grants match trusted tags only. Mutant: a model's guess too.               *)
ReadGranted_Guesses(f) == f \in caller.grants \/ All(f) \cap caller.tags # {}
ReadGranted(f) == f \in caller.grants \/ Trusted(f) \cap caller.tags # {}

(* A pack permits on trusted tags and forbids on every tag.                  *)
Forbidding(a, f) ==
    (IF ~Active THEN {"core/inactive"} ELSE {})
    \cup (IF ~InScope(a, f) THEN {"core/scope"} ELSE {})
    \cup (IF \/ caller.pack = "forbid" /\ a = "read"
             \/ caller.pack = "unsearched" /\ a = "search"
          THEN {p \in {"pack"} : "dept" \in All(f)} ELSE {})
Permitting(a, f) ==
    {p \in {"grant"} : ReadGranted(f)} \cup {p \in {"owner"} : f \in caller.own}
    \cup {p \in {"pack"} : caller.pack = "permit" /\ a # "search" /\ "topic" \in Trusted(f)}
Authorize(a, f) ==
    IF Forbidding(a, f) # {} THEN "forbid"
    ELSE IF Permitting(a, f) # {} THEN "allow" ELSE "no-permit"

(* A file's levels: its trusted tags' strictest, or the tenant's default;     *)
(* a guess only tightens; nothing counts until the file is processed.         *)
SetBy(S, level) == {Sets[level][t] : t \in S \cap DOMAIN Sets[level]}
Level(f, level) ==
    LET decided == SetBy(Trusted(f), level)
        base    == IF decided = {} THEN Default[level] ELSE Min(decided)
    IN  IF files[f].done THEN Min({base} \cup SetBy(All(f), level)) ELSE 0

NeedOf(kind) == CASE kind = "first-party" -> 0 [] kind = "local" -> 1
                  [] kind = "commercial" -> 2 [] OTHER -> Never
Reaches(f) == Level(f, "exposure") >= NeedOf(caller.client)

(* What a decision and the levels make of a file, whoever asks for it.        *)
DecideRead(f, read) ==
    IF read = "allow" THEN "card" ELSE <<"none", "title-only", "card">>[Level(f, "visibility") + 1]

---------------------------------------------------------------------------
(* The gate: the view a caller has of a file, in a listing or as a result.    *)
NoView == [shape |-> "none", title |-> Generic, tags |-> {}, readable |-> FALSE,
           folders |-> {}, metaOnly |-> FALSE, summary |-> {}, at |-> 0]

Unnamed(f) == caller.client # "first-party" /\ (~files[f].done \/ "injection" \in All(f))

(* What the levels give of it. Mutant: a guess is shown whatever the client.  *)
Shown_Guesses(f, can, metaOnly) ==
    IF can THEN All(f) ELSE Trusted(f) \cap facets
Shown(f, can, metaOnly) ==
    IF ~can THEN Trusted(f) \cap facets
    ELSE IF metaOnly THEN Trusted(f) ELSE All(f)

ViewOf(f, searching) ==
    LET read     == Authorize("read", f)
        can      == read = "allow"
        shape    == DecideRead(f, read)
        metaOnly == shape = "card" /\ (~Reaches(f) \/ read = "forbid")
        card     == shape = "card"
    IN  IF \/ ~files[f].there \/ shape = "none" \/ (~can /\ ~Member)
           \/ (searching /\ Authorize("search", f) = "forbid")
        THEN NoView
        ELSE [shape |-> shape,
              title |-> IF Unnamed(f) THEN Generic
                        ELSE IF can THEN files[f].title ELSE NonReaderTitle(f),
              tags |-> Shown(f, can, metaOnly),
              readable |-> can,
              folders |-> IF can /\ ~Unnamed(f) THEN {Folder[f]} ELSE {},
              metaOnly |-> metaOnly,
              summary |-> IF /\ card /\ ~metaOnly /\ files[f].summary # "none"
                             /\ Level(f, "exposure") >= NeedOf(files[f].summary)
                          THEN {2} ELSE {},
              at |-> IF card THEN files[f].at ELSE 0]

---------------------------------------------------------------------------
(* What SQL expects, from the rows and the documents alone.                  *)
MayAsk ==
    /\ caller.kind \notin {"stopped", "keyless"}
    /\ caller.kind = "key" => {"search", "read"} \subseteq caller.actions
Candidate(f) == files[f].there /\ (caller.kind = "key" => Zone[f] \in caller.zones)

Readable_Guesses(f) == f \in caller.own \cup caller.grants \/ All(f) \cap caller.tags # {}
Readable(f) == f \in caller.own \cup caller.grants \/ Trusted(f) \cap caller.tags # {}

(* A file's level from its object_levels row: the trusted half or the        *)
(* default, under the cap. Mutant: the cap is left out.                      *)
EffectiveLevel_Trusted(f, level) ==
    LET trusted == SetBy(Trusted(f), level)
    IN  IF ~files[f].done THEN 0 ELSE IF trusted = {} THEN Default[level] ELSE Min(trusted)
EffectiveLevel(f, level) ==
    LET trusted == SetBy(Trusted(f), level)
        cap     == SetBy(All(f) \ Trusted(f), level) \cup {Top[level]}
    IN  IF ~files[f].done THEN 0
        ELSE Min({Min(cap), IF trusted = {} THEN Default[level] ELSE Min(trusted)})

Levelled(f) == Candidate(f) /\ (Readable(f) \/ (Member /\ EffectiveLevel(f, "visibility") >= 1))
ContentOk(f) == Readable(f) /\ EffectiveLevel(f, "exposure") >= NeedOf(caller.client)
SummaryOk(f) ==
    /\ ContentOk(f) /\ content[f].kind # "none"
    /\ EffectiveLevel(f, "exposure") >= NeedOf(content[f].kind)

(* A document is its words by field. The views a file is matched for.        *)
Doc(title, tags, folders, summary, body) ==
    [title |-> title, tags |-> tags, folders |-> folders, summary |-> summary, body |-> body]
WordsOf(d) == UNION {d[x] : x \in DOMAIN d}

ContentDoc(f, summarized) ==
    Doc(meta[f].title, meta[f].tags, meta[f].folders,
        IF summarized THEN content[f].summary ELSE {}, content[f].body)
ReaderDoc(f) == Doc(meta[f].title, meta[f].tags, meta[f].folders, {}, {})
TrustedDoc(f) == Doc(meta[f].title, meta[f].trusted, meta[f].folders, {}, {})
OtherDoc(f) == Doc(meta[f].other, meta[f].public, {}, {}, {})

Holds(d, q) ==
    IF q.loose THEN q.words \cap WordsOf(d) # {} ELSE q.words \subseteq WordsOf(d)
RankOf(d, q) ==
    (IF q.loose THEN 1000 * Cardinality(q.words \cap WordsOf(d)) ELSE 0)
    + 20 * Cardinality(q.words \cap d.title)
    + 10 * Cardinality(q.words \cap d.tags) + 10 * Cardinality(q.words \cap d.folders)
    + 5 * Cardinality(q.words \cap d.summary) + 2 * Cardinality(q.words \cap d.body)
FieldsOf(d, q) == {x \in DOMAIN d : q.words \cap d[x] # {}}

(* A tag asked for is looked up among the tags a view shows.                 *)
Hits(d, tags, q) == q.filter \subseteq tags /\ Holds(d, q)
KwContent(f, q, summarized) == ContentOk(f) /\ Hits(ContentDoc(f, summarized), All(f), q)
KwReader(f, q) == Readable(f) /\ Hits(ReaderDoc(f), All(f), q)
KwTrusted(f, q) == Readable(f) /\ Hits(TrustedDoc(f), Trusted(f), q)
KwOther(f, q) == Hits(OtherDoc(f), Trusted(f) \cap facets, q)
KeywordCandidates(q) ==
    {f \in Files : /\ Levelled(f)
                   /\ \/ KwContent(f, q, SummaryOk(f)) \/ KwReader(f, q)
                      \/ KwTrusted(f, q) \/ KwOther(f, q)}

(* The files near a query, by the vectors SQL lets the caller be matched on.  *)
Nearest(q) ==
    {f \in Files : /\ q.near /\ Candidate(f) /\ ContentOk(f) /\ q.filter \subseteq All(f)
                   /\ EffectiveLevel(f, "exposure") >= NeedOf(files[f].vectors)}

---------------------------------------------------------------------------
(* What is kept of the candidates, as what each is shown.                    *)
(* The documents a keyword match holds by for the view the gate gave: one at  *)
(* most. Mutant: a metadata-only card is matched on the content.              *)
KeywordFor_Content(v, f, q) ==
    LET told == v.summary # {} /\ SummaryOk(f)
    IN  IF v.readable /\ Readable(f) /\ Hits(ContentDoc(f, told), All(f), q)
        THEN {ContentDoc(f, told)}
        ELSE IF KwOther(f, q) THEN {OtherDoc(f)} ELSE {}
KeywordFor(v, f, q) ==
    LET told == v.summary # {} /\ SummaryOk(f)
        own  == v.readable /\ Readable(f)
    IN  IF own /\ ~v.metaOnly /\ KwContent(f, q, told) THEN {ContentDoc(f, told)}
        ELSE IF own /\ ~v.metaOnly /\ KwReader(f, q) THEN {ReaderDoc(f)}
        ELSE IF own /\ v.metaOnly /\ KwTrusted(f, q) THEN {TrustedDoc(f)}
        ELSE IF KwOther(f, q) THEN {OtherDoc(f)} ELSE {}

(* Places in a list, from 1; 0 for a file that isn't in it. More of the words,*)
(* the better field, the card changed last, the id; by meaning, as measured.  *)
Before(f, g, docs, views, q) ==
    LET rank(h) == RankOf(CHOOSE d \in docs[h] : TRUE, q)
    IN  IF rank(f) # rank(g) THEN rank(f) > rank(g)
        ELSE IF views[f].at # views[g].at THEN views[f].at > views[g].at ELSE f < g
PlaceIn(f, list, before(_, _)) ==
    IF f \in list THEN 1 + Cardinality({g \in list \ {f} : before(g, f)}) ELSE 0

(* Reciprocal rank fusion, in whole numbers: 3782 is 61 * 62.                *)
Score(n) == IF n = 0 THEN 0 ELSE 3782 \div (60 + n)

(* The answer for the files that passed: each by its place.                  *)
Answer(views, docs, near, q) ==
    LET words == {f \in Files : docs[f] # {}}
        kept  == words \cup near
        word == [f \in kept |-> PlaceIn(f, words, LAMBDA g, h : Before(g, h, docs, views, q))]
        mean == [f \in kept |-> PlaceIn(f, near, LAMBDA g, h : g < h)]
        score == [f \in kept |-> Score(word[f]) + Score(mean[f])]
        better(f, g) == score[f] > score[g] \/ (score[f] = score[g] /\ f < g)
    IN  [f \in kept |->
            [view |-> views[f], place |-> PlaceIn(f, kept, better), word |-> word[f],
             meaning |-> mean[f], fields |-> UNION {FieldsOf(d, q) : d \in docs[f]}]]

GatedMatches(q, views, nearest) ==
    LET rows == KeywordCandidates(q)
        shown == {f \in rows \cup nearest : views[f].shape # "none"}
        docs == [f \in Files |-> IF f \in shown \cap rows THEN KeywordFor(views[f], f, q) ELSE {}]
    IN  Answer(views, docs,
               {f \in shown \cap nearest : views[f].readable /\ ~views[f].metaOnly}, q)

(* Any of the words, once no file that passed holds them all. Mutant: once    *)
(* SQL finds none.                                                           *)
FallsBack_Candidates(q, found) == Cardinality(q.words) > 1 /\ KeywordCandidates(q) = {}
FallsBack(q, found) ==
    Cardinality(q.words) > 1 /\ \A f \in DOMAIN found : found[f].word = 0

NoHits == [f \in {} |-> NoView]
Loose(q) == [q EXCEPT !.loose = TRUE]
SearchObjects(q, views) ==
    IF ~MayAsk THEN [hits |-> NoHits, anyWord |-> FALSE]
    ELSE LET near  == Nearest(q)
             first == GatedMatches(q, views, near)
         IN  IF FallsBack(q, first)
             THEN [hits |-> GatedMatches(Loose(q), views, near), anyWord |-> TRUE]
             ELSE [hits |-> first, anyWord |-> FALSE]

(* Titles with a word that begins so; a proposed title is never suggested.    *)
SuggestTitles(w, views) ==
    LET begins(f) == \/ Readable(f) /\ files[f].title = w
                     \/ files[f].by # "model" /\ NonReaderTitle(f) = w
    IN  {views[f].title : f \in {g \in Files :
            MayAsk /\ Levelled(g) /\ begins(g) /\ views[g].title = w}}

---------------------------------------------------------------------------
(* One file asked for: its view, its content, and why.                       *)
(* openContent() of the version asked for, the newest or the one before.      *)
Opening(f, newest) ==
    LET may  == /\ files[f].there /\ Authorize("read", f) = "allow"
                /\ Authorize("open", f) = "allow"
        kept == newest \/ (caller.client = "first-party" /\ f \in caller.own)
    IN  IF ~may THEN "refused" ELSE IF ~Reaches(f) THEN "withheld"
        ELSE IF kept /\ (~newest => files[f].version > 1) THEN "opened" ELSE "refused"

(* explainAccess(): the decision, its blockers, and what a listing shows.     *)
(* Mutant: a grant covers what a guess says the file is.                      *)
Covering_Guesses(f) ==
    {"file" : g \in {f} \cap caller.grants} \cup (All(f) \cap caller.tags)
Covering(f) ==
    {"file" : g \in {f} \cap caller.grants} \cup (Trusted(f) \cap caller.tags)
Explained(a, f) ==
    LET decision == Authorize(a, f)
        allowed  == decision = "allow" /\ files[f].there
        read     == Authorize("read", f)
    IN  [allowed |-> allowed,
         blockers |->
            IF allowed THEN {}
            ELSE {b \in {"deleted"} : ~files[f].there} \cup {b \in {"locked"} : ~Active}
                 \cup (IF decision = "forbid" THEN Forbidding(a, f) \ {"core/inactive"} ELSE {})
                 \cup {b \in {"no-grant"} : /\ decision # "allow" /\ Covering(f) = {}
                                             /\ f \notin caller.own},
         view |-> IF ~files[f].there \/ (read # "allow" /\ ~Member) THEN "none"
                  ELSE DecideRead(f, read)]

---------------------------------------------------------------------------
(* What happens between questions.                                           *)
Plain(title) ==
    [there |-> TRUE, title |-> title, display |-> Generic, by |-> "none",
     tags |-> [t \in Tags |-> "none"], done |-> TRUE, version |-> 1,
     summary |-> "commercial", vectors |-> "local", body |-> {3 - title}, at |-> title]

Init ==
    /\ files = [f \in Files |-> Plain(f)]
    /\ facets = {"topic"}
    /\ meta = [f \in Files |-> MetaOf(f, facets)]
    /\ content = [f \in Files |-> ContentOf(f)]
    /\ caller \in {c \in Caller :
            /\ c.own = {} /\ c.grants = {IF c.pack = "none" THEN 1 ELSE 2} /\ c.tags = {"dept"}
            /\ c.zones = (IF c.kind = "key" THEN {"managed"} ELSE {})
            /\ c.actions \in (IF c.kind = "key" THEN {{"search", "read"}, {"search", "open"}} ELSE {{}})
            /\ c.kind = "member" \/ (c.kind = "guest" /\ c.pack = "permit")
               \/ (c.pack = "none" /\ c.client # "local")}
    /\ applying = [at |-> "idle", facet |-> "topic", seen |-> {}]
    /\ stale = {}
    /\ changes = 0

Counted == changes < MaxChanges /\ changes' = changes + 1

(* The triggers: a document's part follows the rows it is made of. Mutant: a  *)
(* new version leaves the last one's text.                                   *)
RefreshContent_Kept(f) == content' = [content EXCEPT ![f].kind = files'[f].summary]
RefreshContent(f) == content' = [content EXCEPT ![f] = ContentOf(f)']
RefreshMeta(f) ==
    /\ meta' = [meta EXCEPT ![f] = MetaOf(f, facets)']
    /\ stale' = stale \ {f}

Becomes(f, file) ==
    /\ Counted
    /\ files' = [files EXCEPT ![f] = file]
    /\ UNCHANGED <<facets, caller, applying>>

Tagged(f, t, s) ==
    /\ files[f].tags[t] # s
    /\ Becomes(f, [files[f] EXCEPT !.tags[t] = s])
    /\ RefreshMeta(f) /\ UNCHANGED content
Renamed(f) ==
    /\ Becomes(f, [files[f] EXCEPT !.title = 3 - @, !.done = FALSE, !.at = 3 + changes])
    /\ RefreshMeta(f) /\ UNCHANGED content
DisplayTitle(f, by, title) ==
    /\ by = "model" => files[f].by # "user"
    /\ <<files[f].by, files[f].display>> # <<by, title>>
    /\ Becomes(f, [files[f] EXCEPT !.by = by, !.display = title])
    /\ RefreshMeta(f) /\ UNCHANGED content
NewVersion(f) ==
    /\ Becomes(f, [files[f] EXCEPT !.version = 2, !.body = {files[f].title}, !.done = FALSE,
                                   !.summary = "none", !.vectors = "none", !.at = 3 + changes])
    /\ RefreshContent(f) /\ UNCHANGED <<meta, stale>>
Summarized(f, kind) ==
    /\ files[f].summary # kind
    /\ Becomes(f, [files[f] EXCEPT !.summary = kind])
    /\ RefreshContent(f) /\ UNCHANGED <<meta, stale>>
Embedded(f, kind) ==
    /\ files[f].vectors # kind
    /\ Becomes(f, [files[f] EXCEPT !.vectors = kind]) /\ UNCHANGED <<meta, content, stale>>
Processed(f) ==
    /\ ~files[f].done
    /\ Becomes(f, [files[f] EXCEPT !.done = TRUE]) /\ UNCHANGED <<meta, content, stale>>
Deleted(f) ==
    /\ Becomes(f, [files[f] EXCEPT !.there = ~@]) /\ UNCHANGED <<meta, content, stale>>

Granted(c) ==
    /\ Counted /\ caller # c /\ caller' = c
    /\ UNCHANGED <<files, facets, meta, content, applying, stale>>

(* A pack is applied in one serializable transaction: the files its trigger   *)
(* refreshes are those its snapshot saw carry the facet's tag.               *)
ApplyBegins(t) ==
    /\ Counted /\ applying.at = "idle"
    /\ applying' = [at |-> "applied", facet |-> t, seen |-> {f \in Files : t \in All(f)}]
    /\ UNCHANGED <<files, facets, meta, content, caller, stale>>
ApplyCommits ==
    /\ applying.at = "applied"
    /\ facets' = (facets \ {applying.facet}) \cup ({applying.facet} \ facets)
    /\ meta' = [f \in Files |-> IF f \in applying.seen THEN MetaOf(f, facets') ELSE meta[f]]
    /\ stale' = stale \cup {f \in Files \ applying.seen : applying.facet \in All(f)}
    /\ applying' = [applying EXCEPT !.at = "idle", !.seen = {}]
    /\ UNCHANGED <<files, content, caller, changes>>

Next ==
    \/ \E f \in Changing :
        \/ \E t \in Tags, s \in {"none", "guess", "trusted"} : Tagged(f, t, s)
        \/ \E title \in {Generic, 3 - f} : DisplayTitle(f, "user", title)
        \/ DisplayTitle(f, "model", 3 - f)
        \/ \E kind \in {"local", "commercial"} : Summarized(f, kind) \/ Embedded(f, kind)
        \/ Renamed(f) \/ NewVersion(f) \/ Processed(f) \/ Deleted(f)
    \/ Granted([caller EXCEPT !.grants = Files \ @]) \/ Granted([caller EXCEPT !.own = Files \ @])
    \/ (\E t \in {"topic", "dept"} : ApplyBegins(t)) \/ ApplyCommits

Spec == Init /\ [][Next]_vars

---------------------------------------------------------------------------
TypeOK ==
    /\ files \in [Files -> [there: BOOLEAN, title: Words, display: 0..2,
                            by: {"none", "model", "user"},
                            tags: [Tags -> {"none", "guess", "trusted"}], done: BOOLEAN,
                            version: 1..2, summary: {"none", "local", "commercial"},
                            vectors: {"none", "local", "commercial"}, body: SUBSET Words,
                            at: Nat]]
    /\ facets \subseteq Tags
    /\ \A f \in Files : /\ meta[f].tags \cup meta[f].trusted \cup meta[f].public \subseteq 1..3
                        /\ content[f].summary \cup content[f].body \subseteq Words
    /\ caller \in Caller
    /\ applying \in [at: {"idle", "applied"}, facet: Tags, seen: SUBSET Files]
    /\ stale \subseteq Files
    /\ changes \in 0..MaxChanges

Asking(words, filter, near) ==
    [words |-> words, filter |-> filter, near |-> near, loose |-> FALSE]
Queries == {Asking({}, {"dept"}, FALSE), Asking({1}, {}, FALSE), Asking({1}, {"dept"}, TRUE),
            Asking(Words, {}, FALSE), Asking(Words, {}, TRUE)}

(* What a search is to answer, from the views alone: the words of what a card *)
(* shows the caller, or anyone. Someone who reads by a pack's rule only is     *)
(* matched as anyone; a name an AI client isn't told is still its person's.   *)
OwnDoc(f, v) ==
    Doc({files[f].title}, TagWords(v.tags), {Folder[f]}, v.summary,
        IF v.metaOnly THEN {} ELSE files[f].body)
AnyonesDoc(f) == Doc({NonReaderTitle(f)}, TagWords(Trusted(f) \cap facets), {}, {}, {})
ByOwn(f, v) == v.readable /\ (ReadGranted(f) \/ f \in caller.own)
Found(f, v) ==
    /\ v.shape # "none"
    /\ ByOwn(f, v) \/ (Member /\ Level(f, "visibility") >= 1)
DocsShown(f, v, q) ==
    IF ~Found(f, v) THEN {}
    ELSE IF ByOwn(f, v) /\ Hits(OwnDoc(f, v), v.tags, q) THEN {OwnDoc(f, v)}
    ELSE {d \in {AnyonesDoc(f)} : Hits(d, Trusted(f) \cap facets, q)}
NearShown(f, v, q) ==
    /\ q.near /\ ByOwn(f, v) /\ ~v.metaOnly /\ q.filter \subseteq v.tags
    /\ Level(f, "exposure") >= NeedOf(files[f].vectors)
Expected(q, views) ==
    LET near   == {f \in Files : NearShown(f, views[f], q)}
        all(r) == Answer(views, [f \in Files |-> DocsShown(f, views[f], r)], near, r)
        none   == MayAsk /\ Cardinality(q.words) > 1
                  /\ \A f \in Files : DocsShown(f, views[f], q) = {}
    IN  [hits |-> all(IF none THEN Loose(q) ELSE q), anyWord |-> none]

(* A search answers what the caller's views say and nothing else: every file  *)
(* whose card holds the words is found, by the fields it shows; no file, tag, *)
(* title, summary or text the caller isn't shown makes a hit, moves one, or   *)
(* makes the search fall back (search.ts searchObjects(), suggestTitles()).    *)
(* But not while a file is stale: tagged while a pack changed who may see the  *)
(* tag, it is matched as before until next written (migration 0001).        *)
SearchIsExact ==
    stale = {} =>
    LET views == [f \in Files |-> ViewOf(f, TRUE)]
        shown == [f \in Files |-> IF MayAsk THEN views[f] ELSE NoView]
    IN  /\ \A q \in Queries : SearchObjects(q, views) = Expected(q, shown)
        /\ \A w \in Words : SuggestTitles(w, views) =
              {w : f \in {g \in Files : /\ Found(g, shown[g]) /\ shown[g].title = w
                                        /\ ByOwn(g, shown[g]) \/ NonReaderTitle(g) = w}}

(* However a file is asked for, it is one decision: what explains it says what*)
(* its view shows, content is opened only through a card that says so, what   *)
(* exposure alone withholds is recorded as that, and a refusal has a reason    *)
(* (read.ts openContent(), explain.ts explainAccess()).                       *)
OneDecision ==
    \A f \in Files :
        LET view == ViewOf(f, FALSE)
            read == Explained("read", f)
            open == Explained("open", f)
        IN  /\ read.view = view.shape
            /\ read.allowed <=> view.readable
            /\ \A e \in {read, open} : e.allowed <=> e.blockers = {}
            /\ Opening(f, TRUE) = "opened" <=> view.readable /\ ~view.metaOnly /\ open.allowed
            /\ Opening(f, TRUE) = "withheld" <=> view.readable /\ view.metaOnly /\ open.allowed
            /\ Opening(f, FALSE) = "opened" => /\ Opening(f, TRUE) = "opened"
                                               /\ caller.client = "first-party"
            /\ ViewOf(f, TRUE) \in {view, NoView}
=============================================================================
