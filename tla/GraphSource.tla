------------------------------ MODULE GraphSource ------------------------------
(****************************************************************************)
(* The SharePoint connector (connectors/sharepoint): a site's libraries        *)
(* crawled and followed through Graph's delta feed, the folders it keeps       *)
(* between runs, and the tokens it hands to the runner (core/jobs sync.ts),    *)
(* which may be killed at any step while people work in the site.             *)
(*                                                                          *)
(* Graph is external: a link stands for what it has told of each item, and     *)
(* asking it tells of every item changed since, as it is then, in any order.   *)
(* A folder that is renamed, moved or deleted changes by itself: of what is in *)
(* it the feed says nothing, unless that is deleted with it. Names of items    *)
(* that cannot be served, permissions, sharing marks, contents, budgets and    *)
(* waits are left out. A page of a crawl is one item.                         *)
(****************************************************************************)
EXTENDS Integers, Sequences, FiniteSetsExt, SequencesExt

CONSTANTS
    Folders, Files,
    Library,        \* the library each item is in: 1..NumLibraries
    FirstPlaces,    \* where each item is at first, or Gone
    MaxChanges,     \* changes of the site
    MaxFaults       \* kills, refused listings, lapsed links, state lost

Items == Folders \cup Files
Libraries == {Library[i] : i \in Items}
LastLibrary == Max(Libraries)

VARIABLES
    site,       \* each item: the folder or library it is in, its name, its last change
    clock,      \* the changes so far
    dir,        \* the state directory: the generations of folders, and the crawl's log
    token,      \* the runner's token, as saved
    sync,       \* the run
    index,      \* the catalog: each item's path and revision
    seen,       \* items recorded since the crawl from the beginning
    retold,     \* folders its feed told of again, elsewhere or called otherwise
    due,        \* the reconcile of that crawl is to come
    loose,      \* items whose changes the connector may have missed until a crawl
    faults

vars == <<site, clock, dir, token, sync, index, seen, retold, due, loose, faults>>

Gone == 0
NoPath == <<>>
NoPlace == <<<<0, 0>>>>
NoRec == [path |-> NoPath, rev |-> 0]
Unknown == [in |-> Gone, name |-> 0]
NoFolders == [f \in Folders |-> Unknown]
NoPaths == [f \in Folders |-> NoPath]
NoLink == [i \in Items |-> 0]
NoEntries == [i \in Items |-> [in |-> Gone, name |-> 0, chg |-> 0]]
NoGen == [f \in Folders |-> [in |-> 0 - 1, name |-> 0]]

Top(l) == 0 - l                         \* a library, as a folder at the top
Tops == {Top(l) : l \in Libraries}

(* The path of a folder or library, by what places say of the folders: NoPath   *)
(* when one isn't known, NoPlace when it comes to no place (they were met at    *)
(* different times, and may be in each other).                                *)
RECURSIVE Up(_, _, _)
Up(places, f, depth) ==
    IF f \in Tops THEN <<<<f, 1>>>>
    ELSE IF f \notin Folders \/ places[f].in = Gone THEN NoPath
    ELSE IF depth > Cardinality(Folders) THEN NoPlace
    ELSE LET above == Up(places, places[f].in, depth + 1) IN
         IF above \in {NoPath, NoPlace} THEN above ELSE Append(above, <<f, places[f].name>>)
PathIn(places, f) == Up(places, f, 1)

There(i) == site[i].in # Gone
RECURSIVE Below(_)
Below(f) == LET inside == {i \in Items : site[i].in = f}
            IN inside \cup UNION {Below(g) : g \in inside \cap Folders}

RecOf(i, above, chg) == [path |-> Append(above, <<i, 1>>), rev |-> chg]

NoToken == [kind |-> "none", lib |-> 0, link |-> NoLink, gen |-> NoGen]
Off == [at |-> "off", lib |-> 0, link |-> NoLink, gen |-> NoGen, logged |-> FALSE,
        paths |-> NoPaths, met |-> {}, fetched |-> {}, kept |-> NoFolders,
        last |-> NoEntries, told |-> {}, tops |-> {}, pending |-> <<>>, listed |-> {},
        strayed |-> {}, events |-> <<>>, changed |-> FALSE, mine |-> FALSE, fresh |-> {}]

Init ==
    /\ site = [i \in Items |-> [in |-> FirstPlaces[i], name |-> 1, chg |-> 1]]
    /\ clock = 1
    /\ dir = [gens |-> {}, log |-> NoFolders, logged |-> FALSE, lost |-> FALSE]
    /\ token = NoToken
    /\ sync = Off
    /\ index = [i \in Items |-> NoRec]
    /\ seen = {} /\ retold = {} /\ due = FALSE /\ loose = {}
    /\ faults = 0

Fault == faults < MaxFaults /\ faults' = faults + 1

----------------------------------------------------------------------------
(* People work in the site.                                                  *)
ToldOf(f) == token.kind \in {"cursor", "delta"} /\ site[f].chg <= token.link[f]

Changed(s) ==
    /\ clock < MaxChanges + 1
    /\ clock' = clock + 1
    /\ site' = s
    /\ UNCHANGED <<dir, token, sync, index, seen, retold, due, loose, faults>>

Renames(f) ==
    /\ f \in Folders /\ There(f)
    /\ Changed([site EXCEPT ![f].name = 3 - @, ![f].chg = clock + 1])
Moves(i, to) ==
    /\ There(i) /\ to # i /\ site[i].in # to /\ (i \in Folders => to \notin Below(i))
    /\ to \in Folders => There(to) /\ Library[to] = Library[i]
    /\ to \in Tops => to = Top(Library[i])
    /\ Changed([site EXCEPT ![i].in = to, ![i].chg = clock + 1])
Edits(i) ==
    /\ i \in Files /\ There(i)
    /\ Changed([site EXCEPT ![i].chg = clock + 1])
Makes(i) ==
    /\ i \in Files /\ ~There(i)
    /\ Changed([site EXCEPT ![i].in = Top(Library[i]), ![i].chg = clock + 1])
(* The feed says so of all that went; or of the folder alone, where it had told *)
(* of a folder in it and no crawl is on.                                     *)
Deletes(i) ==
    /\ There(i)
    /\ LET gone == {i} \cup (IF i \in Folders THEN Below(i) ELSE {}) IN
       \E said \in {gone} \cup (IF \E f \in Folders : site[f].in = i /\ ToldOf(f) THEN {{i}} ELSE {}) :
         Changed([j \in Items |->
                    IF j \notin gone THEN site[j]
                    ELSE [site[j] EXCEPT !.in = Gone, !.chg = IF j \in said THEN clock + 1 ELSE 0]])

----------------------------------------------------------------------------
(* Placing an item.                                                          *)

(* pathOf(): known, or asked of Graph now with the folders above it that are   *)
(* not, which are then yielded first.                                         *)
RECURSIVE Asked(_, _)
Asked(paths, f) ==
    IF f \in Tops \/ f = Gone \/ paths[f] # NoPath THEN {}
    ELSE {f} \cup Asked(paths, site[f].in)
RECURSIVE PathOf(_, _)
PathOf(paths, f) ==
    IF f \in Tops THEN <<<<f, 1>>>>
    ELSE IF f = Gone THEN NoPlace
    ELSE IF paths[f] # NoPath THEN paths[f]
    ELSE LET above == PathOf(paths, site[f].in) IN
         IF above \in {NoPath, NoPlace} THEN NoPlace ELSE Append(above, <<f, site[f].name>>)

Placed(path) == path \notin {NoPath, NoPlace}
ByDepth(fs, paths) == SetToSortSeq(fs, LAMBDA f, g : Len(paths[f]) < Len(paths[g]))
Said(i, path, rev) == [item |-> i, rec |-> [path |-> path, rev |-> rev]]
Deleted(i) == [item |-> i, rec |-> NoRec]
Warned(i) == [item |-> i, rec |-> [path |-> NoPlace, rev |-> 0]]   \* unplaced-item
FolderOf(raw) == [in |-> raw.in, name |-> raw.name]

(* eventsOf(): what one entry becomes, and what is known after it. r is what    *)
(* the run knows: paths, the folders met, those asked for, the events.         *)
EventsOf(r, i, raw) ==
    IF raw.in = Gone
    THEN IF i \in Folders THEN [r EXCEPT !.paths[i] = NoPath] ELSE r
    ELSE LET above == PathOf(r.paths, raw.in)
             asked == IF above = NoPlace THEN {} ELSE Asked(r.paths, raw.in)
             paths == [f \in Folders |-> IF f \in asked THEN PathOf(r.paths, f) ELSE r.paths[f]]
             r2 == [r EXCEPT !.paths = paths, !.fetched = @ \cup asked,
                             !.met = {m \in @ : m[1] \notin asked}
                                       \cup {<<f, FolderOf(site[f])>> : f \in asked},
                             !.events = @ \o [n \in 1..Cardinality(asked) |->
                                 LET f == ByDepth(asked, paths)[n]
                                 IN Said(f, paths[f], site[f].chg)]]
             path == IF i \in Folders THEN Append(above, <<i, raw.name>>) ELSE Append(above, <<i, 1>>)
         IN IF above = NoPlace
            THEN [r EXCEPT !.paths = [f \in Folders |-> IF f \in {i, raw.in} THEN NoPlace ELSE @[f]],
                           !.events = Append(@, Warned(i))]
            ELSE IF i \in Files THEN [r2 EXCEPT !.events = Append(@, Said(i, path, raw.chg))]
            ELSE [r2 EXCEPT !.paths[i] = path,
                            !.met = {m \in @ : m[1] # i} \cup {<<i, FolderOf(raw)>>},
                            !.events = IF i \in r2.fetched /\ paths[i] = path THEN @
                                       ELSE Append(@, Said(i, path, raw.chg))]

(* treeOf(): what is kept, as paths.                                         *)
TreeOf(kept) == [f \in Folders |-> PathIn(kept, f)]
WithMet(kept, met) == [f \in Folders |->
    IF \E m \in met : m[1] = f THEN (CHOOSE m \in met : m[1] = f)[2] ELSE kept[f]]

----------------------------------------------------------------------------
(* The runs.                                                                 *)
Of(l) == {i \in Items : Library[i] = l}
ToTell(l, link) == {i \in Of(l) : site[i].chg > link[i]}

CrawlAgain ==
    /\ token' = NoToken
    /\ seen' = {} /\ retold' = {} /\ due' = TRUE
    /\ loose' = {}
    /\ dir' = [dir EXCEPT !.log = NoFolders, !.logged = TRUE]
    /\ sync' = [Off EXCEPT !.at = "crawl", !.lib = 1, !.logged = TRUE]

(* delta() needs a cursor whose folders are kept.                             *)
Usable ==
    \/ token.kind = "crawl"
    \/ token.kind \in {"cursor", "delta"} /\ token.gen \in dir.gens

(* A crawl goes on in its library, with the folders of its log where it placed *)
(* them. Mutant: with those Graph gives now.                                  *)
Before_Anew == NoPaths
Before == IF dir.logged THEN TreeOf(dir.log) ELSE NoPaths

ReconcileLeft == token.kind = "cursor" /\ due

Begins ==
    /\ sync.at = "off" /\ ~ReconcileLeft
    /\ IF ~Usable THEN CrawlAgain
       ELSE \/ /\ token.kind = "crawl"
               /\ sync' = [Off EXCEPT !.at = "crawl", !.lib = token.lib, !.link = token.link,
                                      !.paths = Before, !.logged = dir.logged]
               /\ UNCHANGED <<dir, token, seen, retold, due, loose>>
            \/ /\ token.kind \in {"cursor", "delta"}
               /\ dir' = [dir EXCEPT !.gens = {token.gen}, !.log = NoFolders, !.logged = FALSE]
               /\ sync' = [Off EXCEPT !.at = "read", !.lib = 1, !.link = token.link,
                                      !.gen = token.gen, !.kept = token.gen]
               /\ UNCHANGED <<token, seen, retold, due, loose>>
    /\ UNCHANGED <<site, clock, index, faults>>

(* A link Graph takes no more, libraries added, removed or renamed, a cursor    *)
(* too old, groups that changed: crawled again from the beginning.            *)
Resyncs ==
    /\ Fault
    /\ sync.at = "off" /\ ~ReconcileLeft /\ token.kind # "none"
    /\ CrawlAgain
    /\ UNCHANGED <<site, clock, index>>

----------------------------------------------------------------------------
(* A crawl: the next page.                                                   *)
MetAs(f) == WithMet(dir.log, sync.met)[f]
CrawlAsks(i) ==
    /\ sync.at = "crawl"
    /\ i \in ToTell(sync.lib, sync.link)
    /\ sync' = [EventsOf([sync EXCEPT !.events = <<>>], i, site[i])
                  EXCEPT !.link[i] = site[i].chg, !.at = "page"]
    /\ retold' = IF i \in Folders /\ MetAs(i) \notin {Unknown, FolderOf(site[i])}
                 THEN retold \cup {i} ELSE retold
    /\ UNCHANGED <<site, clock, dir, token, index, seen, due, loose, faults>>

Recording(e) ==
    /\ index' = IF e = Warned(e.item) THEN index ELSE [index EXCEPT ![e.item] = e.rec]
    /\ loose' = IF \/ e = Warned(e.item)
                   \/ \E n \in 1..(Len(e.rec.path) - 1) : e.rec.path[n][1] \in sync.strayed
                THEN loose \cup {e.item} ELSE loose \ {e.item}

CrawlRecords ==
    /\ sync.at = "page" /\ sync.events # <<>>
    /\ Recording(Head(sync.events))
    /\ seen' = seen \cup {Head(sync.events).item}
    /\ sync' = [sync EXCEPT !.events = Tail(@)]
    /\ UNCHANGED <<site, clock, dir, token, retold, due, faults>>

(* checkpointAt(): the folders met are in the log before the token is yielded. *)
CrawlLogs ==
    /\ sync.at = "page" /\ sync.events = <<>>
    /\ dir' = IF sync.logged THEN [dir EXCEPT !.log = WithMet(@, sync.met)] ELSE dir
    /\ sync' = [sync EXCEPT !.at = "logged", !.met = {}]
    /\ UNCHANGED <<site, clock, token, index, seen, retold, due, loose, faults>>

CrawlSaves ==
    /\ sync.at = "logged"
    /\ token' = [NoToken EXCEPT !.kind = "crawl", !.lib = sync.lib, !.link = sync.link]
    /\ sync' = [sync EXCEPT !.at = "crawl"]
    /\ UNCHANGED <<site, clock, dir, index, seen, retold, due, loose, faults>>

(* All is told of at least once; a change made meanwhile may be the first       *)
(* delta's to tell.                                                          *)
LibraryIsOver ==
    sync.at = "crawl" /\ \A i \in Of(sync.lib) : There(i) => sync.link[i] > 0

NextLibrary ==
    /\ LibraryIsOver /\ sync.lib < LastLibrary
    /\ sync' = [sync EXCEPT !.lib = @ + 1, !.paths = Before, !.fetched = {}]
    /\ UNCHANGED <<site, clock, dir, token, index, seen, retold, due, loose, faults>>

(* What it recorded in a folder its feed then told of elsewhere, and what it    *)
(* then told to be gone, stays so until the next crawl (documented).          *)
LeftBehind(kept) ==
    {i \in Items :
        LET path == index[i].path
            n == Len(path)
        IN \/ n > 1 /\ (\E k \in 1..(n - 1) : path[k][1] \in retold) /\ PathIn(kept, path[n - 1][1]) # SubSeq(path, 1, n - 1)
           \/ n > 0 /\ ~There(i) /\ site[i].chg <= sync.link[i]}

(* The log as a generation, whole, before the cursor that names it.           *)
CrawlEnds ==
    /\ LibraryIsOver /\ sync.lib = LastLibrary
    /\ LET gen == IF sync.logged THEN dir.log ELSE NoGen IN
         /\ dir' = IF gen = NoGen THEN dir ELSE [dir EXCEPT !.gens = @ \cup {gen}]
         /\ sync' = [sync EXCEPT !.at = "done", !.gen = gen]
    /\ loose' = loose \cup LeftBehind(dir.log)
    /\ UNCHANGED <<site, clock, token, index, seen, retold, due, faults>>

----------------------------------------------------------------------------
(* Following changes: a round of one library.                                *)

(* keep(): a folder known before, and somewhere or called otherwise now.       *)
(* Mutant: only its name is looked at.                                       *)
MovedSince_Name(was, raw) == was # Unknown /\ was.name # raw.name
MovedSince(was, raw) == was # Unknown /\ was # FolderOf(raw)

RoundReads ==
    /\ sync.at = "read"
    /\ LET told == ToTell(sync.lib, sync.link)
           gone == {f \in told \cap Folders : ~There(f) /\ sync.kept[f] # Unknown}
           kept == [f \in Folders |-> IF f \notin told THEN sync.kept[f]
                                      ELSE IF There(f) THEN FolderOf(site[f]) ELSE Unknown]
       IN IF \E f \in Folders : kept[f].in \in gone
          THEN CrawlAgain
          ELSE /\ sync' = [sync EXCEPT
                    !.at = "ask", !.told = told, !.last = site,
                    !.link = [i \in Items |-> IF i \in told THEN site[i].chg ELSE @[i]],
                    !.kept = kept, !.changed = kept # sync.kept,
                    !.tops = {f \in told \cap Folders :
                                There(f) /\ MovedSince(sync.kept[f], site[f])},
                    !.paths = TreeOf(kept), !.met = {}, !.fetched = {},
                    !.pending = <<>>, !.listed = {}, !.strayed = {}, !.events = <<>>]
               /\ UNCHANGED <<dir, token, seen, retold, due, loose>>
    /\ UNCHANGED <<site, clock, index, faults>>

(* Folders before files, the ones nearer the top first.                       *)
Ordered ==
    LET live == {i \in sync.told : sync.last[i].in # Gone}
    IN ByDepth(live \cap Folders, sync.paths) \o SetToSeq(live \cap Files)
RoundAsks ==
    /\ sync.at = "ask"
    /\ sync' = [FoldLeft(LAMBDA r, i : EventsOf(r, i, sync.last[i]), sync, Ordered)
                  EXCEPT !.at = "list"]
    /\ UNCHANGED <<site, clock, dir, token, index, seen, retold, due, loose, faults>>

(* What is in a folder that was renamed or moved, as Graph has it now, and so   *)
(* on below it; one that was listed and then comes up elsewhere (strayed) is    *)
(* not listed again, and kept as it is now. Mutant: only what is right in it.  *)
Further_No(children) == <<>>
Further(children) == SetToSeq(children \cap Folders)

NextTop == CHOOSE f \in sync.tops :
              \A g \in sync.tops : Len(sync.paths[f]) <= Len(sync.paths[g])
RoundTakesTop ==
    /\ sync.at = "list" /\ sync.pending = <<>> /\ sync.tops # {}
    /\ sync' = [sync EXCEPT !.tops = @ \ {NextTop},
                  !.pending = IF NextTop \in sync.listed \/ ~Placed(sync.paths[NextTop]) THEN <<>>
                              ELSE <<NextTop>>]
    /\ UNCHANGED <<site, clock, dir, token, index, seen, retold, due, loose, faults>>
RoundLists ==
    /\ sync.at = "list" /\ sync.pending # <<>>
    /\ LET folder == Head(sync.pending)
           children == {i \in Items : site[i].in = folder}
           r == FoldLeft(LAMBDA r, i : EventsOf(r, i, site[i]), sync, SetToSeq(children))
       IN sync' = [r EXCEPT !.listed = @ \cup {folder},
                            !.strayed = @ \cup {f \in children \cap sync.listed :
                                                   r.paths[f] # sync.paths[f]},
                            !.pending = Tail(@) \o SelectSeq(Further(children),
                                LAMBDA f : f \notin sync.listed /\ Placed(r.paths[f]))]
    /\ UNCHANGED <<site, clock, dir, token, index, seen, retold, due, loose, faults>>
(* Refused (403): a warning; what is in it stays until the next crawl.         *)
RoundIsRefused ==
    /\ Fault
    /\ sync.at = "list" /\ sync.pending # <<>>
    /\ loose' = loose \cup Below(Head(sync.pending)) \cup {Head(sync.pending)}
                      \cup {i \in Items : \E n \in DOMAIN index[i].path :
                              index[i].path[n] \in {Head(sync.pending)} \X {1, 2}}
    /\ sync' = [sync EXCEPT !.pending = Tail(@), !.listed = @ \cup {Head(sync.pending)},
                            !.strayed = @ \cup {Head(sync.pending)}]
    /\ UNCHANGED <<site, clock, dir, token, index, seen, retold, due>>

(* Then the deletions, and the folders asked for on the way are kept. A round   *)
(* with nothing to say goes on to the next library.                           *)
ToNext(r) == [r EXCEPT !.lib = @ + 1, !.at = IF r.lib < LastLibrary THEN "read" ELSE "done"]
RoundEnds ==
    /\ sync.at = "list" /\ sync.pending = <<>> /\ sync.tops = {}
    /\ LET kept == WithMet(sync.kept, sync.met)
           gone == {i \in sync.told : sync.last[i].in = Gone}
           r == [sync EXCEPT !.at = "yield", !.kept = kept, !.changed = @ \/ kept # sync.kept,
                             !.events = @ \o SetToSeq({Deleted(i) : i \in gone})]
       IN sync' = IF r.events = <<>> /\ ~r.changed THEN ToNext(r) ELSE r
    /\ UNCHANGED <<site, clock, dir, token, index, seen, retold, due, loose, faults>>

DeltaApplies ==
    /\ sync.at = "yield" /\ sync.events # <<>>
    /\ Recording(Head(sync.events))
    /\ sync' = [sync EXCEPT !.events = Tail(@), !.fresh = @ \cup {Head(sync.events).item}]
    /\ UNCHANGED <<site, clock, dir, token, seen, retold, due, faults>>

(* The generation is whole before the token naming it exists, and the ones      *)
(* before it go only once the runner has saved a token naming one of this run.  *)
(* Mutant: they go when the new one is written.                               *)
Earlier_Gone == IF sync.changed THEN {} ELSE dir.gens
Earlier == IF sync.changed /\ sync.mine THEN {sync.gen} \cap dir.gens ELSE dir.gens
DeltaWrites ==
    /\ sync.at = "yield" /\ sync.events = <<>>
    /\ LET gen == IF sync.changed THEN sync.kept ELSE sync.gen IN
         /\ dir' = [dir EXCEPT !.gens = Earlier \cup {gen}]
         /\ sync' = [sync EXCEPT !.at = "checkpoint", !.gen = gen, !.mine = @ \/ sync.changed]
    /\ UNCHANGED <<site, clock, token, index, seen, retold, due, loose, faults>>

DeltaSaves ==
    /\ sync.at = "checkpoint"
    /\ token' = [NoToken EXCEPT !.kind = "delta", !.link = sync.link, !.gen = sync.gen]
    /\ sync' = ToNext([sync EXCEPT !.fresh = {}])
    /\ UNCHANGED <<site, clock, dir, index, seen, retold, due, loose, faults>>

Done ==
    /\ sync.at = "done"
    /\ token' = [NoToken EXCEPT !.kind = "cursor", !.link = sync.link, !.gen = sync.gen]
    /\ sync' = Off
    /\ UNCHANGED <<site, clock, dir, index, seen, retold, due, loose, faults>>

Reconciles ==
    /\ sync.at = "off" /\ ReconcileLeft
    /\ index' = [i \in Items |-> IF i \in seen THEN index[i] ELSE NoRec]
    /\ due' = FALSE
    /\ UNCHANGED <<site, clock, dir, token, sync, seen, retold, loose, faults>>

----------------------------------------------------------------------------
(* What a delta had applied past its last checkpoint may not come again.       *)
Killed ==
    /\ Fault
    /\ sync.at # "off"
    /\ loose' = loose \cup sync.fresh
    /\ sync' = Off
    /\ UNCHANGED <<site, clock, dir, token, index, seen, retold, due>>

StateLost ==
    /\ Fault
    /\ sync.at = "off" /\ token.kind # "none"
    /\ dir' = [gens |-> {}, log |-> NoFolders, logged |-> FALSE, lost |-> TRUE]
    /\ UNCHANGED <<site, clock, token, sync, index, seen, retold, due, loose>>

Next ==
    \/ \E i \in Items : \/ Renames(i) \/ Edits(i) \/ Makes(i) \/ Deletes(i)
                        \/ \E to \in Folders \cup Tops : Moves(i, to)
    \/ Begins \/ Resyncs
    \/ (\E i \in Items : CrawlAsks(i)) \/ CrawlRecords \/ CrawlLogs \/ CrawlSaves
    \/ NextLibrary \/ CrawlEnds
    \/ RoundReads \/ RoundAsks \/ RoundTakesTop \/ RoundLists \/ RoundIsRefused \/ RoundEnds
    \/ DeltaApplies \/ DeltaWrites \/ DeltaSaves
    \/ Done \/ Reconciles \/ Killed \/ StateLost

Spec == Init /\ [][Next]_vars

----------------------------------------------------------------------------
TypeOK ==
    /\ \A i \in Items : /\ site[i].in \in Folders \cup Tops \cup {Gone}
                        /\ site[i].name \in {1, 2} /\ site[i].chg \in 0..(MaxChanges + 1)
    /\ token.kind \in {"none", "crawl", "cursor", "delta"}
    /\ token.link \in [Items -> 0..(MaxChanges + 1)]
    /\ sync.at \in {"off", "crawl", "page", "logged", "read", "ask", "list", "yield",
                    "checkpoint", "done"}
    /\ seen \subseteq Items /\ retold \subseteq Folders /\ loose \subseteq Items
    /\ due \in BOOLEAN /\ faults \in 0..MaxFaults

(* Once Graph has nothing to tell past a saved cursor, every item is in the    *)
(* catalog at its path and as it is, or gone from it: though Graph never said   *)
(* of what is in a folder that the folder was renamed, moved or in one that    *)
(* was, whatever happened between the feed and the listings, and whichever     *)
(* token a killed run left. All but what is documented to wait for a crawl     *)
(* (folders changed or items deleted while one was under way, a listing        *)
(* refused), and what a killed round had applied (connector.ts).              *)
Told == \A i \in Items : site[i].chg <= token.link[i]
NowAt(i) == IF There(i) THEN PathIn(site, site[i].in) ELSE NoPath
ItemIsRight(i) ==
    IF ~There(i) THEN index[i] = NoRec
    ELSE IF i \in Files THEN index[i] = RecOf(i, NowAt(i), site[i].chg)
    ELSE index[i].path = PathIn(site, i)
CaughtUp ==
    sync.at = "off" /\ token.kind = "cursor" /\ Usable /\ ~due /\ Told =>
        \A i \in Items \ loose : ItemIsRight(i)

(* The folders kept for a token are there as long as it may be used: whatever  *)
(* is written or removed around it (state.ts: whichever token the runner saved *)
(* last, its folders are the ones that were written for it).                  *)
FoldersAreKept ==
    token.kind \in {"cursor", "delta"} /\ token.gen # NoGen /\ ~dir.lost =>
        token.gen \in dir.gens

FollowsTheSite == CaughtUp /\ FoldersAreKept
=============================================================================
