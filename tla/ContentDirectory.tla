-------------------------- MODULE ContentDirectory --------------------------
(***************************************************************************)
(* What a television finds when it browses, pages and searches while       *)
(* folders change and the library is scanned again: ContentDirectory       *)
(* (rustiio-cds browse, views, search), its web twin (api/browse) and the  *)
(* full-text index (store/search) over the catalog of Shelves.             *)
(*                                                                         *)
(*   disk      the folders as they are now                                 *)
(*   catalog   what the televisions see                                    *)
(*   order     an enumeration of the catalog: the order in which a HashMap *)
(*             gives its nodes, another one in every catalog               *)
(*   updateId  SystemUpdateID of the catalog                               *)
(*   fresh     rescan() between sync_catalog and the swap: {} or {catalog} *)
(*   rows      the items table                                             *)
(*   tv        the list a television is paging through, {} for none        *)
(*   changes   changes of the folders so far                               *)
(***************************************************************************)
EXTENDS Shelves

CONSTANTS
    Disks,          \* folders there may be
    Orders(_),      \* enumerations of a set that a HashMap may give
    ViewList,       \* library.view_list
    RecentLimit,    \* library.recent_limit
    MaxResults,     \* MAX_RESULTS, 500 in the program
    Sorts, Counts,  \* SortCriteria and RequestedCount of the televisions
    Criteria,       \* what televisions search for
    Begins,         \* pairs of a word and the beginning of one
    MaxChanges,     \* bound on changes of the folders and restarts
    MaxScans        \* bound on scans of one process

ASSUME ContentAssumption ==
    /\ RecentLimit \in Nat /\ MaxResults \in Nat \ {0}
    /\ MaxChanges \in Nat /\ MaxScans \in Nat
    /\ Counts \subseteq Nat /\ ViewList \in Seq(ToSet(ViewList))

\* Ids are numbers that nothing else has, names are of known words without a
\* colon, and a series lies below one root (README, disagreements).
RootIds(d) == {r.id : r \in ToSet(d.roots)}
EntryIds(d) == {e.id : e \in ToSet(d.entries)}
NamesOn(d) == {r.name : r \in ToSet(d.roots)} \cup {e.name : e \in ToSet(d.entries)}
ASSUME DisksAssumption ==
    \A d \in Disks :
        /\ d.entries \in Seq(ToSet(d.entries)) /\ d.roots \in Seq(ToSet(d.roots))
        /\ \A i, j \in DOMAIN d.entries : d.entries[i].id = d.entries[j].id => i = j
        /\ \A i, j \in DOMAIN d.roots : d.roots[i].id = d.roots[j].id => i = j
        /\ RootIds(d) \cap EntryIds(d) = {}
        /\ RootIds(d) \cup EntryIds(d) \subseteq ToSet(Alphabet) \ {"0", "s:", "v:"}
        /\ \A n \in NamesOn(d) : n.words \in Seq(ToSet(Alphabet) \ {":"}) /\ IsFiniteSet(n.years)
ASSUME SeriesAssumption ==
    \A d \in Disks : \A k \in DOMAIN There(d) :
        MovedUp(Read(d, k, After(d)[k - 1]), <<There(d)[k].id>>, NamesOf(d)).series
            \cap DOMAIN After(d)[k - 1] = {}
\* A HashMap gives each of its nodes once.
ASSUME OrdersAssumption ==
    \A d \in Disks : \A o \in Orders(DOMAIN Scan(d)) :
        o \in Seq(DOMAIN Scan(d)) /\ ToSet(o) = DOMAIN Scan(d) /\ IsInjective(o)

VARIABLES disk, catalog, order, updateId, fresh, rows, tv, changes
cdsVars == <<disk, catalog, order, updateId, fresh, rows, tv, changes>>

-----------------------------------------------------------------------------
(* Categories.                                                             *)

Available == <<"movies", "series", "video", "recent", "audio", "image">>
ViewId(v) == <<"v:", v>>
IsView(id) == id[1] = "v:"
ShownViews ==
    LET new(i) == \A j \in 1..(i - 1) : ViewList[j] # ViewList[i]
        chosen == At(ViewList, {i \in DOMAIN ViewList : ViewList[i] \in ToSet(Available) /\ new(i)})
    IN  IF chosen = <<>> THEN <<"movies", "series">> ELSE chosen

KindsOf(v) ==
    CASE v = "audio" -> {"audio"} [] v = "image" -> {"image"}
      [] v = "recent" -> {"video", "audio", "image"} [] OTHER -> {"video"}

\* Everything that can be reached from the top, and everything in the map.
Flatten(cat) == Reach(cat, {Top}) \ {Top}
OfKinds(cat, kinds) == {id \in Flatten(cat) : cat[id].kind \in kinds}
CountOfKinds(cat, kinds) == Cardinality({id \in DOMAIN cat : cat[id].kind \in kinds})

InsideSeries(cat, id) ==
    LET chain == Chain(cat, id)
    IN  \E k \in DOMAIN chain : IsSynthetic(cat[chain[k]].parent)
IsSeries(id) == IsSynthetic(id) /\ ":" \notin ToSet(id)

\* ord is the order in which the map gives its nodes.
Recent(cat, ord) ==
    LET newest == StableSort(Among(ord, OfKinds(cat, KindsOf("recent"))),
                             LAMBDA a, b : cat[a].day > cat[b].day)
        limit == IF RecentLimit = 0 THEN 1 ELSE RecentLimit
    IN  SubSeq(newest, 1, IF Len(newest) < limit THEN Len(newest) ELSE limit)
ViewItems(cat, ord, v) ==
    CASE v = "recent" -> Recent(cat, ord)
      [] v = "series" -> Among(ord, {id \in DOMAIN cat : IsSeries(id)})
      [] v = "movies" -> Among(ord, {id \in DOMAIN cat :
                                        cat[id].kind = "video" /\ ~InsideSeries(cat, id)})
      [] OTHER -> Among(ord, OfKinds(cat, KindsOf(v)))
ViewCountOfKinds(cat, ord, v) == CountOfKinds(cat, KindsOf(v))
ViewCount(cat, ord, v) ==
    LET all == CountOfKinds(cat, KindsOf(v))
        limit == IF RecentLimit = 0 THEN 1 ELSE RecentLimit
    IN  IF v = "recent" THEN (IF all < limit THEN all ELSE limit)
        ELSE IF v \in {"series", "movies"} THEN Len(ViewItems(cat, ord, v)) ELSE all

-----------------------------------------------------------------------------
(* Browse.                                                                 *)

NodeOf(cat, id) == IF IsView(id) THEN Node(Top, <<id[2]>>, "folder", <<>>) ELSE cat[id]
Earlier(cat, a, b) == Before(NodeOf(cat, a).title, NodeOf(cat, b).title)
Folder(cat, id) == NodeOf(cat, id).kind = "folder"

ByTitle(cat, ids) == StableSort(ids, LAMBDA a, b : Earlier(cat, a, b))
ByDate(cat, ids) == StableSort(ids, LAMBDA a, b : NodeOf(cat, a).day < NodeOf(cat, b).day)
SortNodes(cat, ids, sort) ==
    CASE sort = "" -> StableSort(ids, LAMBDA a, b :
                          \/ Folder(cat, a) /\ ~Folder(cat, b)
                          \/ Folder(cat, a) = Folder(cat, b) /\ Earlier(cat, a, b))
      [] sort = "dc:date" -> ByDate(cat, ids)
      [] sort = "-dc:date" -> Reverse(ByDate(cat, ids))
      [] sort = "-dc:title" -> Reverse(ByTitle(cat, ids))
      [] OTHER -> ByTitle(cat, ids)

\* The top: categories in their own order, then folders by title.
RootChildren(cat, sort) ==
    LET folders == Children(cat, Top)
        inOrder == Among(Available, ToSet(ShownViews))
    IN  IF sort # "" THEN SortNodes(cat, folders \o [k \in DOMAIN ShownViews |-> ViewId(ShownViews[k])], sort)
        ELSE [k \in DOMAIN inOrder |-> ViewId(inOrder[k])] \o ByTitle(cat, folders)

Listing(cat, ord, id, sort) ==
    IF IsView(id) THEN SortNodes(cat, ViewItems(cat, ord, id[2]), sort)
    ELSE IF id = Top THEN RootChildren(cat, sort)
    ELSE SortNodes(cat, Children(cat, id), sort)

\* childCount of a container as BrowseMetadata and its parent tell it.
ChildCount(cat, ord, id) ==
    IF IsView(id) THEN ViewCount(cat, ord, id[2]) ELSE Len(Children(cat, id))

Page(ids, start, count) ==
    LET wanted == IF count = 0 \/ count > MaxResults THEN MaxResults ELSE count
        last == IF start + wanted < Len(ids) THEN start + wanted ELSE Len(ids)
    IN  SubSeq(ids, start + 1, last)

\* /api/browse: folders first, by title, on top of the order of the catalog.
WebListing(cat, id, kinds) ==
    LET found == {child \in DOMAIN cat : cat[child].kind \in kinds}
    IN  InOrder(cat, Among(Children(cat, id), found))

-----------------------------------------------------------------------------
(* Search.                                                                 *)

\* A row of the index.
Row(cat, dsk, id) ==
    LET i == CHOOSE i \in DOMAIN dsk.entries : <<dsk.entries[i].id>> = id
    IN  [id |-> id, kind |-> cat[id].kind, title |-> cat[id].title,
         path |-> PathWords(dsk)[i], series |-> SeriesInfo(dsk.entries[i].name)]
RowsOf(cat, dsk) == {Row(cat, dsk, id) : id \in {x \in DOMAIN cat : cat[x].file # {}}}

\* Criteria are [clauses, joined, loose]: a set of [field, value] pairs, the
\* words that join them and what stands outside quotes.
Classes == <<"videoitem", "audioitem", "imageitem", "container">>
ClassKind(value) ==
    CASE value = <<"videoitem">> -> {"video"} [] value = <<"audioitem">> -> {"audio"}
      [] value = <<"imageitem">> -> {"image"} [] value = <<"container">> -> {"folder"}
      [] OTHER -> {}

\* Televisions name at most one of the four classes, and look for words in the
\* title; what joins clauses and what is not quoted needs such a clause.
ASSUME CriteriaAssumption ==
    \A c \in Criteria :
        /\ \A x \in c.clauses : x = [field |-> x.field, value |-> x.value]
        /\ \A x \in c.clauses : \/ x.field = "class" /\ \E k \in DOMAIN Classes : x.value = <<Classes[k]>>
                                \/ x.field = "title" /\ x.value # <<>>
        /\ \A x, y \in c.clauses : x.field = "class" /\ y.field = "class" => x = y
        /\ c.loose # <<>> \/ "or" \in c.joined => \E x \in c.clauses : x.field = "title"

\* The clauses whose quotes are looked for; those of fields are not.
EveryQuote(c) == c.clauses
Spoken(c) == {x \in c.clauses : x.field \notin {"class", "refid", "parentid", "id"}}
ParseCriteria(c) ==
    LET named == {k \in DOMAIN Classes : [field |-> "class", value |-> <<Classes[k]>>] \in c.clauses}
        ids == {x.value : x \in {y \in c.clauses : y.field \in {"refid", "id"}}}
        phrases == {x.value : x \in Spoken(c)}
    IN  [kind    |-> IF named = {} THEN {} ELSE ClassKind(<<Classes[FirstOf(named)]>>),
         anyOf   |-> "or" \in c.joined,
         refIds  |-> ids,
         phrases |-> IF phrases = {} /\ ids = {} /\ c.loose # <<>> THEN {c.loose} ELSE phrases]

\* title:"word"* OR path:"word"
MatchesWord(row, w) ==
    w \in row.path \/ \E t \in ToSet(row.title) : t = w \/ <<t, w>> \in Begins
MatchesPhrase(row, phrase) == \A w \in ToSet(phrase) : MatchesWord(row, w)

Hits(c) ==
    LET q == ParseCriteria(c)
        said == {p \in q.phrases : p # <<>>}
        ofKind == {r \in rows : q.kind = {} \/ r.kind \in q.kind}
    IN  IF q.refIds # {} THEN q.refIds \cap DOMAIN catalog
        ELSE IF q.phrases = {} THEN {r.id : r \in ofKind}
        ELSE IF q.anyOf THEN {r.id : r \in {x \in ofKind : \E p \in said : MatchesPhrase(x, p)}}
        ELSE {r.id : r \in {x \in ofKind : said # {} /\ \A p \in said : MatchesPhrase(x, p)}}

\* How a hit is called in a flat list: an episode with its series.
HitTitle(r) ==
    IF r.series = {} THEN r.title
    ELSE LET s == CHOOSE s \in r.series : TRUE
         IN  s.series \o <<"S", ToString(s.season), "E", ToString(s.episode)>>

-----------------------------------------------------------------------------
(* Steps.                                                                  *)

Scanned == [d \in Disks |-> Scan(d)]
Indexed == [d \in Disks |-> RowsOf(Scanned[d], d)]

CdsInit ==
    /\ disk \in Disks
    /\ catalog = Scanned[disk] /\ rows = Indexed[disk]
    /\ order \in Orders(DOMAIN catalog)
    /\ updateId = 1 /\ fresh = {} /\ tv = {} /\ changes = 0

FoldersChange ==
    /\ changes < MaxChanges /\ changes' = changes + 1
    /\ disk' \in Disks \ {disk}
    /\ UNCHANGED <<catalog, order, updateId, fresh, rows, tv>>

\* scan and sync_catalog
ScanRuns ==
    /\ fresh = {} /\ updateId \leq MaxScans
    /\ fresh' = {Scanned[disk]} /\ rows' = Indexed[disk]
    /\ UNCHANGED <<disk, catalog, order, updateId, tv, changes>>

NoNextUpdateId == updateId
NextUpdateId == updateId + 1
Swap ==
    \E new \in fresh :
        /\ catalog' = new /\ order' \in Orders(DOMAIN new)
        /\ updateId' = NextUpdateId /\ fresh' = {}
        /\ UNCHANGED <<disk, rows, tv, changes>>

\* A new process; a television sees the server go and begins again.
ServerRestarts ==
    /\ changes < MaxChanges /\ changes' = changes + 1
    /\ catalog' = Scanned[disk] /\ rows' = Indexed[disk]
    /\ order' \in Orders(DOMAIN Scanned[disk])
    /\ updateId' = 1 /\ fresh' = {} /\ tv' = {}
    /\ UNCHANGED disk

Opens(id, sort, count) ==
    /\ tv = {}
    /\ tv' = {[id |-> id, sort |-> sort, count |-> count, seen |-> <<>>, told |-> {}, done |-> FALSE]}
    /\ UNCHANGED <<disk, catalog, order, updateId, fresh, rows, changes>>

\* The next page; the television stops when it has as many as there are.
NextPage ==
    \E t \in tv :
        /\ ~t.done
        /\ IsView(t.id) \/ t.id \in DOMAIN catalog
        /\ LET ids == Listing(catalog, order, t.id, t.sort)
               page == Page(ids, Len(t.seen), t.count)
           IN  tv' = {[t EXCEPT !.seen = @ \o page, !.told = @ \cup {updateId},
                                !.done = page = <<>> \/ Len(t.seen) + Len(page) >= Len(ids)]}
        /\ UNCHANGED <<disk, catalog, order, updateId, fresh, rows, changes>>

\* NoSuchObject, or the television leaves the list.
Leaves ==
    /\ tv # {} /\ tv' = {}
    /\ UNCHANGED <<disk, catalog, order, updateId, fresh, rows, changes>>

CdsNext ==
    \/ FoldersChange \/ ScanRuns \/ Swap \/ ServerRestarts \/ NextPage \/ Leaves
    \/ \E id \in {x \in DOMAIN catalog : Folder(catalog, x)} \cup {ViewId(v) : v \in ToSet(ShownViews)},
          sort \in Sorts, count \in Counts : Opens(id, sort, count)

CdsSpec == CdsInit /\ [][CdsNext]_cdsVars

-----------------------------------------------------------------------------
(* Properties.  What does not depend on the television is stated for the   *)
(* states in which none is paging: Leaves leads there from every state.    *)

CdsTypeOK ==
    /\ disk \in Disks /\ changes \in 0..MaxChanges /\ updateId \in Nat \ {0}
    /\ ToSet(order) = DOMAIN catalog /\ Cardinality(fresh) \leq 1
    /\ \A t \in tv : t.told \subseteq 1..updateId /\ t.done \in BOOLEAN

\* Every video the scan read can be reached from the top, and a node stands in
\* the list of its parent, once, and in no other list, whatever was moved,
\* replaced and removed (grouping.rs: moving episodes out of their folders).
EveryVideoOnce ==
    tv = {} =>
    /\ \A id \in DOMAIN catalog : catalog[id].kind = "video" => id \in Flatten(catalog)
    /\ \A id \in Flatten(catalog), up \in DOMAIN catalog :
           LET places == {k \in DOMAIN catalog[up].children : catalog[up].children[k] = id}
           IN  Cardinality(places) = (IF up = catalog[id].parent THEN 1 ELSE 0)

CdsInv == CdsTypeOK /\ EveryVideoOnce

\* Pages that carry one UpdateID are pages of one list: together they show
\* each object exactly once, in the order of the list, although the library
\* was scanned again and titles are equal (browse.rs paginate, state.rs rescan).
PagesOfOneUpdate ==
    \A t \in tv : t.done /\ t.told = {updateId} => t.seen = Listing(catalog, order, t.id, t.sort)

\* The number of children told for a container is the number it lists, and the
\* web shows the folder as the television does.  Categories that count audio
\* are left out (README, disagreements).
CountsAndListsAgree ==
    tv = {} =>
    /\ \A id \in {x \in Flatten(catalog) : Folder(catalog, x)} \cup {ViewId(v) : v \in {"movies", "series", "video"}} :
           ChildCount(catalog, order, id) = Len(Listing(catalog, order, id, ""))
    /\ \A id \in {x \in Flatten(catalog) : Folder(catalog, x)} :
           WebListing(catalog, id, {"folder", "video", "audio", "image"}) = Listing(catalog, order, id, "")

\* What a name is meant to tell is where its file belongs, by number, and what
\* the index reads from the name by itself does not differ.
Says(name, places) ==
    /\ name.meant = {[series |-> p.slug, season |-> p.season, number |-> p.number] : p \in places}
    /\ \A p \in places :
           /\ p.number > 0
           /\ \A s \in SeriesInfo(name) : s.series = p.slug /\ s.season = p.season
\* Every video on a disk, with the folders above it, says what it is meant to.
NamesSayWhatIsMeant ==
    \A d \in Disks : \A r \in ToSet(There(d)) :
        LET tree == ScanDir(d, r)
            places(id) == IF r.kind \in {"video", "mixed"} THEN Place(tree, id, NamesOf(d)) ELSE {}
        IN  \A id \in {x \in DOMAIN tree : tree[x].kind = "video"} : Says(NameOf(tree[id]), places(id))

\* An episode is shelved under the series and the season its file and folders
\* are meant to tell, with its number, whatever a tracker put around the name;
\* a film is not taken for an episode; and a search calls an episode by the
\* series under which it is shelved (naming.rs, grouping.rs, search.rs).
FoundWhereItBelongs ==
    tv = {} =>
    /\ NamesSayWhatIsMeant
    /\ \A id \in {x \in DOMAIN catalog : catalog[x].kind = "video"} :
           LET meant == NameOf(catalog[id]).meant
           IN  /\ meant = {} => ~IsSynthetic(catalog[id].parent)
               /\ \A m \in meant :
                      /\ catalog[id].parent = SeasonId(m.series, m.season)
                      /\ SubSeq(catalog[id].title, 1, 4) = <<"S", ToString(m.season), "E", ToString(m.number)>>
    /\ fresh = {} =>
           \A r \in {x \in rows : x.series # {} /\ IsSynthetic(catalog[x.id].parent)} :
               LET s == CHOOSE s \in r.series : TRUE
               IN  catalog[r.id].parent = SeasonId(s.series, s.season)

\* A search finds what its criteria say and nothing else: rows of the class,
\* if there is one, that have all phrases or, where they are joined by or, one
\* of them (search.rs parse_criteria, search_catalog).
SearchMeansWhatItSays ==
    tv = {} => \A c \in Criteria :
        LET class == {x \in c.clauses : x.field = "class"}
            titles == {x \in c.clauses : x.field = "title"}
            ofClass(r) == \A x \in class : r.kind \in ClassKind(x.value)
            has(r, x) == MatchesPhrase(r, x.value)
            wanted(r) == /\ ofClass(r)
                         /\ IF "or" \in c.joined THEN \E x \in titles : has(r, x)
                            ELSE \A x \in titles : has(r, x)
        IN  Hits(c) = {r.id : r \in {x \in rows : wanted(x)}}

=============================================================================
