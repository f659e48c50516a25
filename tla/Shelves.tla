------------------------------ MODULE Shelves ------------------------------
(***************************************************************************)
(* From the folders on disk to the catalog the televisions see: the scan   *)
(* (rustiio-library scan) and the arrangement of episodes under series and *)
(* seasons (grouping).                                                     *)
(*                                                                         *)
(* disk     [roots, entries].  roots is the sequence of configured folders *)
(*          [id, kind, name, there]; entries is the sequence of everything *)
(*          below them in the order of paths, [id, parent, name, ext, day] *)
(*          with ext "dir" for a folder and "hidden" for what begins with  *)
(*          a dot or a dollar; links are not entries: nobody follows them  *)
(* catalog  a function from ids to nodes                                   *)
(*                                                                         *)
(* Ids and titles are sequences of words, so that they can be compared:    *)
(* <<"0">> the top, <<i>> an entry, <<"s:">> \o slug a series and           *)
(* <<"s:">> \o slug \o <<":", "|", "|">> its second season.                *)
(***************************************************************************)
EXTENDS ReleaseNames, SequencesExt

CONSTANTS
    VideoExtensions,   \* library.video_extensions
    MaxDepth,          \* ScanOptions::max_depth, 8 in the program
    Letters,           \* how long a word is
    Alphabet           \* the words in alphabetical order

ASSUME ShelvesAssumption ==
    /\ MaxDepth \in Nat /\ VideoExtensions \subseteq STRING
    /\ Alphabet \in Seq(ToSet(Alphabet)) /\ {"s:", ":", "|"} \subseteq ToSet(Alphabet)
    /\ Letters \in [ToSet(Alphabet) -> Nat]

Top == <<"0">>
Rank == [w \in ToSet(Alphabet) |-> FirstOf({i \in DOMAIN Alphabet : Alphabet[i] = w})]
RankOf(w) == IF w \in DOMAIN Rank THEN Rank[w] ELSE 0

\* Titles in alphabetical order.
Before(t, u) ==
    \E k \in 0..Len(t) :
        /\ k < Len(u) /\ \A i \in 1..k : RankOf(t[i]) = RankOf(u[i])
        /\ k = Len(t) \/ RankOf(t[k + 1]) < RankOf(u[k + 1])

\* A stable sort.
StableSort(s, Less(_, _)) ==
    LET place(i) == Cardinality({j \in DOMAIN s :
                        Less(s[j], s[i]) \/ (~Less(s[i], s[j]) /\ j <= i)})
    IN  [k \in DOMAIN s |-> s[CHOOSE i \in DOMAIN s : place(i) = k]]

\* Those of a set, in the order of the sequence.
Among(s, S) == At(s, {i \in DOMAIN s : s[i] \in S})

\* Two catalogs in one; where both have a node the first one counts.
Over(new, old) ==
    [id \in DOMAIN new \cup DOMAIN old |-> IF id \in DOMAIN new THEN new[id] ELSE old[id]]

\* A set as a sequence, smallest first.
InSequence(S, Less(_, _)) ==
    [k \in 1..Cardinality(S) |-> CHOOSE x \in S : Cardinality({y \in S : Less(y, x)}) = k - 1]

-----------------------------------------------------------------------------
(* The scan.                                                               *)

Classify(ext) ==
    CASE ext \in {"srt", "vtt", "sub", "ass", "ssa"} -> "subtitle"
      [] ext \in {"jpg", "jpeg", "png", "webp"} -> "image"
      [] ext \in {"mkv", "mp4", "m4v", "avi", "mov", "ts", "m2ts", "mts", "webm", "mpg", "mpeg",
                  "wmv", "flv", "divx", "vob", "ogv", "3gp"} -> "video"
      [] ext \in {"mp3", "m4a", "aac", "flac", "wav", "ogg", "oga"} -> "audio"
      [] ext = "dir" -> "folder"
      [] OTHER -> "other"

\* Images are classified and never taken.
Accepted(ext) ==
    \/ ext = "dir"
    \/ Classify(ext) = "video" /\ ext \in VideoExtensions
    \/ Classify(ext) = "audio" /\ ext # "oga"

\* The folders that are n folders below a root.
FoldersAt(disk, root) ==
    LET Folders[n \in 0..MaxDepth] ==
            IF n = 0 THEN {root.id}
            ELSE {e.id : e \in {x \in ToSet(disk.entries) : x.ext = "dir" /\ x.parent \in Folders[n - 1]}}
    IN  Folders
\* The entries that scan_dir takes from them.
TakenFrom(disk, root) ==
    {i \in DOMAIN disk.entries :
        /\ Accepted(disk.entries[i].ext)
        /\ \E n \in 0..(MaxDepth - 1) : disk.entries[i].parent \in FoldersAt(disk, root)[n]}

Node(parent, title, kind, children) ==
    [parent |-> parent, title |-> title, kind |-> kind, children |-> children,
     file |-> {}, day |-> 0]

\* The words of the path of entry i: its own and those of the folders above.
PathWords(disk) ==
    LET Words[i \in DOMAIN disk.entries] ==
            LET e == disk.entries[i]
                up == {j \in 1..(i - 1) : disk.entries[j].id = e.parent}
            IN  ToSet(e.name.words) \cup UNION {Words[j] : j \in up} \cup
                UNION {ToSet(r.name.words) : r \in {x \in ToSet(disk.roots) : x.id = e.parent}}
    IN  Words

\* What scan_dir leaves below a root: folders first, both in path order.
ScanDir(disk, root) ==
    LET read == TakenFrom(disk, root)
        entry(id) == disk.entries[CHOOSE i \in read : <<disk.entries[i].id>> = id]
        ids == {<<disk.entries[i].id>> : i \in read}
        inFolder(id, dirs) ==
            LET here(e) == <<e.parent>> = id /\ <<e.id>> \in ids /\ (e.ext = "dir") = dirs
                found == Among(disk.entries, {e \in ToSet(disk.entries) : here(e)})
            IN  [k \in DOMAIN found |-> <<found[k].id>>]
        listed(id) == inFolder(id, TRUE) \o inFolder(id, FALSE)
        node(id) ==
            IF id = <<root.id>> THEN Node(Top, root.name.words, "folder", listed(id))
            ELSE LET e == entry(id)
                 IN  [Node(<<e.parent>>, e.name.words, Classify(e.ext), listed(id))
                        EXCEPT !.file = {e.name}, !.day = e.day]
    IN  [id \in ids \cup {<<root.id>>} |-> node(id)]

-----------------------------------------------------------------------------
(* What lies below what.                                                   *)

Children(catalog, id) ==
    IF id \in DOMAIN catalog THEN Among(catalog[id].children, DOMAIN catalog) ELSE <<>>

\* Those of a set and what can be reached from them.
Reach(catalog, from) ==
    LET Further[seen \in SUBSET DOMAIN catalog] ==
            LET more == UNION {ToSet(Children(catalog, id)) : id \in seen}
            IN  IF more \subseteq seen THEN seen ELSE Further[seen \cup more]
    IN  Further[from]

Descendants(catalog, id) ==
    Reach(catalog, ToSet(Children(catalog, id)))

IsSynthetic(id) == id[1] = "s:"

HasVideoHere(catalog, id) == \E k \in DOMAIN Children(catalog, id) :
                                catalog[Children(catalog, id)[k]].kind = "video"
HasVideo(catalog, id) == \E d \in Reach(catalog, {id}) : catalog[d].kind = "video"

\* A node and those above it.
Chain(catalog, id) ==
    LET Up[x \in DOMAIN catalog] ==
            <<x>> \o (IF catalog[x].parent \in DOMAIN catalog THEN Up[catalog[x].parent] ELSE <<>>)
    IN  IF id \in DOMAIN catalog THEN Up[id] ELSE <<>>

-----------------------------------------------------------------------------
(* Where a video belongs.                                                  *)

NameOf(node) == CHOOSE n \in node.file : TRUE

\* Series, season and episode from the folders above: the nearest that says
\* it, up to the one that completes series and season.
Nearest(said, parentTitle) ==
    LET titled == {k \in DOMAIN said : said[k].title # <<>>}
        seasoned == {k \in DOMAIN said : said[k].season # {}}
        numbered == {k \in DOMAIN said :
                        /\ said[k].episode # {}
                        /\ titled = {} \/ seasoned = {} \/ k <= FirstOf(titled) \/ k <= FirstOf(seasoned)}
    IN  [title   |-> IF titled = {} THEN parentTitle
                     ELSE said[FirstOf(titled)].title,
         season  |-> IF seasoned = {} THEN {} ELSE said[FirstOf(seasoned)].season,
         episode |-> IF numbered = {} THEN {} ELSE said[FirstOf(numbered)].episode]
\* The folders above a node, six at most.
FoldersAbove(catalog, id) ==
    LET Up[k \in 0..6] ==
            IF k = 0 THEN id
            ELSE LET below == Up[k - 1]
                 IN  IF below \in DOMAIN catalog THEN catalog[below].parent ELSE Top
        hops == {k \in 1..6 : \A j \in 1..k : Up[j] \in DOMAIN catalog}
    IN  [k \in hops |-> Up[k]]
SaidBy(folders, names) == [k \in DOMAIN folders |-> ParseBare(names[folders[k]])]
ContextOf(catalog, id, names) ==
    Nearest(SaidBy(FoldersAbove(catalog, id), names), catalog[catalog[id].parent].title)

\* The first of several answers that is one.
OrElse(a, b) == IF a # {} THEN a ELSE b
OrZero(a) == CHOOSE n \in OrElse(a, {0}) : TRUE

\* Place: {} for a film, else the series, season and number of the episode.
PlaceBy(name, parsed, context) ==
    LET own == parsed.season \cup parsed.episode # {}
    IN  IF ~parsed.isEpisode /\ context.season = {} THEN {}
        ELSE {[slug |-> IF (own /\ parsed.title # <<>>) \/ context.title = <<>> THEN parsed.title
                        ELSE context.title,
               season |-> OrZero(OrElse(parsed.season, context.season)),
               number |-> OrZero(OrElse(parsed.episode,
                                        OrElse(EpisodeNumberHint(name), context.episode))),
               said |-> parsed.title,
               quality |-> parsed.quality]}
Place(catalog, id, names) ==
    PlaceBy(NameOf(catalog[id]), ParseFile(NameOf(catalog[id])), ContextOf(catalog, id, names))

SeriesId(slug) == <<"s:">> \o slug
SeasonId(slug, season) == <<"s:">> \o slug \o <<":">> \o [k \in 1..season |-> "|"]
SeasonTitle(season) == IF season = 0 THEN <<"specijali">> ELSE <<"sezona", ToString(season)>>
EpisodeTitle(p) ==
    <<"S", ToString(p.season)>> \o (IF p.number > 0 THEN <<"E", ToString(p.number)>> ELSE <<>>)
        \o [k \in 1..Cardinality(p.quality) |-> CHOOSE q \in p.quality : TRUE]
MovieTitle(words, p) ==
    IF p.title = <<>> THEN words
    ELSE p.title \o [k \in 1..Cardinality(p.year) |-> ToString(CHOOSE y \in p.year : TRUE)]

\* The letters of a title, and a blank for each word.
LengthOf(title) == Cardinality(UNION {{i} \X (0..Letters[title[i]]) : i \in DOMAIN title})
\* The longest of the names its files give a series.
GroupTitle(slug, places) ==
    LET names == {slug} \cup {p.said : p \in places}
    IN  CHOOSE t \in names : \A u \in names : LengthOf(t) >= LengthOf(u)

-----------------------------------------------------------------------------
(* The arrangement.                                                        *)

PlaceOf(place, id) == CHOOSE p \in place[id] : TRUE
ByNumber(place, ids) ==
    StableSort(ids, LAMBDA a, b : PlaceOf(place, a).number < PlaceOf(place, b).number)
Alphabetical(catalog, ids) ==
    StableSort(ids, LAMBDA a, b : Before(catalog[a].title, catalog[b].title))

\* Episodes move to their season and out of the lists of their old folders.
MoveUp(catalog, root, place) ==
    LET videos == DOMAIN place
        episodes == {id \in videos : place[id] # {}}
        at(id) == PlaceOf(place, id)
        slugs == {at(id).slug : id \in episodes}
        of(slug) == {id \in episodes : at(id).slug = slug}
        seasonsOf(slug) == {at(id).season : id \in of(slug)}
        shelf(id) == SeasonId(at(id).slug, at(id).season)
        series(slug) ==
            Node(root, GroupTitle(slug, {at(id) : id \in of(slug)}), "folder",
                 LET nums == InSequence(seasonsOf(slug), <)
                 IN  [k \in DOMAIN nums |-> SeasonId(slug, nums[k])])
        season(slug, n) ==
            Node(SeriesId(slug), SeasonTitle(n), "folder",
                 ByNumber(place, InSequence({id \in of(slug) : at(id).season = n}, Before)))
        kept == [id \in DOMAIN catalog |->
            IF id \in episodes
                THEN [catalog[id] EXCEPT !.parent = shelf(id), !.title = EpisodeTitle(at(id))]
            ELSE IF id \in videos
                THEN [catalog[id] EXCEPT
                               !.title = MovieTitle(NameOf(catalog[id]).words, ParseFile(NameOf(catalog[id])))]
            ELSE IF IsSynthetic(id) THEN catalog[id]
            ELSE [catalog[id] EXCEPT !.children = Among(@, ToSet(@) \ episodes)]]
        newSeries == [i \in {SeriesId(g) : g \in slugs} |->
                         series(CHOOSE g \in slugs : SeriesId(g) = i)]
        newSeasons == [i \in {shelf(id) : id \in episodes} |->
                          LET one == CHOOSE id \in episodes : shelf(id) = i
                          IN  season(at(one).slug, at(one).season)]
    IN  [nodes |-> Over(newSeries, Over(newSeasons, kept)),
         series |-> DOMAIN newSeries,
         films |-> {id \in videos \ episodes : catalog[id].parent = root}]
MovedUp(catalog, root, names) ==
    MoveUp(catalog, root,
           [id \in {x \in DOMAIN catalog \cap Descendants(catalog, root) : catalog[x].kind = "video"} |->
                Place(catalog, id, names)])

\* Folders without a video are removed; what else lies in them stays in the
\* map.
PruneEmpty(catalog, root) ==
    LET gone == {id \in Descendants(catalog, root) :
                    catalog[id].kind = "folder" /\ ~IsSynthetic(id) /\ ~HasVideo(catalog, id)}
    IN  [id \in DOMAIN catalog \ gone |->
            [catalog[id] EXCEPT !.children = Among(@, ToSet(@) \ gone)]]

InOrder(catalog, ids) ==
    LET dir(a) == catalog[a].kind = "folder"
    IN  StableSort(ids, LAMBDA a, b :
            \/ dir(a) /\ ~dir(b)
            \/ dir(a) = dir(b) /\ Before(catalog[a].title, catalog[b].title))

FoldersInOrder(cat, root) ==
    LET folders == {id \in Descendants(cat, root) : cat[id].kind = "folder" /\ ~IsSynthetic(id)}
    IN  [id \in DOMAIN cat |->
            IF id \in folders THEN [cat[id] EXCEPT !.children = InOrder(cat, Children(cat, id))]
            ELSE cat[id]]
\* Series, then films, then everything else; folders below keep one order.
TopInOrder(cat, root, moved) ==
    LET old == Children(cat, root)
        top == Alphabetical(cat, InSequence(moved.series, Before))
                   \o Alphabetical(cat, Reverse(Among(old, moved.films)))
                   \o InOrder(cat, Among(old, ToSet(old) \ (moved.films \cup moved.series)))
    IN  FoldersInOrder([cat EXCEPT ![root].children = top], root)
Shelve(moved, root, prune) ==
    TopInOrder(IF prune THEN PruneEmpty(moved.nodes, root) ELSE moved.nodes, root, moved)
ArrangeVideo(catalog, root, prune, names) == Shelve(MovedUp(catalog, root, names), root, prune)

\* The root and the folders directly in it.
SortOnly(catalog, root) ==
    LET near == {root} \cup {id \in ToSet(Children(catalog, root)) :
                                catalog[id].kind = "folder" /\ ~IsSynthetic(id)}
    IN  [id \in DOMAIN catalog |->
            IF id \in near
                THEN [catalog[id] EXCEPT !.children = InOrder(catalog, Children(catalog, id))]
                ELSE catalog[id]]

Arrange(catalog, root, kind, names) ==
    IF kind \in {"video", "mixed"} THEN ArrangeVideo(catalog, root, kind = "video", names)
    ELSE SortOnly(catalog, root)

\* Roots are read and arranged one after the other; the top comes last.
There(disk) == Among(disk.roots, {r \in ToSet(disk.roots) : r.there})
NamesOf(disk) ==
    LET named == {<<r.id, r.name>> : r \in ToSet(disk.roots)}
                     \cup {<<e.id, e.name>> : e \in ToSet(disk.entries)}
    IN  [id \in {<<n[1]>> : n \in named} |-> (CHOOSE n \in named : <<n[1]>> = id)[2]]
\* A catalog with what lies in the k-th root.
Read(disk, k, catalog) == Over(ScanDir(disk, There(disk)[k]), catalog)
\* The catalog after each of the roots.
After(disk) ==
    LET Roots[k \in 0..Len(There(disk))] ==
            IF k = 0 THEN <<>>
            ELSE Arrange(Read(disk, k, Roots[k - 1]), <<There(disk)[k].id>>, There(disk)[k].kind,
                         NamesOf(disk))
    IN  Roots
Scan(disk) ==
    Over(After(disk)[Len(There(disk))],
         [id \in {Top} |-> Node(<<"-1">>, <<"rustiio">>, "folder",
                               [k \in DOMAIN There(disk) |-> <<There(disk)[k].id>>])])

=============================================================================
