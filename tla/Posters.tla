------------------------------- MODULE Posters -------------------------------
(***************************************************************************)
(* Pictures of films and series: the passes that look for them (enrich.rs, *)
(* metadata/mod.rs), the cache of files art/<id> (cache.rs), the records   *)
(* remembered for titles (store/titles.rs), the two ways to ask for them   *)
(* again (api_posters_refresh, api_metadata_refresh of routes.rs) and what *)
(* /art serves (art.rs), while scans bring rows and take them away.        *)
(*                                                                         *)
(*   posters    rows of items: id -> [film, file, tried, due]; file is the *)
(*              cached file, named after an id, {} for none; tried is      *)
(*              poster_source = 'none'; due is the refresh that last       *)
(*              cleared the row (history)                                  *)
(*   art        the cache: id -> [shows, sought, refresh]: the record the  *)
(*              picture is of, what it was fetched for, and after how many *)
(*              refreshes (the last two are history)                       *)
(*   titleIds   scope -> the record remembered for it                      *)
(*   pass       worker -> where its pass is                                *)
(*   refreshes, changes, restarts   how many there were                    *)
(*   calm       no two passes overlapped and none was cut off (history)    *)
(***************************************************************************)
EXTENDS PosterTitles

CONSTANTS
    Titles,         \* film -> [stem, title, series]: words of the file name, title of the
                    \* row, and the series as a set of at most one title
    FirstFilms,     \* films of the rows there are at the start, in the order of their ids
    Mortal,         \* films whose files may go
    InFolder,       \* films with a picture beside them
    Search,         \* <<title, series>> -> hits with a picture
    Elsewhere,      \* title -> the record whose picture another service has, or {}
    Years,          \* the service says the year (it does with a key)
    Refreshers, Boot, BatchSize,
    MaxRefreshes, MaxChanges, MaxRestarts

Workers == Refreshers \cup {Boot}

ASSUME PostersAssumption ==
    /\ FirstFilms \in Seq(DOMAIN Titles) /\ IsInjective(FirstFilms)
    /\ Mortal \cup InFolder \subseteq DOMAIN Titles
    /\ Boot \notin Refreshers /\ BatchSize \in Nat \ {0} /\ Years \in BOOLEAN
    /\ {MaxRefreshes, MaxChanges, MaxRestarts} \subseteq Nat

VARIABLES posters, art, titleIds, pass, refreshes, changes, restarts, calm
posterVars == <<posters, art, titleIds, pass, refreshes, changes, restarts, calm>>
counts == <<refreshes, changes, restarts, calm>>

Idle == [step |-> "idle", mark |-> FALSE, queue |-> <<>>, cursor |-> 0, solved |-> {}, record |-> {},
         gone |-> {}, scopes |-> {}]
NewRow(film) == [film |-> film, file |-> {}, tried |-> FALSE, due |-> 0]

PosterInit ==
    /\ posters = [i \in DOMAIN FirstFilms |-> NewRow(FirstFilms[i])]
    /\ art = <<>> /\ titleIds = <<>>
    /\ pass = [w \in Workers |-> IF w = Boot THEN [Idle EXCEPT !.step = "batch"] ELSE Idle]
    /\ refreshes = 0 /\ changes = 0 /\ restarts = 0 /\ calm = TRUE

Less(f, keys) == [k \in DOMAIN f \ keys |-> f[k]]
Put(f, key, value) == [k \in DOMAIN f \cup {key} |-> IF k = key THEN value ELSE f[k]]
Series(film) == Titles[film].series
Scope(film, id) == IF Series(film) # {} THEN <<"series", Series(film)>> ELSE <<"item", id>>
OfSeries(series) == {i \in DOMAIN posters : Series(posters[i].film) = series}

-----------------------------------------------------------------------------
(* The services.                                                           *)

Asked(hit) == [hit EXCEPT !.year = IF Years THEN @ ELSE {}]
Hits(q) == IF <<q.title, q.series>> \in DOMAIN Search
           THEN [i \in DOMAIN Search[q.title, q.series] |-> Asked(Search[q.title, q.series][i])]
           ELSE <<>>

\* What the names of the files say.
Guess == [film \in DOMAIN Titles |-> GuessTitle(Titles[film].stem)]
RowTitle(film) == IF Series(film) # {} THEN CHOOSE t \in Series(film) : TRUE ELSE Titles[film].title
\* resolve_title: the name of a series comes from its row, that of a film
\* from its file unless the file says nothing.
TitleQuery(film) ==
    LET guess == Guess[film]
        named == IF Series(film) # {} \/ guess.title = <<>> THEN RowTitle(film) ELSE guess.title
    IN  [title |-> named, year |-> guess.year, series |-> Series(film) # {}]
\* poster_for and poster_for_series: the same, but a film goes by its file alone.
ChainQuery(film) ==
    IF Series(film) # {} THEN TitleQuery(film) ELSE Guess[film]

Resolved == [film \in DOMAIN Titles |->
    LET q == TitleQuery(film)
    IN  {h \in BestHit(Hits(q), q) : TitlesMatch(q.title, h.title, q.year, h.year)}]
\* The first source that has a picture for the title.
Chain == [film \in DOMAIN Titles |->
    LET q == ChainQuery(film)
        found == {h.record : h \in BestHit(Hits(q), q)}
    IN  IF q.title = <<>> THEN {}
        ELSE IF found # {} \/ q.title \notin DOMAIN Elsewhere THEN found ELSE Elsewhere[q.title]]

\* A remembered record is still that of the title.
StillMatches(record, film) ==
    TitlesMatch(RowTitle(film), record.title, Guess[film].year, record.year)

-----------------------------------------------------------------------------
(* A pass.                                                                 *)

Pending(after) ==
    {i \in DOMAIN posters : i > after /\ posters[i].file = {} /\ ~posters[i].tried}
Goes(w, p) == pass' = [pass EXCEPT ![w] = p]
Head1(w) == Head(pass[w].queue)

\* run_until_done: the next batch, read once.
Batch(w) ==
    /\ pass[w].step = "batch"
    /\ LET ids == {i \in Pending(pass[w].cursor) : Cardinality({j \in Pending(pass[w].cursor) : j < i}) < BatchSize}
           nth(n) == CHOOSE i \in ids : Cardinality({j \in ids : j < i}) = n - 1
       IN  IF ids = {} THEN Goes(w, Idle)
           ELSE Goes(w, [pass[w] EXCEPT !.step = "look", !.solved = {},
                    !.queue = [n \in 1..Cardinality(ids) |-> [id |-> nth(n), film |-> posters[nth(n)].film]]])
    /\ UNCHANGED <<posters, art, titleIds, counts>>

Advanced(w) ==
    [pass[w] EXCEPT !.queue = Tail(@), !.cursor = Head1(w).id, !.record = {},
                    !.solved = (@ \cup {Series(Head1(w).film)}) \ {{}},
                    !.step = IF Len(pass[w].queue) = 1 THEN "batch" ELSE "look"]
Turns(w, step, record) == Goes(w, [pass[w] EXCEPT !.step = step, !.record = record])

Stored(w, record) ==
    art' = Put(art, Head1(w).id, [shows |-> record, sought |-> Head1(w).film, refresh |-> refreshes])

\* The cache, the folder, then what is remembered of the title.
Look(w) ==
    /\ pass[w].step = "look"
    /\ LET id == Head1(w).id
           film == Head1(w).film
           scope == Scope(film, id)
       IN  IF Series(film) # {} /\ Series(film) \in pass[w].solved
           THEN Goes(w, Advanced(w)) /\ UNCHANGED <<art, titleIds>>
           ELSE IF id \in DOMAIN art THEN Turns(w, "write", {}) /\ UNCHANGED <<art, titleIds>>
           ELSE IF film \in InFolder
           THEN Stored(w, film) /\ Turns(w, "write", {}) /\ UNCHANGED titleIds
           ELSE IF scope \notin DOMAIN titleIds THEN Turns(w, "resolve", {}) /\ UNCHANGED <<art, titleIds>>
           ELSE IF StillMatches(titleIds[scope], film)
           THEN Turns(w, "byId", {titleIds[scope]}) /\ UNCHANGED <<art, titleIds>>
           ELSE Turns(w, "byTitle", {}) /\ titleIds' = Less(titleIds, {scope}) /\ UNCHANGED art
    /\ UNCHANGED <<posters, counts>>

\* resolve_title, or no answer.
Resolve(w) ==
    /\ pass[w].step = "resolve"
    /\ LET scope == Scope(Head1(w).film, Head1(w).id)
       IN  \/ \E h \in Resolved[Head1(w).film] :
                 titleIds' = Put(titleIds, scope, h) /\ Turns(w, "byId", {h})
           \/ Turns(w, "byTitle", {}) /\ UNCHANGED titleIds
    /\ UNCHANGED <<posters, art, counts>>

\* poster_by_id, or no answer.
ById(w) ==
    /\ pass[w].step = "byId"
    /\ \/ Head1(w).id \in DOMAIN art /\ Turns(w, "write", {}) /\ UNCHANGED art
       \/ /\ Head1(w).id \notin DOMAIN art
          /\ \/ \E h \in pass[w].record : Stored(w, h.record) /\ Turns(w, "write", {})
             \/ Turns(w, "byTitle", {}) /\ UNCHANGED art
    /\ UNCHANGED <<posters, titleIds, counts>>

\* poster_for, poster_for_series, or no answer.
ByTitle(w) ==
    /\ pass[w].step = "byTitle"
    /\ \/ Head1(w).id \in DOMAIN art /\ Turns(w, "write", {}) /\ UNCHANGED art
       \/ /\ Head1(w).id \notin DOMAIN art
          /\ \/ \E record \in Chain[Head1(w).film] : Stored(w, record) /\ Turns(w, "write", {})
             \/ Turns(w, "none", {}) /\ UNCHANGED art
    /\ UNCHANGED <<posters, titleIds, counts>>

SharingNothing(film, id) == {id} \cap DOMAIN posters
\* One series, one poster.
Sharing(film, id) == IF Series(film) # {} THEN OfSeries(Series(film)) ELSE {id} \cap DOMAIN posters
Sets(w, file, tried) ==
    posters' = [i \in DOMAIN posters |->
                   IF i \in Sharing(Head1(w).film, Head1(w).id)
                   THEN [posters[i] EXCEPT !.file = file, !.tried = tried] ELSE posters[i]]
WriteFound(w) ==
    /\ pass[w].step = "write" /\ Sets(w, {Head1(w).id}, FALSE) /\ Goes(w, Advanced(w))
    /\ UNCHANGED <<art, titleIds, counts>>
WriteMissing(w) ==
    /\ pass[w].step = "none" /\ Goes(w, Advanced(w))
    /\ IF pass[w].mark THEN Sets(w, {}, TRUE) ELSE UNCHANGED posters
    /\ UNCHANGED <<art, titleIds, counts>>

-----------------------------------------------------------------------------
(* Asking again.                                                           *)

Quiet == \A w \in Workers : pass[w].step = "idle"
Begins1(w) ==
    /\ w \in Refreshers /\ pass[w].step = "idle"
    /\ refreshes < MaxRefreshes /\ refreshes' = refreshes + 1
    /\ calm' = (calm /\ Quiet)
Cleared(ids, n) ==
    [i \in DOMAIN posters |->
        IF i \in ids THEN [posters[i] EXCEPT !.file = {}, !.tried = FALSE, !.due = n] ELSE posters[i]]

\* api_posters_refresh forgets everything, and refresh_posters does once more:
\* the rows first, then the files of those that had something.
RefreshAll(w) ==
    /\ Begins1(w) /\ Goes(w, [Idle EXCEPT !.step = "clear", !.mark = TRUE])
    /\ UNCHANGED <<posters, art, titleIds, changes, restarts>>
Had == {i \in DOMAIN posters : posters[i].file # {} \/ posters[i].tried}
ForgetRows(w) ==
    /\ pass[w].step \in {"clear", "clear again"}
    /\ posters' = Cleared(DOMAIN posters, refreshes)
    /\ Goes(w, [pass[w] EXCEPT !.gone = Had, !.step = IF @ = "clear" THEN "remove" ELSE "remove again"])
    /\ UNCHANGED <<art, titleIds, counts>>
ForgetFiles(w) ==
    /\ pass[w].step \in {"remove", "remove again"}
    /\ art' = Less(art, pass[w].gone)
    /\ Goes(w, [pass[w] EXCEPT !.gone = {}, !.step = IF @ = "remove" THEN "clear again" ELSE "batch"])
    /\ UNCHANGED <<posters, titleIds, counts>>

\* api_metadata_refresh: one row, or all of a series and its record.  The rows
\* are chosen first and forgotten one by one, their series last.
RefreshSome(w, ids, scopes) ==
    /\ Begins1(w) /\ ids # {}
    /\ Goes(w, [Idle EXCEPT !.step = "forget", !.mark = TRUE, !.gone = ids, !.scopes = scopes])
    /\ UNCHANGED <<posters, art, titleIds, changes, restarts>>
ForgetItem(w) ==
    /\ pass[w].step = "forget"
    /\ \E id \in pass[w].gone :
          /\ titleIds' = Less(titleIds, {<<"item", id>>})
          /\ posters' = Cleared({id}, refreshes) /\ art' = Less(art, {id})
          /\ Goes(w, [pass[w] EXCEPT !.gone = @ \ {id}])
    /\ UNCHANGED counts
ForgetScopes(w) ==
    /\ pass[w].step = "forget" /\ pass[w].gone = {}
    /\ titleIds' = Less(titleIds, pass[w].scopes)
    /\ Goes(w, [pass[w] EXCEPT !.step = "batch", !.scopes = {}])
    /\ UNCHANGED <<posters, art, counts>>
RefreshOne(w, id) == RefreshSome(w, {id}, {})
RefreshSeries(w, series) == RefreshSome(w, OfSeries(series), {<<"series", series>>})

-----------------------------------------------------------------------------
(* Scans and restarts.                                                     *)

\* SQLite gives the first id above those in use.
NextId ==
    IF DOMAIN posters = {} THEN 1
    ELSE 1 + (CHOOSE i \in DOMAIN posters : \A j \in DOMAIN posters : j <= i)
FilmComes(film) ==
    /\ \A i \in DOMAIN posters : posters[i].film # film
    /\ changes < MaxChanges /\ changes' = changes + 1
    /\ posters' = Put(posters, NextId, NewRow(film))
    /\ UNCHANGED <<art, titleIds, pass, refreshes, restarts, calm>>
FilmGoes(id) ==
    /\ posters[id].film \in Mortal
    /\ changes < MaxChanges /\ changes' = changes + 1
    /\ posters' = Less(posters, {id})
    /\ UNCHANGED <<art, titleIds, pass, refreshes, restarts, calm>>
\* The server stops; the next one looks for what is missing.
PosterRestart ==
    /\ restarts < MaxRestarts /\ restarts' = restarts + 1
    /\ calm' = (calm /\ Quiet)
    /\ pass' = [w \in Workers |-> IF w = Boot THEN [Idle EXCEPT !.step = "batch"] ELSE Idle]
    /\ UNCHANGED <<posters, art, titleIds, refreshes, changes>>

PosterNext ==
    \/ \E w \in Workers : Batch(w) \/ Look(w) \/ Resolve(w) \/ ById(w) \/ ByTitle(w)
                          \/ WriteFound(w) \/ WriteMissing(w) \/ ForgetRows(w) \/ ForgetFiles(w)
                          \/ ForgetItem(w) \/ ForgetScopes(w)
    \/ \E w \in Refreshers :
          \/ RefreshAll(w)
          \/ \E id \in DOMAIN posters : RefreshOne(w, id)
          \/ \E film \in DOMAIN Titles : Series(film) # {} /\ RefreshSeries(w, Series(film))
    \/ \E film \in DOMAIN Titles : FilmComes(film)
    \/ \E id \in DOMAIN posters : FilmGoes(id)
    \/ PosterRestart

PosterSpec == PosterInit /\ [][PosterNext]_posterVars

-----------------------------------------------------------------------------
HasArt(id) == posters[id].file # {}
\* /art/{id}: the file in the row, if it is there.
Served(id) == {art[f] : f \in posters[id].file \cap DOMAIN art}

PosterTypeOK ==
    /\ \A i \in DOMAIN posters : posters[i].film \in DOMAIN Titles /\ ~(HasArt(i) /\ posters[i].tried)
    /\ \A i, j \in DOMAIN posters : posters[i].film = posters[j].film => i = j

\* A picture was sought for the film it is served for, or for another episode
\* of its series: "the ids will not appear again" (store/items.rs:277).
SoughtForIt ==
    \A i \in DOMAIN posters : \A picture \in Served(i) :
        \/ picture.sought = posters[i].film
        \/ Series(posters[i].film) # {} /\ Series(picture.sought) = Series(posters[i].film)

\* One series has one picture, whoever writes and in whatever order, and a new
\* episode has it or none (update_poster_for_series).
OneSeriesOnePoster ==
    \A i, j \in DOMAIN posters :
        Series(posters[i].film) # {} /\ Series(posters[i].film) = Series(posters[j].film)
            /\ HasArt(i) /\ HasArt(j) => posters[i].file = posters[j].file

\* When no pass runs, and none ever overlapped another or was cut off, what a
\* television is told of is there (browse.rs:321: a URL that gives 404), and
\* no picture is older than the last time it was asked for again.
ToldIsThere == Quiet /\ calm => \A i \in DOMAIN posters : HasArt(i) => Served(i) # {}
RefreshIsFresh ==
    Quiet /\ calm =>
        \A i \in DOMAIN posters : \A picture \in Served(i) : picture.refresh >= posters[i].due

\* What is remembered for a title is of that title and not years away.
RememberedMatches ==
    \A w \in Workers : pass[w].step = "byId" =>
        \A h \in pass[w].record : \A y \in Guess[Head1(w).film].year :
            \A z \in h.year : Apart(y, z) <= 2

PostersInv ==
    PosterTypeOK /\ SoughtForIt /\ OneSeriesOnePoster /\ ToldIsThere /\ RefreshIsFresh
    /\ RememberedMatches

=============================================================================
