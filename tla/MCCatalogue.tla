---------------------------- MODULE MCCatalogue ----------------------------
(* Libraries as users have them: names from trackers, seasons in folders,  *)
(* films, films of one title, music, empty folders, two roots.             *)
EXTENDS ContentDirectory

MCNumber == [w \in {"1", "2", "03", "5", "7", "10", "2018", "2024", "24", "264"} |->
                CASE w = "1" -> 1 [] w = "2" -> 2 [] w = "03" -> 3 [] w = "5" -> 5 [] w = "7" -> 7
                  [] w = "10" -> 10 [] w = "2018" -> 2018 [] w = "2024" -> 2024 [] w = "24" -> 24
                  [] w = "264" -> 264]
Mark(season, episode) == [season |-> season, episode |-> episode]
MCMarks == [w \in {"s02e05", "s01e02", "1x02", "s02", "s01", "e05", "e10"} |->
               CASE w = "s02e05" -> Mark({2}, {5}) [] w = "s01e02" -> Mark({1}, {2})
                 [] w = "1x02" -> Mark({1}, {2}) [] w = "s02" -> Mark({2}, {})
                 [] w = "s01" -> Mark({1}, {})
                 [] w = "e05" -> Mark({}, {5}) [] w = "e10" -> Mark({}, {10})]
MCSounds == {"ddp7"}

Name(words, years, meant) == [words |-> words, years |-> years, dotted |-> FALSE, meant |-> meant]
Film(words) == Name(words, {}, {})
Is(series, season, number) == {[series |-> series, season |-> season, number |-> number]}
Entry(id, parent, name, ext, day) ==
    [id |-> id, parent |-> parent, name |-> name, ext |-> ext, day |-> day]
Root(id, kind, name) == [id |-> id, kind |-> kind, name |-> Film(<<name>>), there |-> TRUE]

DarkMatter == <<"dark", "matter">>
\* Episodes of one series under four names, one of them only in its folder.
Series(root) == <<
    Entry("a", root, Name(<<"www", "uindex", "org", "dark", "matter", "s01", "1080p">>, {}, {}), "dir", 0),
    Entry("b", "a", Name(<<"epizoda", "7">>, {}, Is(DarkMatter, 1, 7)), "mkv", 3),
    Entry("c", "a", Film(<<"screens">>), "dir", 0),
    Entry("d", root, Name(<<"dark", "matter", "2024", "s02e05", "1080p", "ddp7", "1">>, {},
                          Is(DarkMatter, 2, 5)), "mkv", 5),
    Entry("e", root, Name(<<"dark", "matter", "season", "1", "episode", "2", "720p">>, {2018},
                          Is(DarkMatter, 1, 2)), "mp4", 4),
    Entry("f", root, Name(<<"www", "org", "dark", "matter", "s02", "e10", "hevc">>, {},
                          Is(DarkMatter, 2, 10)), "mkv", 2)>>
Zlo(root) == <<
    Entry("g", root, Film(<<"zlo">>), "dir", 0),
    Entry("h", "g", Film(<<"sezona", "2">>), "dir", 0),
    Entry("i", "h", Name(<<"03">>, {}, Is(<<"zlo">>, 2, 3)), "mkv", 1),
    Entry("j", "h", Name(<<"1x02">>, {}, Is(<<"zlo">>, 1, 2)), "mkv", 1)>>
Films(root) == <<
    Entry("k", root, Film(<<"podmapa">>), "dir", 0),
    Entry("w", "k", Film(<<"deep">>), "dir", 0),
    Entry("l", "w", Film(<<"sicario">>), "mkv", 6),
    Entry("m", root, Film(<<"last", "seen", "2024", "web", "h", "264">>), "mkv", 7),
    Entry("n", root, Name(<<"last", "seen", "1080p">>, {2024}, {}), "mp4", 8),
    Entry("o", root, Film(<<"screens">>), "oga", 1),
    Entry("p", root, Film(<<"1080p">>), "mkv", 2)>>
Music(root) == <<
    Entry("q", root, Film(<<"album">>), "dir", 0),
    Entry("r", "q", Film(<<"sicario">>), "mp3", 9),
    Entry("s", "q", Film(<<"deep">>), "dir", 0),
    Entry("t", "s", Film(<<"deeper">>), "dir", 0),
    Entry("u", "t", Film(<<"sicario">>), "mkv", 9),
    Entry("x", root, Film(<<"hidden">>), "hidden", 0),
    Entry("y", "x", Film(<<"sicario">>), "mkv", 9)>>

Disk(roots, entries) == [roots |-> roots, entries |-> entries]
MCDisks == {
    Disk(<<Root("1", "video", "video")>>, Series("1") \o Films("1")),
    Disk(<<Root("1", "video", "video"), Root("2", "mixed", "mixed")>>,
         Zlo("1") \o Films("1") \o Series("2") \o Music("2")),
    Disk(<<[Root("1", "video", "video") EXCEPT !.there = FALSE], Root("2", "audio", "mixed")>>,
         Zlo("1") \o Music("2")),
    Disk(<<Root("1", "video", "video")>>, Zlo("1") \o Music("1"))}

MCAlphabet == <<"0", ":", "1", "10", "1080p", "1x02", "2", "2018", "2024", "24", "264", "3", "5",
    "720p", "7", "03", "E", "S", "a", "album", "b", "c", "d", "dark", "ddp7", "deep", "deeper", "e",
    "e10", "episode", "epizoda", "f", "g", "h", "hevc", "hidden", "i", "j", "k", "l", "last", "m",
    "matter", "mixed", "movies", "n", "o", "org", "p", "podmapa", "q", "r", "recent", "s", "s01",
    "s02", "s02e05", "s:", "screens", "season", "seen", "series", "sezona", "sicario", "specijali",
    "t", "u", "uindex", "video", "w", "web", "www", "x", "y", "zlo", "|">>
MCLetters == [w \in ToSet(MCAlphabet) |-> IF w \in {"a", "1", "2", "3", "5", "7", "E", "S"} THEN 1
              ELSE IF w \in {"zlo", "1x02"} THEN 3 ELSE 5]

\* Two of the orders a HashMap may have.
MCOrders(S) == {InSequence(S, Before), Reverse(InSequence(S, Before))}

Clause(field, value) == [field |-> field, value |-> value]
Asks(clauses, joined, loose) == [clauses |-> clauses, joined |-> joined, loose |-> loose]
MCCriteria == {
    Asks({}, {}, <<>>),
    Asks({Clause("class", <<"videoitem">>)}, {}, <<>>),
    Asks({Clause("class", <<"videoitem">>), Clause("title", <<"sic">>)}, {"and"}, <<>>),
    Asks({Clause("class", <<"audioitem">>), Clause("title", <<"sicario">>)}, {"and"}, <<>>),
    Asks({Clause("title", <<"dark", "matter">>), Clause("title", <<"sicario">>)}, {"or"}, <<>>),
    Asks({Clause("title", <<"last", "seen">>), Clause("title", <<"2024">>)}, {"and"}, <<>>)}
MCViewList == <<"movies", "recent", "movies", "books", "series", "video">>
MCBegins == {<<"sicario", "sic">>}

=============================================================================
