---------------------------- MODULE ReleaseNames ----------------------------
(***************************************************************************)
(* What a name from a tracker says: series, season, episode, year (naming  *)
(* and series of rustiio-library).                                         *)
(*                                                                         *)
(* A name is [words, years, dotted, meant]: the words between dots, dashes and    *)
(* blanks in lower case without what stands in brackets, the years that    *)
(* stand in brackets, and whether the last word hangs on a dot and is so   *)
(* short (4 characters) that it passes for an extension; meant is the      *)
(* episode the user has in mind, {} for none, and no step reads it.  What  *)
(* may be missing is a set of at most one element.  A title is a sequence  *)
(* of words; capital letters are not modelled.                             *)
(***************************************************************************)
EXTENDS Integers, Sequences, FiniteSets

CONSTANTS
    Number,   \* words made of digits -> their value
    Sounds,   \* a sound's name with digits stuck to it: ddp7, truehd7
    Marks     \* S01E02, 1x02, S01, E02 -> what the letters and digits say

ASSUME NumberAssumption == \A w \in DOMAIN Number : Number[w] \in Nat
ASSUME MarksAssumption ==
    \A w \in DOMAIN Marks :
        /\ w \notin DOMAIN Number
        /\ Marks[w].season \subseteq Nat /\ Marks[w].episode \subseteq Nat
        /\ Cardinality(Marks[w].season) \leq 1 /\ Cardinality(Marks[w].episode) \leq 1
        /\ Marks[w].season \cup Marks[w].episode # {}

Junk == {
    "480p", "576p", "720p", "1080p", "1080i", "2160p", "4k", "8k", "uhd",
    "fhd", "hd", "sd", "hq", "ts", "tc", "web", "webdl", "webrip", "web-dl",
    "web-rip", "bluray", "blu-ray", "bdrip", "brrip", "bdremux", "remux",
    "dvdrip", "dvdscr", "dvd", "hdtv", "hdrip", "pdtv", "dsr", "cam",
    "telesync", "screener", "amzn", "dsnp", "atvp", "itunes", "nf", "max",
    "hmax", "pcok", "stan", "itu", "now", "hulu", "pcmp", "yts", "yify",
    "x264", "x265", "h264", "h265", "h 264", "h 265", "hevc", "avc", "xvid",
    "divx", "av1", "vp9", "mpeg2", "mpeg4", "10bit", "8bit", "hi10p",
    "10-bit", "8-bit", "4bit", "aac", "aac2", "ac3", "eac3", "e-ac3", "dts",
    "dtshd", "dts-hd", "dd", "ddp", "dd5", "ddp5", "truehd", "atmos", "flac",
    "mp3", "opus", "5 1", "7 1", "2 0", "6ch", "8ch", "eng", "english", "ita",
    "italian", "ger", "german", "deu", "fre", "french", "fra", "spa",
    "spanish", "hun", "nor", "norwegian", "swe", "swedish", "dan", "danish",
    "fin", "finnish", "dut", "nl", "rus", "pol", "tur", "ara", "hin", "jpn",
    "kor", "chi", "zho", "hrv", "srp", "ces", "cze", "por", "brazilian",
    "multi", "dual", "subs", "sub", "dub", "hc", "vostfr", "truefrench",
    "internal", "proper", "repack", "extended", "unrated", "remastered",
    "complete", "imax", "hdr", "hdr10", "dovi", "dv", "sdr", "ds4k", "ws",
    "fs"}

LeadingJunk == {"www", "uindex", "org", "com", "net", "http", "https", "wwwuindexorg"}
Quality == {"2160p", "1080p", "1080i", "720p", "576p", "480p", "4k"}

IsYear(w) == w \in DOMAIN Number /\ Number[w] \in 1900..2099
IsNumberUpTo(w, n) == w \in DOMAIN Number /\ Number[w] \leq n
IsJunk(w) == w \in Junk \cup Sounds
Plain(w) == ~IsYear(w) /\ ~IsJunk(w)

\* What stands at some places of a sequence, in their order.
At(s, places) ==
    LET nth(k) == CHOOSE i \in places : Cardinality({j \in places : j <= i}) = k
    IN  [k \in 1..Cardinality(places) |-> s[nth(k)]]
From(s, i) == SubSeq(s, i, Len(s))
FirstOf(S) == CHOOSE i \in S : \A j \in S : i \leq j
\* The value of the word at i, if there is such a word and it is a number.
ValueAt(words, i) ==
    IF i \in DOMAIN words /\ words[i] \in DOMAIN Number THEN {Number[words[i]]} ELSE {}

-----------------------------------------------------------------------------
(* Marks of seasons and episodes.                                          *)

EpisodeHere(words, i) ==
    IF words[i] \in DOMAIN Marks /\ Marks[words[i]].season = {} THEN Marks[words[i]].episode
    ELSE IF words[i] \in {"episode", "epizoda", "epizode", "ep"} THEN ValueAt(words, i + 1)
    ELSE {}

\* The episode that follows a season: E05, Episode 5 or a bare number.
EpisodeAfterSeason(words) ==
    LET said(i) == EpisodeHere(words, i) \cup
                   (IF IsNumberUpTo(words[i], 999) THEN ValueAt(words, i) ELSE {})
        hits == {i \in DOMAIN words : said(i) # {}}
    IN  IF hits = {} THEN {} ELSE said(FirstOf(hits))

\* What the words from i on say if a mark begins there, {} when none does.
MarkAt(words, i) ==
    LET w == words[i]
        then == ValueAt(words, i + 1)
        seasonOnly(season, next) ==
            {[at |-> i, season |-> season, episode |-> EpisodeAfterSeason(From(words, next))]}
    IN  CASE w \in DOMAIN Marks ->
                IF Marks[w].episode = {} THEN seasonOnly(Marks[w].season, i + 1)
                ELSE {[at |-> i, season |-> Marks[w].season, episode |-> Marks[w].episode]}
          [] w \in {"episode", "ep", "e"} /\ then # {} ->
                {[at |-> i, season |-> {}, episode |-> then]}
          [] w \in {"season", "sezona", "saison"} /\ then # {} -> seasonOnly(then, i + 2)
          [] OTHER -> {}

FindEpisodeMarker(words) ==
    LET hits == {i \in DOMAIN words : MarkAt(words, i) # {}}
    IN  IF hits = {} THEN {} ELSE MarkAt(words, FirstOf(hits))

-----------------------------------------------------------------------------
(* Titles.                                                                 *)

KeepLead(words) == words
DropLead(words) ==
    LET title == {i \in DOMAIN words : words[i] \notin LeadingJunk}
    IN  IF title = {} THEN <<>> ELSE From(words, FirstOf(title))

\* A year with words of a title behind it ends the title; any other year is
\* only noted.
CleanTitle(words) ==
    LET years == {i \in DOMAIN words : IsYear(words[i])}
        ends == {i \in years : \E j \in (i + 1)..Len(words) : Plain(words[j])}
        before == IF ends = {} THEN words ELSE SubSeq(words, 1, FirstOf(ends) - 1)
        kept == DropLead(At(before, {i \in DOMAIN before : Plain(before[i])}))
        last == IF ends # {} THEN {FirstOf(ends)}
                ELSE {i \in years : \A j \in years : j \leq i}
    IN  [title |-> IF kept = <<>> THEN At(words, DOMAIN words \ years) ELSE kept,
         year  |-> {Number[words[i]] : i \in last}]

OnlyDigits(title) == title = <<>> \/ (Len(title) = 1 /\ title[1] \in DOMAIN Number)

\* What is said, with the mark, if there is one, and the title before it.
Said(words, years, mark, clean) ==
    LET sharp == {i \in DOMAIN words : words[i] \in Quality}
    IN  [title   |-> IF mark # {} /\ OnlyDigits(clean.title) THEN <<>> ELSE clean.title,
         season  |-> UNION {x.season : x \in mark},
         episode |-> UNION {x.episode : x \in mark},
         year    |-> IF clean.year = {} THEN years ELSE clean.year,
         quality |-> IF sharp = {} THEN {} ELSE {words[FirstOf(sharp)]},
         isEpisode |-> mark # {}]
BeforeMark(words, mark) ==
    IF mark = {} THEN words ELSE SubSeq(words, 1, (CHOOSE x \in mark : TRUE).at - 1)
SaidAround(words, years, mark) == Said(words, years, mark, CleanTitle(BeforeMark(words, mark)))
ParseWords(words, years) == SaidAround(words, years, FindEpisodeMarker(words))

\* parse() of a file name, which loses its own extension, and of a name
\* without one, which loses a last word that looks like one.
ParseFile(name) == ParseWords(name.words, name.years)
ParseBare(name) ==
    ParseWords(IF name.dotted THEN SubSeq(name.words, 1, Len(name.words) - 1) ELSE name.words,
               name.years)

EpisodeNumberHint(name) ==
    LET small == {i \in DOMAIN name.words : IsNumberUpTo(name.words[i], 999)}
    IN  IF small = {} THEN {} ELSE ValueAt(name.words, FirstOf(small))

\* series::parse, what the database keeps of a file name.
SeriesInfo(name) ==
    UNION {{[series |-> p.title, season |-> s, episode |-> e] :
               s \in {x \in p.season : p.title # <<>>}, e \in p.episode} : p \in {ParseFile(name)}}

=============================================================================
