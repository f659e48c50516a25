----------------------------- MODULE PosterTitles -----------------------------
(***************************************************************************)
(* From the name of a file to the record of a film at a picture service    *)
(* (guess_title of metadata/mod.rs, best_hit and titles_match of tmdb.rs). *)
(*                                                                         *)
(* A title is a sequence of words without punctuation and capitals, as     *)
(* normalize_title leaves it.  A query is [title, year, series], a hit is  *)
(* [record, title, year]; a year that is not known is {}.                  *)
(***************************************************************************)
EXTENDS Integers, Sequences, FiniteSets, SequencesExt

CONSTANTS
    FourDigits,   \* words of four digits -> their value
    Episodes,     \* words like s01e02 and 1x02
    GroupWords,   \* words that begin with www, end in mx or am, or are x265-group
    Begins        \* pairs <<w, v>> of words where w begins with v

ASSUME PosterTitlesAssumption ==
    /\ \A w \in DOMAIN FourDigits : FourDigits[w] \in 0..9999
    /\ Episodes \cap DOMAIN FourDigits = {}

Noise == {"1080p", "720p", "2160p", "480p", "4k", "uhd", "bluray", "blu", "ray", "webrip", "web",
          "dl", "hdrip", "brrip", "dvdrip", "x264", "x265", "h264", "h265", "hevc", "aac", "ac3",
          "dts", "remux"}

\* What follows the year is the release, unless the year is all there is.
GuessTitle(words) ==
    LET read(q, w) ==
            IF w \in Episodes THEN [q EXCEPT !.series = TRUE]
            ELSE IF q.year = {} /\ w \in DOMAIN FourDigits /\ FourDigits[w] \in 1900..2100
            THEN [q EXCEPT !.year = {FourDigits[w]}]
            ELSE IF (q.year # {} /\ q.title # <<>>) \/ w \in Noise \cup GroupWords THEN q
            ELSE [q EXCEPT !.title = Append(@, w)]
    IN  FoldLeft(read, [title |-> <<>>, year |-> {}, series |-> FALSE], words)

\* One text begins with another; its last word may be cut.
StartsWith(a, b) ==
    /\ Len(b) <= Len(a)
    /\ \A i \in DOMAIN b : a[i] = b[i] \/ (i = Len(b) /\ <<a[i], b[i]>> \in Begins)
Alike(a, b) == StartsWith(a, b) \/ StartsWith(b, a)

\* "The Fix (2026)" is "The Fix".
WithoutYear(title) ==
    IF title # <<>> /\ Last(title) \in DOMAIN FourDigits THEN Front(title) ELSE title

Apart(y, z) == IF y >= z THEN y - z ELSE z - y
TitlesMatch(wanted, found, wantedYear, foundYear) ==
    LET a == WithoutYear(wanted)
        b == WithoutYear(found)
    IN  /\ \A y \in wantedYear, z \in foundYear : Apart(y, z) <= 2
        /\ a # <<>> /\ b # <<>>
        /\ \/ a = b
           \/ Alike(a, b) /\ \E y \in wantedYear, z \in foundYear : Apart(y, z) <= 1

\* The first of the best: the title itself, the year, a title that begins so.
BestHit(hits, q) ==
    LET sameYear(h) == q.year # {} /\ h.year = q.year
        rank(h) == IF h.title = q.title THEN IF sameYear(h) THEN 0 ELSE 1
                   ELSE IF sameYear(h) THEN 2 ELSE IF Alike(h.title, q.title) THEN 3 ELSE 4
        best == {i \in DOMAIN hits :
                    \A j \in DOMAIN hits : rank(hits[i]) < rank(hits[j]) \/ (rank(hits[i]) = rank(hits[j]) /\ i <= j)}
    IN  {hits[i] : i \in best}

=============================================================================
