------------------------------ MODULE Subtitles ------------------------------
(***************************************************************************)
(* Which subtitles belong to a film, the names they are offered under, and *)
(* what a television gets when it asks for one: subtitles.rs, the offer in *)
(* browse.rs node_to_object, and subtitle_by_name of routes.rs with the    *)
(* temporary files that ffmpeg fills and every request shares.             *)
(*                                                                         *)
(* A name is a sequence of words.  A subtitle file is [words, ext, meant]; *)
(* meant is the film its owner put it there for, and no step reads it.     *)
(* A track is [file, index, codec, language, forced, sdh, default]: file   *)
(* is {} for a track inside the video, index is {} for a file, language is *)
(* {} where none is known.                                                 *)
(*                                                                         *)
(*   embedded  the tracks inside each video as the probe's cache has them  *)
(*   temp      temporary files: name -> {} or {[language, forced, film]}    *)
(*   wants     what each television asks for: {} or one request            *)
(***************************************************************************)
EXTENDS Integers, Sequences, FiniteSets, SequencesExt

CONSTANTS
    Films,          \* file stem of each film
    Files,          \* subtitle files in the folder and its Subs folders
    Inside,         \* film -> tracks inside the video
    Speaks,         \* film -> index -> what guess_language says of it, {} or {word}
    Digits,         \* words with a digit in them
    Words,          \* all words in alphabetical order
    Viewers         \* televisions

VARIABLES embedded, temp, wants
subVars == <<embedded, temp, wants>>

\* What stands first at these places of a sequence, {} when there is none.
FirstAt(s, places) == {s[i] : i \in {p \in places : \A q \in places : p <= q}}
\* A sequence, of pairs of a place and what stands there.
InOrder(placed) == [n \in {p[1] : p \in placed} |-> (CHOOSE p \in placed : p[1] = n)[2]]
\* What stands at these places of a sequence.
Kept(s, places) == InOrder({<<Cardinality({j \in places : j < i}) + 1, s[i]>> : i \in places})

-----------------------------------------------------------------------------
(* Languages and words.                                                    *)

\* The first code is the short one; the last one sorts as the name does.
Jezici == <<
    <<"en", "eng", "english">>, <<"hr", "hrv", "scr", "croatian">>, <<"sr", "srp", "scc", "serbian">>,
    <<"bs", "bos", "bosnian">>, <<"sl", "slv", "slovene", "slovenian">>,
    <<"mk", "mkd", "mac", "macedonian">>, <<"bg", "bul", "bulgarian">>,
    <<"es", "spa", "castellano", "spanish">>, <<"pt", "por", "portuguese">>,
    <<"fr", "fra", "fre", "french">>, <<"de", "deu", "ger", "german">>, <<"it", "ita", "italian">>,
    <<"nl", "nld", "dut", "dutch">>, <<"sv", "swe", "swedish">>, <<"no", "nor", "norwegian">>,
    <<"da", "dan", "danish">>, <<"fi", "fin", "finnish">>, <<"is", "isl", "ice", "icelandic">>,
    <<"pl", "pol", "polish">>, <<"cs", "ces", "cze", "czech">>, <<"sk", "slk", "slo", "slovak">>,
    <<"hu", "hun", "hungarian">>, <<"ro", "ron", "rum", "romanian">>, <<"el", "ell", "gre", "greek">>,
    <<"tr", "tur", "turkish">>, <<"ru", "rus", "russian">>, <<"uk", "ukr", "ukrainian">>,
    <<"be", "bel", "belarusian">>, <<"lt", "lit", "lithuanian">>, <<"lv", "lav", "latvian">>,
    <<"et", "est", "estonian">>, <<"sq", "sqi", "alb", "albanian">>, <<"he", "heb", "iw", "hebrew">>,
    <<"ar", "ara", "arabic">>, <<"fa", "fas", "per", "farsi", "persian">>, <<"hi", "hin", "hindi">>,
    <<"bn", "ben", "bengali">>, <<"ta", "tam", "tamil">>, <<"te", "tel", "telugu">>,
    <<"ml", "mal", "malayalam">>, <<"ur", "urd", "urdu">>, <<"th", "tha", "thai">>,
    <<"vi", "vie", "vietnamese">>, <<"id", "ind", "indonesian">>, <<"ms", "msa", "may", "malay">>,
    <<"tl", "tgl", "fil", "tagalog", "filipino">>,
    <<"zh", "zho", "chi", "mandarin", "cantonese", "yue", "chinese">>, <<"ja", "jpn", "japanese">>,
    <<"ko", "kor", "korean">>, <<"ka", "kat", "geo", "georgian">>, <<"hy", "hye", "arm", "armenian">>,
    <<"az", "aze", "azerbaijani">>, <<"kk", "kaz", "kazakh">>, <<"uz", "uzb", "uzbek">>,
    <<"sw", "swa", "swahili">>, <<"af", "afr", "afrikaans">>, <<"ca", "cat", "catalan">>,
    <<"gl", "glg", "galician">>, <<"eu", "eus", "baq", "basque">>, <<"eo", "epo", "esperanto">>,
    <<"la", "lat", "latin">>>>

Known == UNION {ToSet(l) : l \in ToSet(Jezici)}
Entry == [w \in Known |->
    CHOOSE l \in FirstAt(Jezici, {i \in DOMAIN Jezici : w \in ToSet(Jezici[i])}) : TRUE]
LanguageCode(w) == {Entry[x][1] : x \in {w} \cap Known}
LanguageName(w) == {Last(Entry[x]) : x \in {w} \cap Known}

QualityDetail == {"web", "webrip", "webdl", "bluray", "brrip", "hdrip", "dvdrip", "x264", "x265",
    "hevc", "h264", "aac", "ac3", "eac3", "proper", "repack", "subs", "sub", "srt", "vtt", "full",
    "multi"}
ForcedWords == {"forced", "f"}
SdhWords == {"sdh", "hi", "cc"}

ParseTokens(rest) ==
    LET speaks(w) == w \notin ForcedWords \cup SdhWords \cup QualityDetail \cup Digits
                     /\ LanguageCode(w) # {}
    IN  [language |-> UNION {LanguageCode(w) : w \in FirstAt(rest, {i \in DOMAIN rest : speaks(rest[i])})},
         forced |-> ToSet(rest) \cap ForcedWords # {},
         sdh |-> ToSet(rest) \cap SdhWords # {}]

IsSubtitleFile(f) == f.ext \in {"srt", "vtt", "ass", "ssa", "sub", "idx", "smi", "ttml", "dfxp"}
CodecFromExt(ext) ==
    CASE ext = "ssa" -> "ass" [] ext = "idx" -> "vobsub" [] ext = "dfxp" -> "ttml" [] OTHER -> ext

-----------------------------------------------------------------------------
(* Tracks.                                                                 *)

\* The words behind the name of the film, {} when it is another name.
SuffixAfterStem(stem, words) ==
    IF IsPrefix(stem, words) THEN {SubSeq(words, Len(stem) + 1, Len(words))} ELSE {}

\* The track of a file beside a film, {} when the file belongs to another.
ExternalTrack(stem, f) ==
    LET track(said) == [file |-> {f}, index |-> {}, codec |-> CodecFromExt(f.ext), default |-> FALSE,
                        language |-> said.language, forced |-> said.forced, sdh |-> said.sdh]
        ours(rest) == LET t == ParseTokens(rest)
                      IN  rest = <<>> \/ t.language # {} \/ t.forced \/ t.sdh
    IN  {track(ParseTokens(rest)) : rest \in {r \in SuffixAfterStem(stem, f.words) : ours(r)}}

IsText(t) == t.codec \notin {"hdmv_pgs_subtitle", "dvd_subtitle", "dvb_subtitle", "xsub", "vobsub", "pgs"}

\* A file keeps its name; a track is called by its language, or its number.
ServeName(t, stem) ==
    IF t.file # {} THEN LET f == CHOOSE f \in t.file : TRUE IN f.words \o <<f.ext>>
    ELSE stem \o <<IF t.language # {} THEN CHOOSE l \in t.language : TRUE
                   ELSE ToString(CHOOSE i \in t.index : TRUE)>>
              \o (IF t.forced THEN <<"forced">> ELSE <<>>) \o <<"srt">>

Place == [w \in ToSet(Words) |-> CHOOSE i \in DOMAIN Words : Words[i] = w]
PlaceOf(S) == IF S = {} THEN 0 ELSE Place[CHOOSE w \in S : TRUE]
Flag(b) == IF b THEN 1 ELSE 0
NameKey(t) == LET names == UNION {LanguageName(l) : l \in t.language}
              IN  IF names = {} THEN Len(Words) + 1 ELSE PlaceOf(names)
Key(t) == <<Flag(~IsText(t)), Flag(~t.default), Flag(t.forced), NameKey(t),
            PlaceOf(t.language), Place[t.codec]>>
LessKey(k, l) == \E i \in 1..6 : k[i] < l[i] /\ \A j \in 1..(i - 1) : k[j] = l[j]
\* A stable sort.
Poredaj(tracks) ==
    LET keyed == {<<Key(tracks[i]), i>> : i \in DOMAIN tracks}
        before(p) == {q \in keyed : LessKey(q[1], p[1]) \/ (q[1] = p[1] /\ q[2] < p[2])}
    IN  InOrder({<<Cardinality(before(p)) + 1, tracks[p[2]]>> : p \in keyed})

\* What the scan finds beside a film, in order.
External ==
    LET track(film) == [i \in DOMAIN Files |-> CHOOSE t \in ExternalTrack(Films[film], Files[i]) : TRUE]
        found(film) == {i \in DOMAIN Files :
                           IsSubtitleFile(Files[i]) /\ ExternalTrack(Films[film], Files[i]) # {}}
    IN  [film \in DOMAIN Films |-> Poredaj(Kept(track(film), found(film)))]

-----------------------------------------------------------------------------
(* What names and tracks are taken to be.                                  *)

IsList(s) == s \in Seq(ToSet(s))
\* What a track inside a video is said to speak: nothing, or one word that is
\* not read as something else in a name (parse_tokens takes the "hi" of Hindi
\* for a mark, so such a track must be called "hin" or "hindi").
Spoken(language) ==
    /\ \A a, b \in language : a = b
    /\ language \cup UNION {LanguageName(l) : l \in language} \subseteq ToSet(Words)
    /\ language \cap (ForcedWords \cup SdhWords \cup QualityDetail \cup Digits) = {}
InsideTracks ==
    [file : {{}}, index : SUBSET Nat, codec : ToSet(Words), language : SUBSET ToSet(Words),
     forced : BOOLEAN, sdh : BOOLEAN, default : BOOLEAN]

\* Names are sequences, everything that tracks are sorted by is in Words, and
\* the first code of a language stands for that language.
ASSUME SubtitlesAssumption ==
    /\ IsList(Words) /\ IsList(Files) /\ \A f \in ToSet(Files) : IsList(f.words)
    /\ \A w \in Known : UNION {LanguageCode(c) : c \in LanguageCode(w)} = LanguageCode(w)
    /\ Digits \cap ForcedWords = {}
    /\ DOMAIN Inside = DOMAIN Films
    /\ \A film \in DOMAIN Films :
          /\ IsList(Films[film])
          /\ \A f \in ToSet(Files) : IsSubtitleFile(f) =>
                \A t \in ExternalTrack(Films[film], f) :
                   {t.codec} \cup t.language \cup UNION {LanguageName(l) : l \in t.language}
                      \subseteq ToSet(Words)
          /\ Inside[film] \in Seq(InsideTracks)
          /\ \A t \in ToSet(Inside[film]) :
                /\ Spoken(t.language) /\ t.index # {}
                /\ \A i \in t.index : /\ t.index = {i} /\ ToString(i) \in Digits
                                      /\ Spoken(Speaks[film][i])

-----------------------------------------------------------------------------
(* Offer and answer.                                                       *)

\* The text tracks of a film under their names, in the order of the DIDL.
Called(film, tracks) == [i \in DOMAIN tracks |-> ServeName(tracks[i], Films[film])]
Offered(film) ==
    LET tracks == Poredaj(External[film] \o embedded[film])
    IN  Kept(tracks, {i \in DOMAIN tracks : IsText(tracks[i])})
\* Where each name of a sequence stands first.
FirstPlaces(names) == {i \in DOMAIN names : \A j \in 1..(i - 1) : names[j] # names[i]}
\* The names in the DIDL of a film, each once.
Offers(film) == LET names == Called(film, Offered(film)) IN Kept(names, FirstPlaces(names))
\* The first of these tracks that has the name.
FirstCalled(film, tracks, name) == FirstAt(tracks, {i \in DOMAIN tracks : Called(film, tracks)[i] = name})
\* The track the server looks up, {} for none.
FindTrack(film, name) == FirstCalled(film, External[film] \o embedded[film], name)

OutputByNumber(t) == <<ToString(CHOOSE i \in t.index : TRUE)>>
\* The temporary file of a track: not of which video.
OutputName(t) == ServeName(t, <<"izvucen">>) \o <<ToString(CHOOSE i \in t.index : TRUE)>>
Filled(name) == name \in DOMAIN temp /\ temp[name] # {}
FileHolds(name, content) ==
    temp' = [n \in DOMAIN temp \cup {name} |-> IF n = name THEN content ELSE temp[n]]

SubInit ==
    /\ embedded = Inside /\ temp = <<>> /\ wants = [v \in Viewers |-> {}]

\* fill_languages in the background.
GuessLanguage(film, k) ==
    /\ LET t == embedded[film][k]
       IN  /\ t.language = {} /\ IsText(t)
           /\ embedded' = [embedded EXCEPT ![film][k].language =
                              Speaks[film][CHOOSE i \in t.index : TRUE]]
    /\ UNCHANGED <<temp, wants>>

Request(film, name, meant) ==
    [film |-> film, name |-> name, language |-> meant.language, forced |-> meant.forced,
     step |-> "asked", track |-> {}, got |-> {}]

\* It asks for one of the names; the first track of that name is the one meant.
AsksSubtitle(v, film) ==
    /\ wants[v] = {}
    /\ LET tracks == Offered(film)
           names == Called(film, tracks)
       IN  \E i \in FirstPlaces(names) :
              wants' = [wants EXCEPT ![v] = {Request(film, names[i], tracks[i])}]
    /\ UNCHANGED <<embedded, temp>>

Turn(v, w, step, track, got) ==
    wants' = [wants EXCEPT ![v] = {[w EXCEPT !.step = step, !.track = track, !.got = got]}]

Content(film, t) == {[language |-> t.language, forced |-> t.forced, film |-> film]}

\* subtitle_by_name up to the file, or up to ffmpeg, which empties its output.
LooksUp(v) ==
    \E w \in wants[v] :
        /\ w.step = "asked" /\ UNCHANGED embedded
        /\ LET found == {t \in FindTrack(w.film, w.name) : t.index = {} \/ IsText(t)}
           IN  \/ found = {} /\ Turn(v, w, "done", {}, {}) /\ UNCHANGED temp
               \/ \E t \in found :
                     t.file # {} /\ Turn(v, w, "done", found, Content(w.film, t)) /\ UNCHANGED temp
               \/ \E t \in found :
                     /\ t.index # {} /\ Filled(OutputName(t))
                     /\ Turn(v, w, "done", found, temp[OutputName(t)]) /\ UNCHANGED temp
               \/ \E t \in found :
                     /\ t.index # {} /\ ~Filled(OutputName(t))
                     /\ Turn(v, w, "ffmpeg", found, {}) /\ FileHolds(OutputName(t), {})

\* ffmpeg has written some of its output, or ends: what is there is served.
Extracts(v) ==
    \E w \in wants[v] : \E t \in w.track :
        /\ w.step = "ffmpeg" /\ UNCHANGED embedded
        /\ \/ FileHolds(OutputName(t), Content(w.film, t)) /\ UNCHANGED wants
           \/ Turn(v, w, "done", w.track, temp[OutputName(t)]) /\ UNCHANGED temp

Watches(v) ==
    /\ \E w \in wants[v] : w.step = "done"
    /\ wants' = [wants EXCEPT ![v] = {}]
    /\ UNCHANGED <<embedded, temp>>

SubNext ==
    \/ \E film \in DOMAIN Films : \E k \in DOMAIN embedded[film] : GuessLanguage(film, k)
    \/ \E v \in Viewers, film \in DOMAIN Films : AsksSubtitle(v, film)
    \/ \E v \in Viewers : LooksUp(v) \/ Extracts(v) \/ Watches(v)

SubSpec == SubInit /\ [][SubNext]_subVars

-----------------------------------------------------------------------------
\* A file is offered with the film it was put there for, with no other.
FilesOfTheirFilm ==
    \A film \in DOMAIN Films, f \in ToSet(Files) :
        IsSubtitleFile(f) => (ExternalTrack(Films[film], f) # {} <=> f.meant = film)

\* No two subtitles of a film are offered under one name.
EachNameOnce ==
    \A film \in DOMAIN Films : IsInjective(Offers(film))

\* Whoever asks for a subtitle in a language gets one in that language, forced
\* or not as offered, whichever request or film filled the shared file, while
\* languages are being guessed (routes.rs:493, browse.rs node_to_object).
LanguageAsNamed ==
    \A v \in Viewers : \A w \in wants[v] : \A g \in w.got :
        /\ w.language # {} => UNION {LanguageCode(l) : l \in g.language}
                                  = UNION {LanguageCode(l) : l \in w.language}
        /\ g.forced = w.forced

\* subtitle_by_name: "an embedded subtitle is taken out of the container", the
\* container of the film that was asked for (routes.rs:432, 478).
OwnFilm == \A v \in Viewers : \A w \in wants[v] : \A g \in w.got : g.film = w.film

SubtitlesAsNamed == FilesOfTheirFilm /\ EachNameOnce /\ LanguageAsNamed

=============================================================================
