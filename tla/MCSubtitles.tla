----------------------------- MODULE MCSubtitles -----------------------------
(* Two films whose names begin alike, in one folder, with subtitles beside  *)
(* them and inside them: the same language under the same number in both,   *)
(* one language forced and not, one without a language, one of pictures.    *)
EXTENDS Subtitles

MCFilms == [f \in {"film", "two"} |-> IF f = "film" THEN <<"film">> ELSE <<"film2">>]
SubFile(words, ext, meant) == [words |-> words, ext |-> ext, meant |-> meant]
MCFiles == <<SubFile(<<"film2", "hrv", "forced">>, "srt", "two"),
             SubFile(<<"film", "1080p">>, "srt", "none"), SubFile(<<"film">>, "ass", "film"),
             SubFile(<<"film", "en">>, "srt", "film"), SubFile(<<"film", "hi">>, "idx", "film"),
             SubFile(<<"film", "en">>, "srt", "film"), SubFile(<<"film", "jpg">>, "jpg", "none"),
             SubFile(<<"other", "en">>, "srt", "none")>>
Track(index, codec, language, forced, default) ==
    [file |-> {}, index |-> {index}, codec |-> codec, language |-> language, forced |-> forced,
     sdh |-> FALSE, default |-> default]
MCInside == [f \in {"film", "two"} |->
    IF f = "film"
    THEN <<Track(2, "subrip", {}, FALSE, TRUE), Track(3, "subrip", {"eng"}, FALSE, FALSE),
           Track(4, "hdmv_pgs_subtitle", {"hrv"}, FALSE, FALSE)>>
    ELSE <<Track(2, "subrip", {"hrv"}, TRUE, FALSE), Track(3, "subrip", {"eng"}, FALSE, FALSE)>>]
MCSpeaks == [f \in {"film", "two"} |-> [i \in 2..4 |-> {"croatian"}]]
MCWords == <<"ass", "croatian", "en", "eng", "english", "hdmv_pgs_subtitle", "hr", "hrv", "srt",
             "subrip", "vobsub">>

=============================================================================
