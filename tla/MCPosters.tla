------------------------------ MODULE MCPosters ------------------------------
(* Two episodes of one series, a film with a record of its own beside that  *)
(* of another film of almost the same name and of another year, and a film  *)
(* that comes later.                                                        *)
EXTENDS Posters

Film(stem, title, series) == [stem |-> stem, title |-> title, series |-> series]
MCTitles ==
    [f \in {"e1", "e2", "fall", "late"} |->
        CASE f = "e1" -> Film(<<"dark", "s02e01", "1080p">>, <<"e1">>, {<<"dark">>})
          [] f = "e2" -> Film(<<"dark", "s02e02", "1080p">>, <<"e2">>, {<<"dark">>})
          [] f = "fall" -> Film(<<"fall", "2", "2026", "hrtv">>, <<"fall", "2">>, {})
          [] f = "late" -> Film(<<"1917">>, <<"1917">>, {})]
MCFirst == <<"fall", "e1">>
MCHit(record, title, year) == [record |-> record, title |-> title, year |-> year]
MCSearch == (<<<<"dark">>, TRUE>> :> <<MCHit("darker", <<"darker">>, {2009}), MCHit("dark", <<"dark">>, {2017})>>)
    @@ (<<<<"fall", "2">>, FALSE>> :> <<MCHit("fall1970", <<"fall">>, {1970})>>)
    @@ (<<<<"1917">>, FALSE>> :> <<MCHit("late", <<"1917">>, {2019})>>)
MCElsewhere == <<"fall", "2">> :> {"fall"}
MCDigits == ("2026" :> 2026) @@ ("1917" :> 1917)
=============================================================================
