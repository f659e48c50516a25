---------------------------- MODULE MCRecognition ----------------------------
(* Two televisions of one model, a Kodi with a short name, and the same on  *)
(* the host of the server.                                                  *)
EXTENDS Recognition, TLC

\* The texts of the television are as long as counts.
MCLong == "SEC_HHP" :> 7 @@ "Samsung" :> 7 @@ "Tizen" :> 5 @@ "[TV]" :> 4 @@ "Kodi" :> 4
          @@ "Kodi/21" :> 7 @@ "SEC_HHP_[TV] Samsung Tizen ..." :> 104 @@ "[TV] Samsung ..." :> 64
MCTexts == DOMAIN MCLong
MCWithin ==
  {<<t, t>> : t \in MCTexts} \cup {<<"Kodi", "Kodi/21">>}
  \cup ({"SEC_HHP", "Samsung", "Tizen"} \X {"SEC_HHP_[TV] Samsung Tizen ..."})
  \cup ({"[TV]", "Samsung"} \X {"[TV] Samsung ..."})

Says(ip, agent, name) == [ip |-> ip, agent |-> agent, name |-> name, type |-> {}]
Television(ip) == Says(ip, {"SEC_HHP_[TV] Samsung Tizen ..."}, {"[TV] Samsung ..."})
MCIdentities ==
  {Television("10.0.0.5"), Says("10.0.0.5", {}, {}), Television("10.0.0.6"),
   Says("10.0.0.7", {"Kodi/21"}, {}), Says("127.0.0.1", {"Kodi/21"}, {})}

MCShipped == <<
  Generic,
  [id |-> "samsung-tv", rules |-> [NoRules EXCEPT !.agent = {"SEC_HHP", "Samsung", "Tizen"},
                                                  !.name = {"[TV]", "Samsung"}]],
  [id |-> "kodi", rules |-> [NoRules EXCEPT !.agent = {"Kodi"}, !.name = {"Kodi"}]]>>
=============================================================================
