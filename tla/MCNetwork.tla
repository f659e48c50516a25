----------------------------- MODULE MCNetwork -----------------------------
(***************************************************************************)
(* What runs by itself between the server, its folders and the network:    *)
(* the events of subscriptions, the watcher with the auto-scan, and the    *)
(* announcements.  They share no state here, so a behaviour runs one of    *)
(* them, part, and the others stay as they begin, where no step that       *)
(* fairness asks for is enabled.                                           *)
(***************************************************************************)
EXTENDS Eventing, Watcher, Discovery, TLC

CONSTANTS tv1, a, b

VARIABLE part

\* One TV subscribed to the ContentDirectory, and two rescans.
OneTv == {tv1}
ServiceOfOne == [s \in OneTv |-> CONTENT_DIRECTORY]
TwoTasks == {a, b}

OnAndOff == BOOLEAN

\* It knows a media server by the last target announced, which an error loses.
MCServices == <<"ContentDirectory:1">>
MCFollows == tv1 :> "ContentDirectory:1"
Datagram(kind, st) == [kind |-> kind, st |-> st]
MCDatagrams ==
  {Datagram("search", {}), Datagram("search", {"MediaRenderer:1"}),
   Datagram("search", {"ContentDirectory:1"}), Datagram("notify", {"upnp:rootdevice"})}

MCInit ==
  /\ part \in {"events", "watcher", "discovery"}
  /\ Init /\ WatchInit /\ DiscoveryInit
  /\ part = "watcher" \/ auto.pc = "off"
  /\ part = "discovery" \/ age = 4

EventStep == part = "events" /\ Next /\ UNCHANGED <<part, watchVars, discoveryVars>>
WatcherStep == part = "watcher" /\ WatchNext /\ UNCHANGED <<part, vars, discoveryVars>>
DiscoveryStep == part = "discovery" /\ DiscoveryNext /\ UNCHANGED <<part, vars, watchVars>>
MCNext == EventStep \/ WatcherStep \/ DiscoveryStep

MCSpec ==
  /\ MCInit /\ [][MCNext]_<<part, vars, watchVars, discoveryVars>>
  /\ Fairness /\ WatchFairness /\ DiscoveryFairness
=============================================================================
