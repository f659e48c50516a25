----------------------------- MODULE Discovery -----------------------------
(***************************************************************************)
(* SSDP (rustiio-ssdp/src/server.rs): the announcer, the responder and the *)
(* farewell of one server, over a network that loses datagrams, and        *)
(* control points that keep a server for max-age after they last heard of  *)
(* it and forget it on a byebye.                                           *)
(*                                                                         *)
(* Time is in ticks of half a minute; what takes milliseconds happens      *)
(* between two ticks.                                                      *)
(***************************************************************************)
EXTENDS Naturals, Sequences

CONSTANTS
  Services,    \* the sequence of service types announced
  Points,      \* control points
  Follows,     \* the target by which each knows a media server
  Datagrams,   \* what may arrive at the socket: [kind, st], st a set of at most one
  MaxAges,     \* max_age_secs to run with, in ticks
  MaxLost,     \* announcements that one control point misses in a row
  MaxStarts, MaxQueue

ASSUME DiscoveryAssumption ==
  /\ MaxAges \subseteq {1, 2, 3} \cup {2 * n : n \in 1 .. 60}
  /\ MaxLost \in Nat \ {0} /\ {MaxStarts, MaxQueue} \subseteq Nat

VARIABLES
  age,      \* max_age
  server,   \* [phase, quick, wait, byes]: alives of the start and byebyes still to send
  socket,   \* datagrams received and not answered: [point, kind, st]
  entry,    \* of each control point: ticks until it forgets the server
  starts,
  missed,   \* of each point: announcements in a row that did not reach it, 1 at a start
  farewell  \* of each point: byebyes of this stop lost in a row; 3 when there is no
            \* stop, or something was heard after the byebyes

discoveryVars == <<age, server, socket, entry, starts, missed, farewell>>

TargetsWithoutServices == <<"upnp:rootdevice", "uuid", "MediaServer:1">>
Targets == <<"upnp:rootdevice", "uuid", "MediaServer:1">> \o Services

Matching(st) ==
  {t \in {Targets[i] : i \in DOMAIN Targets} : st \in {"ssdp:all", t}}

\* The announcer waits half the max-age, and at least a minute.
PeriodOfAWholeAge == IF age < 2 THEN 2 ELSE age
Period == IF age \div 2 < 2 THEN 2 ELSE age \div 2

DiscoveryInit ==
  /\ age \in MaxAges
  /\ server = [phase |-> "down", quick |-> 0, wait |-> 0, byes |-> 0]
  /\ socket = <<>>
  /\ entry = [p \in Points |-> 0]
  /\ starts = 0
  /\ missed = [p \in Points |-> 1]
  /\ farewell = [p \in Points |-> 3]

-----------------------------------------------------------------------------
(***************************************************************************)
(* The server                                                              *)
(***************************************************************************)

\* start: three alives at once, then the period.
Starts ==
  /\ server.phase = "down" /\ starts < MaxStarts
  /\ starts' = starts + 1
  /\ server' = [phase |-> "up", quick |-> 3, wait |-> 0, byes |-> 0]
  /\ missed' = [p \in Points |-> 1]
  /\ farewell' = [p \in Points |-> 3]
  /\ UNCHANGED <<age, socket, entry>>

\* send_all: one datagram a target, the rest unsent after an error; whom they reach.
Reached(sent, lost) == {p \in Points \ lost : \E i \in 1 .. sent : Targets[i] = Follows[p]}

Alive ==
  \E sent \in 0 .. Len(Targets), lost \in SUBSET Points :
    LET heard == Reached(sent, lost)
    IN /\ \A p \in Points \ heard : missed[p] # MaxLost
       /\ entry' = [p \in Points |-> IF p \in heard THEN age ELSE entry[p]]
       /\ missed' = [p \in Points |-> IF p \in heard THEN 0 ELSE missed[p] + 1]
       /\ farewell' = [p \in Points |-> IF p \in heard THEN 3 ELSE farewell[p]]

\* The announcer, until stop has sent its last byebye and aborts it.
AnnouncesAtStart ==
  /\ server.phase # "down" /\ server.quick > 0
  /\ Alive
  /\ server' = [server EXCEPT !.quick = @ - 1, !.wait = Period]
  /\ UNCHANGED <<age, socket, starts>>

AnnouncesAgain ==
  /\ server.phase # "down" /\ server.quick = 0 /\ server.wait = 0
  /\ Alive
  /\ server' = [server EXCEPT !.wait = Period]
  /\ UNCHANGED <<age, socket, starts>>

\* respond_loop: one search after the other, each answered to its sender.
Answers ==
  /\ server.phase # "down" /\ socket # <<>>
  /\ socket' = Tail(socket)
  /\ LET d == Head(socket)
         st == IF d.st = {} THEN "ssdp:all" ELSE CHOOSE t \in d.st : TRUE
         answered == d.kind = "search" /\ Follows[d.point] \in Matching(st)
     IN \/ answered /\ entry' = [entry EXCEPT ![d.point] = age]
                    /\ farewell' = [farewell EXCEPT ![d.point] = 3]
        \/ UNCHANGED <<entry, farewell>>
  /\ UNCHANGED <<age, server, starts, missed>>

\* stop: three byebyes; announcer and responder go on meanwhile.
StopBegins ==
  /\ server.phase = "up"
  /\ server' = [server EXCEPT !.phase = "stopping", !.byes = 3]
  /\ farewell' = [p \in Points |-> 0]
  /\ UNCHANGED <<age, socket, entry, starts, missed>>

SaysByebye ==
  /\ server.phase = "stopping" /\ server.byes > 0
  /\ \E sent \in 0 .. Len(Targets), lost \in SUBSET Points :
       LET heard == Reached(sent, lost)
       IN /\ entry' = [p \in Points |-> IF p \in heard THEN 0 ELSE entry[p]]
          /\ farewell' = [p \in Points |-> IF p \in heard THEN 0
                                           ELSE IF farewell[p] = 3 THEN 3 ELSE farewell[p] + 1]
  /\ server' = [server EXCEPT !.byes = @ - 1]
  /\ UNCHANGED <<age, socket, starts, missed>>

\* stop gives up after the second byebye.
StopEndsEarly ==
  /\ server.phase = "stopping" /\ server.byes <= 1
  /\ server' = [server EXCEPT !.phase = "down"]
  /\ socket' = <<>>
  /\ UNCHANGED <<age, entry, starts, missed, farewell>>

StopEnds ==
  /\ server.phase = "stopping" /\ server.byes = 0
  /\ server' = [server EXCEPT !.phase = "down"]
  /\ socket' = <<>>
  /\ UNCHANGED <<age, entry, starts, missed, farewell>>

Killed ==
  /\ server.phase # "down"
  /\ server' = [server EXCEPT !.phase = "down"]
  /\ socket' = <<>>
  /\ farewell' = [p \in Points |-> 3]
  /\ UNCHANGED <<age, entry, starts, missed>>

-----------------------------------------------------------------------------
(***************************************************************************)
(* Control points and time                                                 *)
(***************************************************************************)

\* A control point searches, or another server announces itself.
Arrives ==
  /\ server.phase # "down" /\ Len(socket) < MaxQueue
  /\ \E p \in Points, d \in Datagrams :
       socket' = Append(socket, [point |-> p, kind |-> d.kind, st |-> d.st])
  /\ UNCHANGED <<age, server, entry, starts, missed, farewell>>

\* No announcement that is due waits for half a minute; answers may.
HalfMinute ==
  /\ server.phase # "stopping"
  /\ server.phase = "up" => server.quick = 0 /\ server.wait > 0
  /\ server' = IF server.phase = "up" THEN [server EXCEPT !.wait = @ - 1] ELSE server
  /\ entry' = [p \in Points |-> IF entry[p] = 0 THEN 0 ELSE entry[p] - 1]
  /\ UNCHANGED <<age, socket, starts, missed, farewell>>

Announces == AnnouncesAtStart \/ AnnouncesAgain
Stops == SaysByebye \/ StopEnds
DiscoveryNext ==
  Starts \/ Announces \/ Answers \/ StopBegins \/ Stops \/ Killed \/ Arrives \/ HalfMinute

DiscoverySpec == DiscoveryInit /\ [][DiscoveryNext]_discoveryVars

\* The tasks run, and time passes however many datagrams arrive.
DiscoveryFairness ==
  /\ WF_discoveryVars(Announces) /\ WF_discoveryVars(Answers) /\ WF_discoveryVars(Stops)
  /\ WF_discoveryVars(HalfMinute)

-----------------------------------------------------------------------------
(***************************************************************************)
(* Properties                                                              *)
(***************************************************************************)

DiscoveryTypeOK ==
  /\ age \in MaxAges
  /\ server \in [phase : {"down", "up", "stopping"}, quick : 0 .. 3, wait : 0 .. 60, byes : 0 .. 3]
  /\ Len(socket) <= MaxQueue
  /\ entry \in [Points -> 0 .. age]
  /\ missed \in [Points -> 0 .. MaxLost]
  /\ farewell \in [Points -> 0 .. 3]
  /\ starts \in 0 .. MaxStarts

\* start: a control point that the last announcement reached knows the server
\* until the next one is sent, if the max-age is over a minute.  (One lost
\* announcement is enough to be forgotten: two periods are the whole max-age.)
KnownWhileUp ==
  \A p \in Points : server.phase = "up" /\ missed[p] = 0 /\ age > 2 => entry[p] > 0

\* stop: nobody knows a stopped server who lost at most two of its byebyes,
\* unless an alive or an answer that was still sent reached him meanwhile.
GoneAfterStop ==
  \A p \in Points : server.phase = "down" /\ farewell[p] < 3 => entry[p] = 0

\* The announcements keep a server known and the byebyes end it (server.rs).
DiscoveryInv == DiscoveryTypeOK /\ KnownWhileUp /\ GoneAfterStop

\* A server that stays up is found again and again by everybody who does not
\* lose every announcement.
FoundAgain == \A p \in Points : []<>(server.phase # "up" \/ entry[p] > 0)

=============================================================================
