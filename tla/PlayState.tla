------------------------------ MODULE PlayState ------------------------------
(***************************************************************************)
(* Where each device stopped watching, and what it is offered to go on     *)
(* with: store/play_state.rs behind /api/playstate and /api/continue of    *)
(* routes.rs.  Reports travel on their own: one may be written at any time,*)
(* after later ones, more than once, or never.                            *)
(*                                                                         *)
(*   watched   play_state: <<device, item>> -> [position, duration,        *)
(*             played, at]                                                 *)
(*   items     the rows of items that play_state refers to                 *)
(*   heard     <<device, item>> -> {[position, at]} if the last write left *)
(*             it in the middle, {} if it is gone or finished (a history   *)
(*             variable)                                                   *)
(*                                                                         *)
(* Store::now() counts whole seconds and is read before the connection is  *)
(* waited for: writes may share a second, and a later write may bring an   *)
(* earlier one.                                                            *)
(***************************************************************************)
EXTENDS Integers, Sequences, FiniteSets

CONSTANTS
    Devices, Items,
    VideoItems,       \* items of kind video
    RowDuration(_),   \* items.duration_ms, {} where ffprobe has not said
    Positions,        \* positions a player reports
    Durations,        \* durations a player reports: {} or {ms}
    Limits,           \* limits a caller of /api/continue may ask for
    Seconds           \* what Store::now() may say

ASSUME PlayStateAssumption ==
    /\ IsFiniteSet(Items) /\ VideoItems \subseteq Items /\ Positions \subseteq Nat
    /\ \A d \in Durations \cup {RowDuration(i) : i \in Items} :
           d \subseteq Nat /\ \A m, n \in d : m = n
    /\ Limits \subseteq 1..100 /\ Seconds \subseteq Nat

VARIABLES watched, items, heard
playVars == <<watched, items, heard>>

MinResumeMs == 10000

PlayInit ==
    /\ watched = <<>> /\ items = Items
    /\ heard = [p \in Devices \X Items |-> {}]

\* Sent by a player: a position, the end, or "do not go on".  The first two
\* may name the device they speak for; the last is taken for the sender.
Reports == [what : {"position"}, by : Devices, item : Items, position : Positions, duration : Durations]
           \cup [what : {"played", "clear"}, by : Devices, item : Items]

PlayedThrough(position, duration) ==
    \E d \in duration : d > 0 /\ position >= d - 30000 /\ position * 100 >= d * 95
KeptPosition(position, duration) ==
    IF \E d \in duration : d > 0 /\ position > d THEN CHOOSE d \in duration : TRUE ELSE position

Without(f, p) == [q \in DOMAIN f \ {p} |-> f[q]]
Upsert(f, p, row) == [q \in DOMAIN f \cup {p} |-> IF q = p THEN row ELSE f[q]]
Row(position, duration, played, now) ==
    [position |-> position, duration |-> duration, played |-> played, at |-> now]

SetPosition(r, now) ==
    LET pair == <<r.by, r.item>>
        kept == KeptPosition(r.position, r.duration)
        played == PlayedThrough(r.position, r.duration)
        short == r.position < MinResumeMs /\ ~played
    IN  /\ watched' = IF short THEN Without(watched, pair)
                      ELSE Upsert(watched, pair, Row(kept, r.duration, played, now))
        /\ heard' = [heard EXCEPT ![pair] = IF short \/ played THEN {}
                                           ELSE {[position |-> kept, at |-> now]}]
MarkPlayedOnlyTouches(r, now) ==
    LET pair == <<r.by, r.item>>
    IN  /\ watched' = IF pair \in DOMAIN watched
                      THEN [watched EXCEPT ![pair].at = now]
                      ELSE Upsert(watched, pair, Row(0, RowDuration(r.item), TRUE, now))
        /\ heard' = [heard EXCEPT ![pair] = {}]
MarkPlayed(r, now) ==
    LET pair == <<r.by, r.item>>
    IN  /\ watched' = IF pair \in DOMAIN watched
                      THEN [watched EXCEPT ![pair].played = TRUE, ![pair].at = now]
                      ELSE Upsert(watched, pair, Row(0, RowDuration(r.item), TRUE, now))
        /\ heard' = [heard EXCEPT ![pair] = {}]
Clear(r) ==
    /\ watched' = Without(watched, <<r.by, r.item>>)
    /\ heard' = [heard EXCEPT ![<<r.by, r.item>>] = {}]

\* A write is one statement; an item that is gone is refused by its key.
Writes(r, now) ==
    /\ r.item \in items
    /\ \/ r.what = "position" /\ SetPosition(r, now)
       \/ r.what = "played" /\ MarkPlayed(r, now)
       \/ r.what = "clear" /\ Clear(r)
    /\ UNCHANGED items

\* A scan removes the row and its positions go with it.
ItemGone(i) ==
    /\ i \in items /\ items' = items \ {i}
    /\ watched' = [q \in {x \in DOMAIN watched : x[2] # i} |-> watched[q]]
    /\ heard' = [q \in DOMAIN heard |-> IF q[2] = i THEN {} ELSE heard[q]]

PlayNext ==
    \/ \E r \in Reports, now \in Seconds : Writes(r, now)
    \/ \E i \in Items : ItemGone(i)
PlaySpec == PlayInit /\ [][PlayNext]_playVars

-----------------------------------------------------------------------------
(* What a device is offered: the newest first, rows of one second in any   *)
(* order, or an error, because updated_at is read from the column of the   *)
(* duration, which may be empty.                                           *)

Unfinished(d) ==
    {i \in VideoItems : /\ <<d, i>> \in DOMAIN watched
                        /\ ~watched[<<d, i>>].played
                        /\ watched[<<d, i>>].position >= MinResumeMs}
ContinueEntry(d, i) ==
    [item |-> i, position |-> watched[<<d, i>>].position,
     duration |-> watched[<<d, i>>].duration, at |-> watched[<<d, i>>].at]
Smaller(m, n) == IF m < n THEN m ELSE n
NewestFirst(rows, limit) ==
    LET places == 1..Smaller(Cardinality(rows), limit)
    IN  {list \in [places -> rows] :
            /\ \A m, n \in places : m # n => list[m] # list[n]
            /\ \A row \in rows, n \in places :
                   row.at > list[n].at => \E m \in places : m < n /\ list[m] = row}
ContinueWatching(d, limit) == NewestFirst({ContinueEntry(d, i) : i \in Unfinished(d)}, limit)
ListFails(list) == \E n \in DOMAIN list : list[n].duration = {}

LeftBefore(p, q) == \E h \in heard[p], g \in heard[q] : h.at < g.at

\* What a device is offered is what was last written for that device and no
\* other: every film it left in the middle, as far as the list is long, each
\* once and at the place where it left, none that it finished, gave up or that
\* is gone, and before a film every one that it left later, in whatever order
\* the reports arrive (play_state.rs set, mark_played, clear).
OfferedWhereLeft ==
    \A d \in Devices, limit \in Limits : \A list \in ContinueWatching(d, limit) :
        LET middle == {i \in VideoItems : heard[<<d, i>>] # {}}
            item(n) == list[n].item
        IN  ~ListFails(list) =>
            /\ DOMAIN list = 1..Smaller(Cardinality(middle), limit)
            /\ \A n \in DOMAIN list :
                   /\ item(n) \in middle
                   /\ \E h \in heard[<<d, item(n)>>] : h.position = list[n].position
                   /\ \A i \in middle : LeftBefore(<<d, item(n)>>, <<d, i>>) =>
                          \E m \in DOMAIN list : m < n /\ item(m) = i
            /\ \A m, n \in DOMAIN list : m # n => item(m) # item(n)

PlayTypeOK ==
    /\ DOMAIN watched \subseteq Devices \X items
    /\ \A q \in DOMAIN watched : \A n \in watched[q].duration :
           n > 0 => watched[q].position <= n

PlayInv == PlayTypeOK /\ OfferedWhereLeft

=============================================================================
