------------------------------ MODULE Watcher ------------------------------
(***************************************************************************)
(* Watching the library: the callback of LibraryWatcher::start             *)
(* (rustiio-library/src/watch.rs), the loop of start_watch                 *)
(* (rustiio-server/src/boot.rs) and start_auto_scan (state.rs).            *)
(*                                                                         *)
(* The callback announces a change over an unbounded channel only when no  *)
(* event came in the quiet time before it.  The loop takes an announcement,*)
(* waits until none came for the quiet time, and rescans.                  *)
(*                                                                         *)
(* The disk is the number of changes made so far, a catalog the number of  *)
(* changes its scan saw.  Time is kept as the age of the last event and of *)
(* the last announcement, both capped at the quiet time.                   *)
(***************************************************************************)
EXTENDS Naturals

CONSTANTS
  Quiet,       \* DEFAULT_QUIET in ticks
  AutoScan,    \* the settings to start with: is library.auto_scan_minutes # 0
  MaxChanges   \* bound on changes of the disk

ASSUME WatcherAssumption ==
  Quiet \in Nat \ {0} /\ AutoScan \subseteq BOOLEAN /\ MaxChanges \in Nat

VARIABLES
  disk,       \* changes of the disk so far
  catalog,    \* changes that the published catalog shows
  announced,  \* the newest change for which on_change was called
  pending,    \* announcements in the channel
  eventAge,   \* ticks since `last`; Quiet when there is none or it is older
  loop,       \* the loop of start_watch: [pc, age, seen]
  auto        \* the loop of start_auto_scan: [pc, seen]

watchVars == <<disk, catalog, announced, pending, eventAge, loop, auto>>

WatchInit ==
  /\ disk = 0
  /\ catalog = 0
  /\ announced = 0
  /\ pending = 0
  /\ eventAge = Quiet
  /\ loop = [pc |-> "recv", age |-> 0, seen |-> 0]
  /\ \E on \in AutoScan : auto = [pc |-> IF on THEN "sleep" ELSE "off", seen |-> 0]

-----------------------------------------------------------------------------
(***************************************************************************)
(* The file system and the callback                                        *)
(***************************************************************************)

Announce == pending' = pending + 1 /\ announced' = disk'

\* last is set by every event, settled or not.
Callback ==
  /\ eventAge' = 0
  /\ IF eventAge >= Quiet THEN Announce ELSE UNCHANGED <<pending, announced>>

\* A file or folder appears, goes away or is renamed (touches_library).
FileEvent ==
  /\ disk < MaxChanges
  /\ disk' = disk + 1
  /\ Callback
  /\ UNCHANGED <<catalog, loop, auto>>

-----------------------------------------------------------------------------
(***************************************************************************)
(* The loop of start_watch                                                 *)
(***************************************************************************)

\* receiver.recv().await, for the first announcement and for those while it
\* settles; each starts the quiet time anew.
Receive ==
  /\ loop.pc \in {"recv", "settle"}
  /\ pending > 0
  /\ pending' = pending - 1
  /\ loop' = [pc |-> "settle", age |-> 0, seen |-> loop.seen]
  /\ UNCHANGED <<disk, catalog, announced, eventAge, auto>>

\* The quiet time is over: rescan reads the disk, and publishes later.
StartRescan ==
  /\ loop.pc = "settle"
  /\ pending = 0
  /\ loop.age >= Quiet
  /\ loop' = [pc |-> "scan", age |-> 0, seen |-> disk]
  /\ UNCHANGED <<disk, catalog, announced, pending, eventAge, auto>>

FinishRescanDraining ==
  /\ loop.pc = "scan"
  /\ catalog' = loop.seen
  /\ pending' = 0
  /\ loop' = [loop EXCEPT !.pc = "recv"]
  /\ UNCHANGED <<disk, announced, eventAge, auto>>

FinishRescan ==
  /\ loop.pc = "scan"
  /\ catalog' = loop.seen
  /\ loop' = [loop EXCEPT !.pc = "recv"]
  /\ UNCHANGED <<disk, announced, pending, eventAge, auto>>

-----------------------------------------------------------------------------
(***************************************************************************)
(* The loop of start_auto_scan, and time                                   *)
(***************************************************************************)

AutoScanStarts ==
  /\ auto.pc = "sleep"
  /\ auto' = [pc |-> "scan", seen |-> disk]
  /\ UNCHANGED <<disk, catalog, announced, pending, eventAge, loop>>

AutoScanOnce ==
  /\ auto.pc = "scan"
  /\ catalog' = auto.seen
  /\ auto' = [auto EXCEPT !.pc = "off"]
  /\ UNCHANGED <<disk, announced, pending, eventAge, loop>>

AutoScanEnds ==
  /\ auto.pc = "scan"
  /\ catalog' = auto.seen
  /\ auto' = [auto EXCEPT !.pc = "sleep"]
  /\ UNCHANGED <<disk, announced, pending, eventAge, loop>>

\* A waiting loop takes an announcement, and lets its quiet time end, before
\* time passes on.
Prompt ==
  loop.pc \in {"recv", "settle"} => pending = 0 /\ (loop.pc = "settle" => loop.age < Quiet)

Older(age) == IF age < Quiet THEN age + 1 ELSE Quiet

WatchTick ==
  /\ Prompt
  /\ eventAge' = Older(eventAge)
  /\ loop' = IF loop.pc = "settle" THEN [loop EXCEPT !.age = Older(@)] ELSE loop
  /\ UNCHANGED <<disk, catalog, announced, pending, auto>>

LoopStep == Receive \/ StartRescan \/ FinishRescan
AutoStep == AutoScanStarts \/ AutoScanEnds

WatchNext == FileEvent \/ LoopStep \/ AutoStep \/ WatchTick

WatchSpec == WatchInit /\ [][WatchNext]_watchVars

\* The runtime runs both loops, every scan ends, and time passes.
WatchFairness ==
  WF_watchVars(LoopStep) /\ WF_watchVars(AutoStep) /\ WF_watchVars(WatchTick)

-----------------------------------------------------------------------------
(***************************************************************************)
(* Properties                                                              *)
(***************************************************************************)

WatchTypeOK ==
  /\ disk \in 0 .. MaxChanges
  /\ catalog \in 0 .. disk
  /\ announced \in 0 .. disk
  /\ pending \in 0 .. MaxChanges
  /\ eventAge \in 0 .. Quiet
  /\ loop \in [pc : {"recv", "settle", "scan"}, age : 0 .. Quiet, seen : 0 .. disk]
  /\ auto \in [pc : {"sleep", "scan", "off"}, seen : 0 .. disk]

\* A change that was announced is never forgotten: it is in the catalog, or
\* an announcement of it or of a later one still waits, or a rescan that saw
\* it is on its way.  (An auto-scan that read the disk earlier may publish
\* over it.)
AnnouncedIsOnItsWay ==
  \/ auto.pc # "off"
  \/ catalog >= announced
  \/ pending > 0
  \/ loop.pc = "settle"
  \/ loop.pc = "scan" /\ loop.seen >= announced

\* The clocks and counters are within their bounds, and no announced change is
\* forgotten (watch.rs, start_watch).
WatchInv == WatchTypeOK /\ AnnouncedIsOnItsWay

\* boot.rs: further announcements prolong the wait, and no more: every
\* announced change is published at last.
AnnouncedIsPublished ==
  \A n \in 1 .. MaxChanges : announced = n ~> catalog >= n

\* With auto-scan the catalog ends up showing the disk, whatever the watcher
\* missed and although the scans of the two loops publish out of order.
AutoScanRepairs == auto.pc # "off" => <>[](catalog = disk)

=============================================================================
