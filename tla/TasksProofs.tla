---------------------------- MODULE TasksProofs -----------------------------
(***************************************************************************)
(* Proofs about the tasks that run beside the library: Sessions, Watcher   *)
(* and Discovery, for every value of their constants.                      *)
(*                                                                         *)
(* Sessions: who holds a slot, who is listed and how many encoders run,    *)
(* and that Sessions implements SlotPool.  The inductive invariant needs   *)
(* at which positions an encoder can run (EncoderPc) and that ids are      *)
(* below the counter and given once (IdsDistinct).                         *)
(*                                                                         *)
(* Watcher: no announced change is forgotten.  AnnouncedIsOnItsWay is not  *)
(* inductive: a catalog that already shows the announced change may be     *)
(* replaced by the result of a rescan.  What makes that harmless is        *)
(* ScanSawOrMore: a rescan under way read the disk after the last          *)
(* announcement, or a later announcement still waits, since the loop takes *)
(* none while it scans.                                                    *)
(*                                                                         *)
(* Discovery: between two announcements nobody who heard the last one      *)
(* forgets a running server, and nobody keeps a stopped one who lost at    *)
(* most two byebyes.  Neither is inductive.  The first needs the distance  *)
(* between the expiry of an entry and the next announcement                *)
(* (OutlastsThePeriod), the second what has been lost after each single    *)
(* byebye (GoneAfterByes).                                                 *)
(***************************************************************************)
EXTENDS Sessions, Watcher, Discovery, FiniteSetTheorems, TLAPS

-----------------------------------------------------------------------------
(* Sessions.                                                               *)

\* The encoder of a request runs only between spawn and kill.
EncoderPc ==
  \A r \in Requests :
    child[r] = "running" => pc[r] \in {"spawned", "numbered", "streaming", "dropped"}

\* Every id that was handed out is below the counter, and no two requests
\* were handed the same one.
IdsDistinct ==
  /\ \A r \in Requests :
       /\ sid[r] < counter
       /\ pc[r] \in {"numbered", "streaming", "dropped", "killed"} => sid[r] # 0
  /\ \A r, q \in Requests : r # q /\ sid[r] = sid[q] => sid[r] = 0

IInv ==
  /\ TypeOK
  /\ SlotsConserved
  /\ EncoderPc
  /\ IdsDistinct
  /\ ListingExact

-----------------------------------------------------------------------------
(***************************************************************************)
(* Lemmas                                                                  *)
(***************************************************************************)

\* The clamp keeps the limit between 1 and 16.
LEMMA LimitType == Limit \in 1 .. 16
BY MaxConcurrentAssumption DEF Limit

\* The holders are a finite set, so their number is a natural number.
LEMMA HoldersFinite == IsFiniteSet(Holders) /\ Cardinality(Holders) \in Nat
<1>1. Holders \in SUBSET Requests
  BY DEF Holders
<1>2. IsFiniteSet(Holders)
  BY <1>1, FS_Subset, RequestsAssumption
<1>3. QED
  BY <1>2, FS_CardinalityType

\* The pool counts its holders with the same operator.
LEMMA SameCardinality == \A S : Pool!Cardinality(S) = Cardinality(S)
BY DEF Cardinality, Pool!Cardinality

\* A request that moves between two positions of the same kind (both with a
\* slot, or both without) changes neither the holders nor their number.
LEMMA SameHolders ==
  ASSUME TypeOK, NEW r \in Requests, NEW from \in PcValue, NEW to \in PcValue,
         Goto(r, from, to), from \in HoldingPc <=> to \in HoldingPc
  PROVE  Holders' = Holders
BY DEF TypeOK, Goto, Holders

\* A request that enters its holding section is added to the holders.
LEMMA EnterHolders ==
  ASSUME TypeOK, NEW r \in Requests, NEW from \in PcValue, NEW to \in PcValue,
         Goto(r, from, to), from \notin HoldingPc, to \in HoldingPc
  PROVE  /\ r \notin Holders
         /\ Holders' = Holders \union {r}
         /\ Cardinality(Holders') = Cardinality(Holders) + 1
<1>1. r \notin Holders /\ Holders' = Holders \union {r}
  BY DEF TypeOK, Goto, Holders
<1>2. QED
  BY <1>1, HoldersFinite, FS_AddElement

\* A request that leaves its holding section is removed from the holders.
LEMMA LeaveHolders ==
  ASSUME TypeOK, NEW r \in Requests, NEW from \in PcValue, NEW to \in PcValue,
         Goto(r, from, to), from \in HoldingPc, to \notin HoldingPc
  PROVE  /\ r \in Holders
         /\ Holders' = Holders \ {r}
         /\ Cardinality(Holders') = Cardinality(Holders) - 1
         /\ Cardinality(Holders) > 0
<1>1. r \in Holders /\ Holders' = Holders \ {r}
  BY DEF TypeOK, Goto, Holders
<1>2. Cardinality(Holders') = Cardinality(Holders) - 1
  BY <1>1, HoldersFinite, FS_RemoveElement
<1>3. Cardinality(Holders) # 0
  BY <1>1, HoldersFinite, FS_EmptySet
<1>4. QED
  BY <1>1, <1>2, <1>3, HoldersFinite

-----------------------------------------------------------------------------
(***************************************************************************)
(* The inductive invariant                                                 *)
(***************************************************************************)

LEMMA InitInvariant == Init => IInv
<1> SUFFICES ASSUME Init PROVE IInv
  OBVIOUS
<1>1. TypeOK
  BY LimitType DEF Init, TypeOK, PcValue
<1>2. Holders = {}
  BY DEF Init, Holders, HoldingPc
<1>3. SlotsConserved
  BY <1>2, FS_EmptySet, LimitType DEF Init, SlotsConserved
<1>4. EncoderPc /\ IdsDistinct /\ ListingExact
  BY DEF Init, EncoderPc, IdsDistinct, ListingExact
<1>5. QED
  BY <1>1, <1>3, <1>4 DEF IInv

LEMMA StepInvariant == IInv /\ [Next]_vars => IInv'
<1> SUFFICES ASSUME IInv, [Next]_vars PROVE IInv'
  OBVIOUS
<1> USE DEF IInv
<1>1. ASSUME NEW r \in Requests, AnswerHead(r) PROVE IInv'
  <2>1. TypeOK'
    BY <1>1 DEF AnswerHead, Goto, TypeOK, PcValue
  <2>2. SlotsConserved'
    BY <1>1, SameHolders DEF AnswerHead, SlotsConserved, PcValue, HoldingPc
  <2>3. EncoderPc' /\ IdsDistinct' /\ ListingExact'
    BY <1>1 DEF AnswerHead, Goto, TypeOK, EncoderPc, IdsDistinct, ListingExact
  <2> QED BY <2>1, <2>2, <2>3
<1>2. ASSUME NEW r \in Requests, Acquire(r) PROVE IInv'
  <2>1. TypeOK'
    BY <1>2, LimitType DEF Acquire, Goto, TypeOK, PcValue
  <2>2. SlotsConserved'
    BY <1>2, EnterHolders, HoldersFinite, LimitType
    DEF Acquire, SlotsConserved, TypeOK, PcValue, HoldingPc
  <2>3. EncoderPc' /\ IdsDistinct' /\ ListingExact'
    BY <1>2 DEF Acquire, Goto, TypeOK, EncoderPc, IdsDistinct, ListingExact
  <2> QED BY <2>1, <2>2, <2>3
<1>3. ASSUME NEW r \in Requests, RefuseLimit(r) PROVE IInv'
  <2>1. TypeOK'
    BY <1>3 DEF RefuseLimit, Goto, TypeOK, PcValue
  <2>2. SlotsConserved'
    BY <1>3, SameHolders DEF RefuseLimit, SlotsConserved, PcValue, HoldingPc
  <2>3. EncoderPc' /\ IdsDistinct' /\ ListingExact'
    BY <1>3 DEF RefuseLimit, Goto, TypeOK, EncoderPc, IdsDistinct, ListingExact
  <2> QED BY <2>1, <2>2, <2>3
<1>4. ASSUME NEW r \in Requests, SpawnEncoder(r) PROVE IInv'
  <2>1. TypeOK'
    BY <1>4 DEF SpawnEncoder, Goto, TypeOK, PcValue
  <2>2. SlotsConserved'
    BY <1>4, SameHolders DEF SpawnEncoder, SlotsConserved, PcValue, HoldingPc
  <2>3. EncoderPc' /\ IdsDistinct' /\ ListingExact'
    BY <1>4 DEF SpawnEncoder, Goto, TypeOK, EncoderPc, IdsDistinct, ListingExact
  <2> QED BY <2>1, <2>2, <2>3
<1>5. ASSUME NEW r \in Requests, SpawnFails(r) PROVE IInv'
  <2>1. /\ Cardinality(Holders') = Cardinality(Holders) - 1
        /\ Cardinality(Holders) > 0
    BY <1>5, LeaveHolders DEF SpawnFails, PcValue, HoldingPc
  <2>2. SlotsConserved'
    BY <1>5, <2>1, HoldersFinite, LimitType DEF SpawnFails, SlotsConserved, TypeOK
  <2>3. TypeOK'
    BY <1>5, <2>1, HoldersFinite, LimitType
    DEF SpawnFails, Goto, TypeOK, PcValue, SlotsConserved
  <2>4. EncoderPc' /\ IdsDistinct' /\ ListingExact'
    BY <1>5 DEF SpawnFails, Goto, TypeOK, EncoderPc, IdsDistinct, ListingExact
  <2> QED BY <2>2, <2>3, <2>4
<1>6. ASSUME NEW r \in Requests, TakeId(r) PROVE IInv'
  <2>1. TypeOK'
    BY <1>6 DEF TakeId, NextCounter, Goto, TypeOK, PcValue
  <2>2. SlotsConserved'
    BY <1>6, SameHolders DEF TakeId, SlotsConserved, PcValue, HoldingPc
  <2>3. EncoderPc'
    BY <1>6 DEF TakeId, Goto, TypeOK, EncoderPc
  <2>4. IdsDistinct'
    BY <1>6 DEF TakeId, NextCounter, Goto, TypeOK, IdsDistinct
  <2>5. ListingExact'
    BY <1>6 DEF TakeId, Goto, TypeOK, ListingExact, Entry
  <2> QED BY <2>1, <2>2, <2>3, <2>4, <2>5
<1>7. ASSUME NEW r \in Requests, ListStream(r) PROVE IInv'
  <2>1. TypeOK'
    BY <1>7 DEF ListStream, Goto, TypeOK, PcValue, Entry
  <2>2. SlotsConserved'
    BY <1>7, SameHolders DEF ListStream, SlotsConserved, PcValue, HoldingPc
  <2>3. EncoderPc' /\ IdsDistinct'
    BY <1>7 DEF ListStream, Goto, TypeOK, EncoderPc, IdsDistinct
  <2>4. {e \in active : e.id # sid[r]} = active
    BY <1>7 DEF ListStream, Goto, TypeOK, IdsDistinct, ListingExact, Entry
  <2>5. ListingExact'
    BY <1>7, <2>4 DEF ListStream, Goto, TypeOK, ListingExact
  <2> QED BY <2>1, <2>2, <2>3, <2>5
<1>8. ASSUME NEW r \in Requests, KillEncoder(r) PROVE IInv'
  <2>1. TypeOK'
    BY <1>8 DEF KillEncoder, Goto, TypeOK, PcValue
  <2>2. SlotsConserved'
    BY <1>8, SameHolders DEF KillEncoder, SlotsConserved, PcValue, HoldingPc
  <2>3. EncoderPc' /\ IdsDistinct' /\ ListingExact'
    BY <1>8 DEF KillEncoder, Goto, TypeOK, EncoderPc, IdsDistinct, ListingExact
  <2> QED BY <2>1, <2>2, <2>3
<1>9. ASSUME NEW r \in Requests, UnlistStream(r) PROVE IInv'
  <2>1. TypeOK'
    BY <1>9 DEF UnlistStream, Goto, TypeOK, PcValue
  <2>2. SlotsConserved'
    BY <1>9, SameHolders DEF UnlistStream, SlotsConserved, PcValue, HoldingPc
  <2>3. EncoderPc' /\ IdsDistinct'
    BY <1>9 DEF UnlistStream, Goto, TypeOK, EncoderPc, IdsDistinct
  <2>4. ListingExact'
    BY <1>9 DEF UnlistStream, Goto, TypeOK, IdsDistinct, ListingExact, Entry
  <2> QED BY <2>1, <2>2, <2>3, <2>4
<1>10. ASSUME NEW r \in Requests, ReleasePermit(r) PROVE IInv'
  <2>1. /\ Cardinality(Holders') = Cardinality(Holders) - 1
        /\ Cardinality(Holders) > 0
    BY <1>10, LeaveHolders DEF ReleasePermit, PcValue, HoldingPc
  <2>2. SlotsConserved'
    BY <1>10, <2>1, HoldersFinite, LimitType DEF ReleasePermit, SlotsConserved, TypeOK
  <2>3. TypeOK'
    BY <1>10, <2>1, HoldersFinite, LimitType
    DEF ReleasePermit, Goto, TypeOK, PcValue, SlotsConserved
  <2>4. EncoderPc' /\ IdsDistinct' /\ ListingExact'
    BY <1>10 DEF ReleasePermit, Goto, TypeOK, EncoderPc, IdsDistinct, ListingExact
  <2> QED BY <2>2, <2>3, <2>4
<1>11. ASSUME NEW r \in Requests, EncoderExits(r) PROVE IInv'
  <2>1. TypeOK'
    BY <1>11 DEF EncoderExits, TypeOK
  <2>2. Holders' = Holders
    BY <1>11 DEF EncoderExits, Holders
  <2>3. SlotsConserved'
    BY <1>11, <2>2 DEF EncoderExits, SlotsConserved
  <2>4. EncoderPc' /\ IdsDistinct' /\ ListingExact'
    BY <1>11 DEF EncoderExits, TypeOK, EncoderPc, IdsDistinct, ListingExact
  <2> QED BY <2>1, <2>3, <2>4
<1>12. ASSUME NEW r \in Requests, BodyDropped(r) PROVE IInv'
  <2>1. TypeOK'
    BY <1>12 DEF BodyDropped, Goto, TypeOK, PcValue
  <2>2. SlotsConserved'
    BY <1>12, SameHolders DEF BodyDropped, SlotsConserved, PcValue, HoldingPc
  <2>3. EncoderPc' /\ IdsDistinct'
    BY <1>12 DEF BodyDropped, Goto, TypeOK, EncoderPc, IdsDistinct
  <2>4. ListingExact'
    BY <1>12 DEF BodyDropped, Goto, TypeOK, ListingExact, Entry
  <2> QED BY <2>1, <2>2, <2>3, <2>4
<1>13. CASE UNCHANGED vars
  BY <1>13
  DEF vars, TypeOK, SlotsConserved, Holders, EncoderPc, IdsDistinct, ListingExact
<1>14. QED
  BY <1>1, <1>2, <1>3, <1>4, <1>5, <1>6, <1>7, <1>8, <1>9, <1>10, <1>11, <1>12, <1>13
  DEF Next, ServerStep

LEMMA Invariance == Spec => []IInv
BY InitInvariant, StepInvariant, PTL DEF Spec

-----------------------------------------------------------------------------
(***************************************************************************)
(* Theorems                                                                *)
(***************************************************************************)

\* Every value of every variable of the manager is of its type: no permit is
\* taken from an empty semaphore or given back to a full one.
THEOREM SessionsTypeOK == Spec => []TypeOK
BY Invariance, PTL DEF IInv

\* Slots are neither lost nor made up on any path through start and drop.
THEOREM SlotsConservedTheorem == Spec => []SlotsConserved
BY Invariance, PTL DEF IInv

\* At most Limit encoders run, each for a request that holds a slot.
THEOREM EncodersWithinLimitTheorem == Spec => []EncodersWithinLimit
<1>1. IInv => EncodersWithinLimit
  <2> SUFFICES ASSUME IInv PROVE EncodersWithinLimit
    OBVIOUS
  <2>1. Encoding \subseteq Holders
    BY DEF IInv, EncoderPc, Encoding, Holders, HoldingPc
  <2>2. Cardinality(Encoding) <= Cardinality(Holders)
    BY <2>1, HoldersFinite, FS_Subset
  <2>3. Cardinality(Encoding) \in Nat
    BY <2>1, HoldersFinite, FS_Subset, FS_CardinalityType
  <2>4. Cardinality(Holders) <= Limit
    BY HoldersFinite, LimitType DEF IInv, TypeOK, SlotsConserved
  <2>5. QED
    BY <2>1, <2>2, <2>3, <2>4, HoldersFinite, LimitType DEF EncodersWithinLimit
<1>2. QED
  BY <1>1, Invariance, PTL

\* The dashboard lists each live stream exactly once, under an id of its own.
THEOREM ListingExactTheorem == Spec => []ListingExact
BY Invariance, PTL DEF IInv

\* The session manager implements the slot pool.
THEOREM SessionsImplementPool == Spec => PoolSpec
<1>1. Init => Pool!Init
  BY DEF Init, Pool!Init, Holders, HoldingPc, Encoding, Refused
<1>2. IInv /\ [Next]_vars => [Pool!Next]_(Pool!poolVars)
  <2> SUFFICES ASSUME IInv, [Next]_vars PROVE [Pool!Next]_(Pool!poolVars)
    OBVIOUS
  <2> USE DEF IInv, Pool!poolVars
  <2>1. ASSUME NEW r \in Requests, AnswerHead(r) PROVE UNCHANGED Pool!poolVars
    BY <2>1 DEF AnswerHead, Goto, TypeOK, Holders, HoldingPc, Encoding, Refused
  <2>2. ASSUME NEW r \in Requests, Acquire(r) PROVE Pool!Grant(r)
    <3>1. /\ r \notin Holders
          /\ Holders' = Holders \union {r}
      BY <2>2, EnterHolders DEF Acquire, PcValue, HoldingPc
    <3>2. Cardinality(Holders) < Limit
      BY <2>2, HoldersFinite, LimitType DEF Acquire, TypeOK, SlotsConserved
    <3>3. UNCHANGED <<Encoding, Refused>>
      BY <2>2 DEF Acquire, Goto, TypeOK, Encoding, Refused
    <3> QED BY <3>1, <3>2, <3>3, SameCardinality DEF Pool!Grant
  <2>3. ASSUME NEW r \in Requests, RefuseLimit(r) PROVE Pool!Refuse(r)
    <3>1. /\ r \notin Holders
          /\ Holders' = Holders
      BY <2>3, SameHolders DEF RefuseLimit, Goto, PcValue, Holders, HoldingPc
    <3>2. Cardinality(Holders) = Limit
      BY <2>3, HoldersFinite, LimitType DEF RefuseLimit, TypeOK, SlotsConserved
    <3>3. Encoding' = Encoding /\ Refused' = Refused \union {r}
      BY <2>3 DEF RefuseLimit, Goto, TypeOK, Encoding, Refused
    <3> QED BY <3>1, <3>2, <3>3, SameCardinality DEF Pool!Refuse
  <2>4. ASSUME NEW r \in Requests, SpawnEncoder(r) PROVE Pool!Encode(r)
    <3>1. r \in Holders /\ Holders' = Holders
      BY <2>4, SameHolders DEF SpawnEncoder, Goto, PcValue, Holders, HoldingPc
    <3>2. Encoding' = Encoding \union {r} /\ Refused' = Refused
      BY <2>4 DEF SpawnEncoder, Goto, TypeOK, Encoding, Refused
    <3> QED BY <3>1, <3>2 DEF Pool!Encode
  <2>5. ASSUME NEW r \in Requests, SpawnFails(r) PROVE Pool!GiveBack(r)
    <3>1. r \in Holders /\ Holders' = Holders \ {r}
      BY <2>5, LeaveHolders DEF SpawnFails, PcValue, HoldingPc
    <3>2. /\ Encoding' = Encoding
          /\ Refused' = Refused \union {r}
          /\ r \notin Encoding
      BY <2>5 DEF SpawnFails, Goto, TypeOK, EncoderPc, Encoding, Refused
    <3> QED BY <3>1, <3>2 DEF Pool!GiveBack
  <2>6. ASSUME NEW r \in Requests, TakeId(r) PROVE UNCHANGED Pool!poolVars
    BY <2>6 DEF TakeId, Goto, TypeOK, Holders, HoldingPc, Encoding, Refused
  <2>7. ASSUME NEW r \in Requests, ListStream(r) PROVE UNCHANGED Pool!poolVars
    BY <2>7 DEF ListStream, Goto, TypeOK, Holders, HoldingPc, Encoding, Refused
  <2>8. ASSUME NEW r \in Requests, KillEncoder(r) PROVE Pool!StopEncoding(r)
    <3>1. Holders' = Holders
      BY <2>8, SameHolders DEF KillEncoder, PcValue, HoldingPc
    <3>2. Encoding' = Encoding \ {r} /\ Refused' = Refused
      BY <2>8 DEF KillEncoder, Goto, TypeOK, Encoding, Refused
    <3> QED BY <3>1, <3>2 DEF Pool!StopEncoding
  <2>9. ASSUME NEW r \in Requests, UnlistStream(r) PROVE UNCHANGED Pool!poolVars
    BY <2>9 DEF UnlistStream, Goto, TypeOK, Holders, HoldingPc, Encoding, Refused
  <2>10. ASSUME NEW r \in Requests, ReleasePermit(r) PROVE Pool!GiveBack(r)
    <3>1. r \in Holders /\ Holders' = Holders \ {r}
      BY <2>10, LeaveHolders DEF ReleasePermit, PcValue, HoldingPc
    <3>2. /\ Encoding' = Encoding
          /\ Refused' = Refused
          /\ r \notin Encoding
      BY <2>10 DEF ReleasePermit, Goto, TypeOK, EncoderPc, Encoding, Refused
    <3> QED BY <3>1, <3>2 DEF Pool!GiveBack
  <2>11. ASSUME NEW r \in Requests, EncoderExits(r) PROVE Pool!StopEncoding(r)
    BY <2>11 DEF EncoderExits, TypeOK, Holders, Encoding, Refused, Pool!StopEncoding
  <2>12. ASSUME NEW r \in Requests, BodyDropped(r) PROVE UNCHANGED Pool!poolVars
    BY <2>12 DEF BodyDropped, Goto, TypeOK, Holders, HoldingPc, Encoding, Refused
  <2>13. CASE UNCHANGED vars
    BY <2>13 DEF vars, Holders, Encoding, Refused
  <2>14. QED
    BY <2>1, <2>2, <2>3, <2>4, <2>5, <2>6, <2>7, <2>8, <2>9, <2>10, <2>11, <2>12, <2>13
    DEF Next, ServerStep, Pool!Next
<1>3. QED
  BY <1>1, <1>2, Invariance, PTL DEF Spec, PoolSpec, Pool!Spec

-----------------------------------------------------------------------------
(* Watcher.                                                                *)

\* No more announcements wait than changes were made.
PendingBounded == pending <= disk

ScanSawOrMore == loop.pc = "scan" => loop.seen >= announced \/ pending > 0

WatchTypes ==
  /\ disk \in Nat /\ disk <= MaxChanges
  /\ catalog \in Nat /\ catalog <= disk
  /\ announced \in Nat /\ announced <= disk
  /\ pending \in Nat
  /\ eventAge \in 0 .. Quiet
  /\ loop \in [pc : {"recv", "settle", "scan"}, age : 0 .. Quiet, seen : Nat] /\ loop.seen <= disk
  /\ auto \in [pc : {"sleep", "scan", "off"}, seen : Nat] /\ auto.seen <= disk

WatchIInv == WatchTypes /\ PendingBounded /\ ScanSawOrMore /\ AnnouncedIsOnItsWay

-----------------------------------------------------------------------------
\* The bounds of WatchTypeOK follow from those used here.
LEMMA WatchImplied == WatchIInv => WatchInv
  BY WatcherAssumption
  DEF WatchIInv, WatchTypes, PendingBounded, WatchInv, WatchTypeOK

LEMMA WatchStart == WatchInit => WatchIInv
  BY WatcherAssumption
  DEF WatchInit, WatchIInv, WatchTypes, PendingBounded, ScanSawOrMore, AnnouncedIsOnItsWay

\* One lemma for each action.
LEMMA FileEventKeeps == WatchIInv /\ FileEvent => WatchIInv'
  BY WatcherAssumption
  DEF WatchIInv, WatchTypes, PendingBounded, ScanSawOrMore, AnnouncedIsOnItsWay, FileEvent, Callback, Announce

LEMMA ReceiveKeeps == WatchIInv /\ Receive => WatchIInv'
  <1> SUFFICES ASSUME WatchIInv, Receive PROVE WatchIInv'
    OBVIOUS
  <1>1. /\ loop' \in [pc : {"recv", "settle", "scan"}, age : 0 .. Quiet, seen : Nat]
        /\ loop'.pc = "settle" /\ loop'.seen = loop.seen
    BY WatcherAssumption DEF WatchIInv, WatchTypes, Receive
  <1>2. pending' \in Nat /\ pending' <= disk
    BY DEF WatchIInv, WatchTypes, PendingBounded, Receive
  <1>3. WatchTypes'
    BY <1>1, <1>2 DEF WatchIInv, WatchTypes, Receive
  <1>4. QED
    BY <1>1, <1>2, <1>3
    DEF WatchIInv, PendingBounded, ScanSawOrMore, AnnouncedIsOnItsWay, Receive

LEMMA StartRescanKeeps == WatchIInv /\ StartRescan => WatchIInv'
  BY WatcherAssumption
  DEF WatchIInv, WatchTypes, PendingBounded, ScanSawOrMore, AnnouncedIsOnItsWay, StartRescan

LEMMA FinishRescanKeeps == WatchIInv /\ FinishRescan => WatchIInv'
  BY WatcherAssumption
  DEF WatchIInv, WatchTypes, PendingBounded, ScanSawOrMore, AnnouncedIsOnItsWay, FinishRescan

LEMMA AutoStepKeeps == WatchIInv /\ AutoStep => WatchIInv'
  <1>1. WatchIInv /\ AutoScanStarts => WatchIInv'
    BY WatcherAssumption
    DEF WatchIInv, WatchTypes, PendingBounded, ScanSawOrMore, AnnouncedIsOnItsWay, AutoScanStarts
  <1>2. WatchIInv /\ AutoScanEnds => WatchIInv'
    BY WatcherAssumption
    DEF WatchIInv, WatchTypes, PendingBounded, ScanSawOrMore, AnnouncedIsOnItsWay, AutoScanEnds
  <1>3. QED
    BY <1>1, <1>2 DEF AutoStep

LEMMA WatchTickKeeps == WatchIInv /\ WatchTick => WatchIInv'
  BY WatcherAssumption
  DEF WatchIInv, WatchTypes, PendingBounded, ScanSawOrMore, AnnouncedIsOnItsWay, WatchTick, Prompt, Older

LEMMA WatchStutterKeeps == WatchIInv /\ UNCHANGED watchVars => WatchIInv'
  BY DEF WatchIInv, WatchTypes, PendingBounded, ScanSawOrMore, AnnouncedIsOnItsWay, watchVars

LEMMA WatchStepKeeps == WatchIInv /\ [WatchNext]_watchVars => WatchIInv'
  BY FileEventKeeps, ReceiveKeeps, StartRescanKeeps, FinishRescanKeeps, AutoStepKeeps,
     WatchTickKeeps, WatchStutterKeeps
  DEF WatchNext, LoopStep

\* boot.rs, start_watch: whatever the disk does and however the two loops and
\* the debounce interleave, an announced change is in the catalog, waits to be
\* taken or is part of a rescan under way (unless auto-scan publishes too).
THEOREM NothingAnnouncedIsForgotten == WatchSpec => []WatchInv
  <1>1. WatchSpec => []WatchIInv
    BY WatchStart, WatchStepKeeps, PTL DEF WatchSpec
  <1>2. QED
    BY <1>1, WatchImplied, PTL

-----------------------------------------------------------------------------
(* Discovery.                                                              *)

Received == {[point |-> p, kind |-> d.kind, st |-> d.st] : p \in Points, d \in Datagrams}

DiscoveryTypes ==
  /\ age \in MaxAges
  /\ server \in [phase : {"down", "up", "stopping"}, quick : 0 .. 3, wait : 0 .. 60, byes : 0 .. 3]
  /\ socket \in Seq(Received) /\ Len(socket) <= MaxQueue
  /\ entry \in [Points -> 0 .. age]
  /\ missed \in [Points -> 0 .. MaxLost]
  /\ farewell \in [Points -> 0 .. 3]
  /\ starts \in 0 .. MaxStarts

WaitBounded == server.wait <= Period

OutlastsThePeriod ==
  \A p \in Points :
    server.phase = "up" /\ missed[p] = 0 /\ age > 2 => entry[p] >= server.wait + 1

GoneAfterByes ==
  \A p \in Points :
    /\ server.phase = "stopping" /\ farewell[p] < 3 - server.byes => entry[p] = 0
    /\ server.phase = "down" /\ farewell[p] < 3 => entry[p] = 0

DiscoveryIInv == DiscoveryTypes /\ WaitBounded /\ OutlastsThePeriod /\ GoneAfterByes

-----------------------------------------------------------------------------
\* The period is a whole number of ticks, at most an hour; a max-age over a
\* minute outlasts it.
LEMMA PeriodInAge ==
  ASSUME age \in MaxAges
  PROVE  /\ age \in Nat \ {0} /\ Period \in 0 .. 60
         /\ age > 2 => Period + 1 <= age
  <1>1. age \in {1, 2, 3} \/ \E n \in 1 .. 60 : age = 2 * n
    BY DiscoveryAssumption
  <1>2. CASE age \in {1, 2, 3}
    BY <1>2 DEF Period
  <1>3. ASSUME NEW n \in 1 .. 60, age = 2 * n
        PROVE  age \in Nat \ {0} /\ Period \in 0 .. 60 /\ (age > 2 => Period + 1 <= age)
    <2>1. age \div 2 = n
      BY <1>3
    <2>2. QED
      BY <1>3, <2>1 DEF Period
  <1>4. QED
    BY <1>1, <1>2, <1>3

LEMMA DiscoveryImplied == DiscoveryIInv => DiscoveryInv
  <1> SUFFICES ASSUME DiscoveryIInv PROVE DiscoveryInv
    OBVIOUS
  <1>1. DiscoveryTypeOK
    BY DEF DiscoveryIInv, DiscoveryTypes, DiscoveryTypeOK
  <1>2. KnownWhileUp
    <2>1. age \in Nat
      BY PeriodInAge DEF DiscoveryIInv, DiscoveryTypes
    <2>2. server.wait \in 0 .. 60 /\ \A p \in Points : entry[p] \in 0 .. age
      BY DEF DiscoveryIInv, DiscoveryTypes
    <2>3. QED
      BY <2>1, <2>2 DEF DiscoveryIInv, OutlastsThePeriod, KnownWhileUp
  <1>3. GoneAfterStop
    BY DEF DiscoveryIInv, GoneAfterByes, GoneAfterStop
  <1>4. QED
    BY <1>1, <1>2, <1>3 DEF DiscoveryInv

LEMMA DiscoveryStart == DiscoveryInit => DiscoveryIInv
  <1> SUFFICES ASSUME DiscoveryInit PROVE DiscoveryIInv
    OBVIOUS
  <1>1. age \in Nat \ {0} /\ Period \in 0 .. 60
    BY PeriodInAge DEF DiscoveryInit
  <1>2. DiscoveryTypes
    BY <1>1, DiscoveryAssumption DEF DiscoveryInit, DiscoveryTypes
  <1>3. QED
    BY <1>1, <1>2
    DEF DiscoveryInit, DiscoveryIInv, WaitBounded, OutlastsThePeriod, GoneAfterByes

-----------------------------------------------------------------------------
(* One lemma for each action.                                              *)

LEMMA StartsKeeps == DiscoveryIInv /\ Starts => DiscoveryIInv'
  <1> SUFFICES ASSUME DiscoveryIInv, Starts PROVE DiscoveryIInv'
    OBVIOUS
  <1>1. Period' \in 0 .. 60
    BY PeriodInAge DEF DiscoveryIInv, DiscoveryTypes, Starts, Period
  <1>2. DiscoveryTypes'
    BY DiscoveryAssumption DEF DiscoveryIInv, DiscoveryTypes, Starts
  <1>3. QED
    BY <1>1, <1>2
    DEF Starts, DiscoveryIInv, WaitBounded, OutlastsThePeriod, GoneAfterByes

\* What a loop of alives and the period after it make of the entries.
LEMMA AnnouncesKeeps == DiscoveryIInv /\ Announces => DiscoveryIInv'
  <1> SUFFICES ASSUME DiscoveryIInv, Announces PROVE DiscoveryIInv'
    OBVIOUS
  <1>1. /\ age \in Nat \ {0} /\ Period \in 0 .. 60
        /\ age > 2 => Period + 1 <= age
    BY PeriodInAge DEF DiscoveryIInv, DiscoveryTypes
  <1>2. /\ Alive
        /\ UNCHANGED <<age, socket, starts>>
        /\ server' \in [phase : {"down", "up", "stopping"}, quick : 0 .. 3, wait : 0 .. 60,
                        byes : 0 .. 3]
        /\ server'.phase = server.phase /\ server'.wait = Period /\ server'.byes = server.byes
    <2>1. CASE AnnouncesAtStart
      <3>1. server' = [phase |-> server.phase, quick |-> server.quick - 1, wait |-> Period,
                       byes |-> server.byes]
        BY <2>1 DEF AnnouncesAtStart, DiscoveryIInv, DiscoveryTypes
      <3>2. server.quick \in 1 .. 3
        BY <2>1 DEF AnnouncesAtStart, DiscoveryIInv, DiscoveryTypes
      <3>3. QED
        BY <1>1, <2>1, <3>1, <3>2 DEF AnnouncesAtStart, DiscoveryIInv, DiscoveryTypes
    <2>2. CASE AnnouncesAgain
      BY <1>1, <2>2 DEF AnnouncesAgain, DiscoveryIInv, DiscoveryTypes
    <2>3. QED
      BY <2>1, <2>2 DEF Announces
  <1>3. PICK heard \in SUBSET Points :
          /\ \A p \in Points \ heard : missed[p] # MaxLost
          /\ entry' = [p \in Points |-> IF p \in heard THEN age ELSE entry[p]]
          /\ missed' = [p \in Points |-> IF p \in heard THEN 0 ELSE missed[p] + 1]
          /\ farewell' = [p \in Points |-> IF p \in heard THEN 3 ELSE farewell[p]]
    BY <1>2 DEF Alive, Reached
  <1>4. DiscoveryTypes'
    <2>1. entry' \in [Points -> 0 .. age']
      BY <1>1, <1>2, <1>3 DEF DiscoveryIInv, DiscoveryTypes
    <2>2. missed' \in [Points -> 0 .. MaxLost]
      BY <1>3, DiscoveryAssumption DEF DiscoveryIInv, DiscoveryTypes
    <2>3. farewell' \in [Points -> 0 .. 3]
      BY <1>3 DEF DiscoveryIInv, DiscoveryTypes
    <2>4. QED
      BY <1>2, <2>1, <2>2, <2>3 DEF DiscoveryIInv, DiscoveryTypes
  <1>5. WaitBounded'
    BY <1>1, <1>2 DEF WaitBounded, Period
  <1>6. OutlastsThePeriod'
    BY <1>1, <1>2, <1>3 DEF DiscoveryIInv, DiscoveryTypes, OutlastsThePeriod
  <1>7. GoneAfterByes'
    BY <1>2, <1>3 DEF DiscoveryIInv, DiscoveryTypes, GoneAfterByes
  <1>8. QED
    BY <1>4, <1>5, <1>6, <1>7 DEF DiscoveryIInv

LEMMA AnswersKeeps == DiscoveryIInv /\ Answers => DiscoveryIInv'
  <1> SUFFICES ASSUME DiscoveryIInv, Answers PROVE DiscoveryIInv'
    OBVIOUS
  <1>1. /\ age \in Nat \ {0} /\ Period \in 0 .. 60
        /\ age > 2 => Period + 1 <= age
    BY PeriodInAge DEF DiscoveryIInv, DiscoveryTypes
  <1>2. /\ UNCHANGED <<age, server, starts, missed>>
        /\ \/ \E q : /\ entry' = [entry EXCEPT ![q] = age]
                     /\ farewell' = [farewell EXCEPT ![q] = 3]
           \/ UNCHANGED <<entry, farewell>>
    BY DEF Answers
  <1>3. socket' \in Seq(Received) /\ Len(socket') <= MaxQueue
    <2>1. socket # <<>> /\ socket' = Tail(socket) /\ socket \in Seq(Received) /\ Len(socket) <= MaxQueue
      BY DEF Answers, DiscoveryIInv, DiscoveryTypes
    <2>2. MaxQueue \in Nat
      BY DiscoveryAssumption
    <2>3. QED
      BY <2>1, <2>2
  <1>4. /\ entry' \in [Points -> 0 .. age] /\ farewell' \in [Points -> 0 .. 3]
        /\ \A p \in Points : \/ entry'[p] = entry[p] /\ farewell'[p] = farewell[p]
                             \/ entry'[p] = age /\ farewell'[p] = 3
    <2>1. entry \in [Points -> 0 .. age] /\ farewell \in [Points -> 0 .. 3]
      BY DEF DiscoveryIInv, DiscoveryTypes
    <2>2. CASE UNCHANGED <<entry, farewell>>
      BY <2>1, <2>2
    <2>3. ASSUME NEW q, entry' = [entry EXCEPT ![q] = age], farewell' = [farewell EXCEPT ![q] = 3]
          PROVE  /\ entry' \in [Points -> 0 .. age] /\ farewell' \in [Points -> 0 .. 3]
                 /\ \A p \in Points : \/ entry'[p] = entry[p] /\ farewell'[p] = farewell[p]
                                      \/ entry'[p] = age /\ farewell'[p] = 3
      <3>1. age \in 0 .. age /\ 3 \in 0 .. 3
        BY <1>1
      <3>2. entry' \in [Points -> 0 .. age] /\ farewell' \in [Points -> 0 .. 3]
        BY <2>1, <2>3, <3>1
      <3>3. \A p \in Points : IF p = q THEN entry'[p] = age /\ farewell'[p] = 3
                              ELSE entry'[p] = entry[p] /\ farewell'[p] = farewell[p]
        BY <2>1, <2>3
      <3>4. QED
        BY <3>2, <3>3
    <2>4. QED
      BY <1>2, <2>2, <2>3
  <1>5. DiscoveryTypes' /\ WaitBounded'
    BY <1>2, <1>3, <1>4 DEF DiscoveryIInv, DiscoveryTypes, WaitBounded, Period
  <1>6. OutlastsThePeriod'
    <2>1. server.wait \in 0 .. 60 /\ server.wait <= Period
      BY DEF DiscoveryIInv, DiscoveryTypes, WaitBounded
    <2>2. QED
      BY <1>1, <1>2, <1>4, <2>1 DEF DiscoveryIInv, OutlastsThePeriod
  <1>7. GoneAfterByes'
    BY <1>2, <1>4 DEF DiscoveryIInv, DiscoveryTypes, GoneAfterByes
  <1>8. QED
    BY <1>5, <1>6, <1>7 DEF DiscoveryIInv

LEMMA StopBeginsKeeps == DiscoveryIInv /\ StopBegins => DiscoveryIInv'
  <1> SUFFICES ASSUME DiscoveryIInv, StopBegins PROVE DiscoveryIInv'
    OBVIOUS
  <1>1. /\ server' = [phase |-> "stopping", quick |-> server.quick, wait |-> server.wait, byes |-> 3]
        /\ farewell' = [p \in Points |-> 0]
        /\ UNCHANGED <<age, socket, entry, starts, missed>>
    BY DEF StopBegins, DiscoveryIInv, DiscoveryTypes
  <1>2. DiscoveryTypes'
    BY <1>1 DEF DiscoveryIInv, DiscoveryTypes
  <1>3. QED
    BY <1>1, <1>2
    DEF DiscoveryIInv, DiscoveryTypes, WaitBounded, Period, OutlastsThePeriod, GoneAfterByes

LEMMA SaysByebyeKeeps == DiscoveryIInv /\ SaysByebye => DiscoveryIInv'
  <1> SUFFICES ASSUME DiscoveryIInv, SaysByebye PROVE DiscoveryIInv'
    OBVIOUS
  <1>1. /\ server.phase = "stopping" /\ server.byes \in 1 .. 3
        /\ server' = [phase |-> "stopping", quick |-> server.quick, wait |-> server.wait,
                      byes |-> server.byes - 1]
        /\ UNCHANGED <<age, socket, starts, missed>>
    <2>1. server \in [phase : {"down", "up", "stopping"}, quick : 0 .. 3, wait : 0 .. 60,
                      byes : 0 .. 3]
      BY DEF DiscoveryIInv, DiscoveryTypes
    <2>2. /\ server.phase = "stopping" /\ server.byes > 0
          /\ server' = [server EXCEPT !.byes = @ - 1]
          /\ UNCHANGED <<age, socket, starts, missed>>
      BY DEF SaysByebye
    <2>3. server.byes \in 1 .. 3
      BY <2>1, <2>2
    <2>4. QED
      BY <2>1, <2>2, <2>3
  <1>2. PICK heard \in SUBSET Points :
          /\ entry' = [p \in Points |-> IF p \in heard THEN 0 ELSE entry[p]]
          /\ farewell' = [p \in Points |-> IF p \in heard THEN 0
                                           ELSE IF farewell[p] = 3 THEN 3 ELSE farewell[p] + 1]
    BY DEF SaysByebye, Reached
  <1>3. age \in Nat \ {0}
    BY PeriodInAge DEF DiscoveryIInv, DiscoveryTypes
  <1>4. DiscoveryTypes'
    <2>1. entry' \in [Points -> 0 .. age]
      BY <1>2, <1>3 DEF DiscoveryIInv, DiscoveryTypes
    <2>2. farewell' \in [Points -> 0 .. 3]
      <3>1. \A p \in Points : farewell[p] \in {0, 1, 2, 3}
        BY DEF DiscoveryIInv, DiscoveryTypes
      <3>2. QED
        BY <1>2, <3>1
    <2>3. server' \in [phase : {"down", "up", "stopping"}, quick : 0 .. 3, wait : 0 .. 60,
                       byes : 0 .. 3]
      BY <1>1 DEF DiscoveryIInv, DiscoveryTypes
    <2>4. QED
      BY <1>1, <2>1, <2>2, <2>3 DEF DiscoveryIInv, DiscoveryTypes
  <1>5. WaitBounded' /\ OutlastsThePeriod'
    BY <1>1 DEF DiscoveryIInv, DiscoveryTypes, WaitBounded, Period, OutlastsThePeriod
  <1>6. GoneAfterByes'
    BY <1>1, <1>2 DEF DiscoveryIInv, DiscoveryTypes, GoneAfterByes
  <1>7. QED
    BY <1>4, <1>5, <1>6 DEF DiscoveryIInv

LEMMA StopEndsKeeps == DiscoveryIInv /\ StopEnds => DiscoveryIInv'
  <1> SUFFICES ASSUME DiscoveryIInv, StopEnds PROVE DiscoveryIInv'
    OBVIOUS
  <1>1. /\ server' = [phase |-> "down", quick |-> server.quick, wait |-> server.wait,
                      byes |-> server.byes]
        /\ socket' = <<>> /\ UNCHANGED <<age, entry, starts, missed, farewell>>
    BY DEF DiscoveryIInv, DiscoveryTypes, StopEnds
  <1>2. DiscoveryTypes'
    BY <1>1, DiscoveryAssumption DEF DiscoveryIInv, DiscoveryTypes
  <1>3. QED
    BY <1>1, <1>2
    DEF DiscoveryIInv, DiscoveryTypes, StopEnds, WaitBounded, Period, OutlastsThePeriod, GoneAfterByes

LEMMA KilledKeeps == DiscoveryIInv /\ Killed => DiscoveryIInv'
  <1> SUFFICES ASSUME DiscoveryIInv, Killed PROVE DiscoveryIInv'
    OBVIOUS
  <1>1. /\ server' = [phase |-> "down", quick |-> server.quick, wait |-> server.wait,
                      byes |-> server.byes]
        /\ socket' = <<>> /\ UNCHANGED <<age, entry, starts, missed>> /\ farewell' = [p \in Points |-> 3]
    BY DEF DiscoveryIInv, DiscoveryTypes, Killed
  <1>2. DiscoveryTypes'
    BY <1>1, DiscoveryAssumption DEF DiscoveryIInv, DiscoveryTypes
  <1>3. QED
    BY <1>1, <1>2
    DEF DiscoveryIInv, DiscoveryTypes, Killed, WaitBounded, Period, OutlastsThePeriod, GoneAfterByes

LEMMA ArrivesKeeps == DiscoveryIInv /\ Arrives => DiscoveryIInv'
  <1> SUFFICES ASSUME DiscoveryIInv, Arrives PROVE DiscoveryIInv'
    OBVIOUS
  <1>1. socket' \in Seq(Received) /\ Len(socket') <= MaxQueue
    <2>1. PICK p \in Points, d \in Datagrams :
            socket' = Append(socket, [point |-> p, kind |-> d.kind, st |-> d.st])
      BY DEF Arrives
    <2>2. [point |-> p, kind |-> d.kind, st |-> d.st] \in Received
      BY DEF Received
    <2>3. socket \in Seq(Received) /\ Len(socket) < MaxQueue /\ MaxQueue \in Nat
      BY DiscoveryAssumption DEF Arrives, DiscoveryIInv, DiscoveryTypes
    <2>4. QED
      BY <2>1, <2>2, <2>3
  <1>2. DiscoveryTypes'
    BY <1>1 DEF DiscoveryIInv, DiscoveryTypes, Arrives
  <1>3. QED
    BY <1>2
    DEF DiscoveryIInv, Arrives, WaitBounded, Period, OutlastsThePeriod, GoneAfterByes

LEMMA HalfMinuteKeeps == DiscoveryIInv /\ HalfMinute => DiscoveryIInv'
  <1> SUFFICES ASSUME DiscoveryIInv, HalfMinute PROVE DiscoveryIInv'
    OBVIOUS
  <1>1. age \in Nat \ {0} /\ Period \in 0 .. 60
    BY PeriodInAge DEF DiscoveryIInv, DiscoveryTypes
  <1>2. /\ server' \in [phase : {"down", "up", "stopping"}, quick : 0 .. 3, wait : 0 .. 60,
                        byes : 0 .. 3]
        /\ server'.phase = server.phase /\ server.phase # "stopping"
        /\ server'.wait <= server.wait
        /\ server.phase = "up" => server.wait > 0 /\ server'.wait = server.wait - 1
        /\ UNCHANGED <<age, socket, starts, missed, farewell>>
    <2>1. /\ server \in [phase : {"down", "up", "stopping"}, quick : 0 .. 3, wait : 0 .. 60,
                         byes : 0 .. 3]
          /\ server.phase # "stopping" /\ UNCHANGED <<age, socket, starts, missed, farewell>>
      BY DEF HalfMinute, DiscoveryIInv, DiscoveryTypes
    <2>2. CASE server.phase = "up"
      <3>1. server' = [phase |-> "up", quick |-> server.quick, wait |-> server.wait - 1,
                       byes |-> server.byes]
        BY <2>1, <2>2 DEF HalfMinute
      <3>2. server.wait \in 1 .. 60
        BY <2>1, <2>2 DEF HalfMinute
      <3>3. QED
        BY <2>1, <2>2, <3>1, <3>2
    <2>3. CASE server.phase # "up"
      BY <2>1, <2>3 DEF HalfMinute
    <2>4. QED
      BY <2>1, <2>2, <2>3
  <1>3. entry' = [p \in Points |-> IF entry[p] = 0 THEN 0 ELSE entry[p] - 1]
    BY DEF HalfMinute
  <1>4. DiscoveryTypes'
    <2>1. entry' \in [Points -> 0 .. age]
      BY <1>1, <1>3 DEF DiscoveryIInv, DiscoveryTypes
    <2>2. QED
      BY <1>2, <2>1 DEF DiscoveryIInv, DiscoveryTypes
  <1>5. WaitBounded'
    <2>1. Period' = Period
      BY <1>2 DEF Period
    <2>2. server.wait \in 0 .. 60 /\ server'.wait \in 0 .. 60
      BY <1>2 DEF DiscoveryIInv, DiscoveryTypes
    <2>3. QED
      BY <1>1, <1>2, <2>1, <2>2 DEF DiscoveryIInv, WaitBounded
  <1>6. OutlastsThePeriod'
    <2>1. server.wait \in 0 .. 60 /\ \A p \in Points : entry[p] \in 0 .. age
      BY DEF DiscoveryIInv, DiscoveryTypes
    <2>2. QED
      BY <1>1, <1>2, <1>3, <2>1 DEF DiscoveryIInv, OutlastsThePeriod
  <1>7. GoneAfterByes'
    BY <1>2, <1>3 DEF DiscoveryIInv, DiscoveryTypes, GoneAfterByes
  <1>8. QED
    BY <1>4, <1>5, <1>6, <1>7 DEF DiscoveryIInv

LEMMA DiscoveryStutterKeeps == DiscoveryIInv /\ UNCHANGED discoveryVars => DiscoveryIInv'
  BY DEF DiscoveryIInv, DiscoveryTypes, WaitBounded, Period, OutlastsThePeriod, GoneAfterByes, discoveryVars

LEMMA DiscoveryStepKeeps == DiscoveryIInv /\ [DiscoveryNext]_discoveryVars => DiscoveryIInv'
  BY StartsKeeps, AnnouncesKeeps, AnswersKeeps, StopBeginsKeeps, SaysByebyeKeeps, StopEndsKeeps,
     KilledKeeps, ArrivesKeeps, HalfMinuteKeeps, DiscoveryStutterKeeps
  DEF DiscoveryNext, Stops

\* server.rs: whatever datagrams are lost and in whatever order the announcer,
\* the responder and the farewell send, who heard the last announcement knows
\* the server until the next one, and a stopped server is forgotten by
\* everybody who lost at most two of its byebyes.
THEOREM KnownAndForgotten == DiscoverySpec => []DiscoveryInv
  <1>1. DiscoverySpec => []DiscoveryIInv
    BY DiscoveryStart, DiscoveryStepKeeps, PTL DEF DiscoverySpec
  <1>2. QED
    BY <1>1, DiscoveryImplied, PTL

=============================================================================
