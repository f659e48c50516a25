------------------------------ MODULE Sessions ------------------------------
(***************************************************************************)
(* Transcode sessions: rustiio-transcode/src/session.rs and the handler    *)
(* serve_ffmpeg of rustiio-server/src/routes.rs that owns a session for as *)
(* long as the HTTP body lives.                                            *)
(*                                                                         *)
(* One process per HTTP request.  SessionManager::start has no await, but  *)
(* requests run on different threads, so every access to the shared        *)
(* semaphore, counter and map is a step of its own; so is every statement  *)
(* of Drop for Session.                                                    *)
(***************************************************************************)
EXTENDS Naturals, FiniteSets

CONSTANTS
  Requests,        \* HTTP requests for an object that must be transcoded
  MaxConcurrent    \* transcode.max_concurrent of the configuration (a u32)

ASSUME RequestsAssumption == IsFiniteSet(Requests)
ASSUME MaxConcurrentAssumption == MaxConcurrent \in Nat

\* max_concurrent.clamp(1, 16)
Limit ==
  IF MaxConcurrent < 1 THEN 1
  ELSE IF MaxConcurrent > 16 THEN 16 ELSE MaxConcurrent

VARIABLES
  pc,         \* how far each request got
  permits,    \* available permits of the semaphore
  counter,    \* next session id
  sid,        \* the session id of each request, 0 while it has none
  active,     \* the map id -> ActiveStream that /api/streams lists
  child       \* the ffmpeg process of each request

vars == <<pc, permits, counter, sid, active, child>>

Entry(id, r) == [id |-> id, request |-> r]

Init ==
  /\ pc = [r \in Requests |-> "arrived"]
  /\ permits = Limit
  /\ counter = 1
  /\ sid = [r \in Requests |-> 0]
  /\ active = {}
  /\ child = [r \in Requests |-> "none"]

Goto(r, from, to) ==
  /\ pc[r] = from
  /\ pc' = [pc EXCEPT ![r] = to]

-----------------------------------------------------------------------------
(***************************************************************************)
(* SessionManager::start                                                   *)
(***************************************************************************)

\* A HEAD request is answered from the decision alone: no session.
AnswerHead(r) ==
  /\ Goto(r, "arrived", "done")
  /\ UNCHANGED <<permits, counter, sid, active, child>>

\* try_acquire_owned: never waits.
Acquire(r) ==
  /\ Goto(r, "arrived", "admitted")
  /\ permits > 0
  /\ permits' = permits - 1
  /\ UNCHANGED <<counter, sid, active, child>>

RefuseLastSlot(r) ==
  /\ Goto(r, "arrived", "refused")
  /\ permits <= 1
  /\ UNCHANGED <<permits, counter, sid, active, child>>

RefuseLimit(r) ==
  /\ Goto(r, "arrived", "refused")
  /\ permits = 0
  /\ UNCHANGED <<permits, counter, sid, active, child>>

SpawnEncoder(r) ==
  /\ Goto(r, "admitted", "spawned")
  /\ child' = [child EXCEPT ![r] = "running"]
  /\ UNCHANGED <<permits, counter, sid, active>>

SpawnFailsKeepingThePermit(r) ==
  /\ Goto(r, "admitted", "refused")
  /\ UNCHANGED <<permits, counter, sid, active, child>>

\* ffmpeg is missing or the system refuses a process: `?` returns and the
\* permit, a local of start, is dropped with it.
SpawnFails(r) ==
  /\ Goto(r, "admitted", "refused")
  /\ permits' = permits + 1
  /\ UNCHANGED <<counter, sid, active, child>>

CounterNotAdvanced == counter

NextCounter == counter + 1

\* counter.fetch_add(1)
TakeId(r) ==
  /\ Goto(r, "spawned", "numbered")
  /\ sid' = [sid EXCEPT ![r] = counter]
  /\ counter' = NextCounter
  /\ UNCHANGED <<permits, active, child>>

\* active.insert: a second insert of the same id would replace the first.
ListStream(r) ==
  /\ Goto(r, "numbered", "streaming")
  /\ active' = {e \in active : e.id # sid[r]} \union {Entry(sid[r], r)}
  /\ UNCHANGED <<permits, counter, sid, child>>

-----------------------------------------------------------------------------
(***************************************************************************)
(* The HTTP body and Drop for Session                                      *)
(***************************************************************************)

\* The encoder reaches the end of the film, or dies, on its own.
EncoderExits(r) ==
  /\ child[r] = "running"
  /\ child' = [child EXCEPT ![r] = "exited"]
  /\ UNCHANGED <<pc, permits, counter, sid, active>>

\* End of the stream or the client closes the connection: the body, and the
\* session in it, is dropped.
BodyDropped(r) ==
  /\ Goto(r, "streaming", "dropped")
  /\ UNCHANGED <<permits, counter, sid, active, child>>

KillOnlyARunningEncoder(r) ==
  /\ child[r] = "running"
  /\ Goto(r, "dropped", "killed")
  /\ child' = [child EXCEPT ![r] = "killed"]
  /\ UNCHANGED <<permits, counter, sid, active>>

NoKill(r) ==
  /\ Goto(r, "dropped", "killed")
  /\ UNCHANGED <<permits, counter, sid, active, child>>

\* start_kill signals the process if it still runs and never waits for it.
KillEncoder(r) ==
  /\ Goto(r, "dropped", "killed")
  /\ child' = [child EXCEPT ![r] = IF @ = "running" THEN "killed" ELSE @]
  /\ UNCHANGED <<permits, counter, sid, active>>

\* SessionManager::finish
UnlistStream(r) ==
  /\ Goto(r, "killed", "unlisted")
  /\ active' = {e \in active : e.id # sid[r]}
  /\ UNCHANGED <<permits, counter, sid, child>>

ReleaseTwice(r) ==
  /\ Goto(r, "unlisted", "done")
  /\ permits' = permits + 2
  /\ UNCHANGED <<counter, sid, active, child>>

\* permit.take(): the permit is dropped last.
ReleasePermit(r) ==
  /\ Goto(r, "unlisted", "done")
  /\ permits' = permits + 1
  /\ UNCHANGED <<counter, sid, active, child>>

-----------------------------------------------------------------------------
\* The steps the server takes on its own once a request arrived.
ServerStep(r) ==
  \/ AnswerHead(r)
  \/ Acquire(r)
  \/ RefuseLimit(r)
  \/ SpawnEncoder(r)
  \/ SpawnFails(r)
  \/ TakeId(r)
  \/ ListStream(r)
  \/ KillEncoder(r)
  \/ UnlistStream(r)
  \/ ReleasePermit(r)

Next == \E r \in Requests : ServerStep(r) \/ EncoderExits(r) \/ BodyDropped(r)

Spec == Init /\ [][Next]_vars

\* A thread that runs start or a destructor is never parked by the code, so
\* each request's server steps are weakly fair.  Clients and ffmpeg are not.
FairSpec == Spec /\ \A r \in Requests : WF_vars(ServerStep(r))

-----------------------------------------------------------------------------
(***************************************************************************)
(* Properties                                                              *)
(***************************************************************************)

PcValue ==
  {"arrived", "admitted", "spawned", "numbered", "streaming", "dropped",
   "killed", "unlisted", "done", "refused"}

TypeOK ==
  /\ pc \in [Requests -> PcValue]
  /\ permits \in 0 .. Limit
  /\ counter \in Nat \ {0}
  /\ sid \in [Requests -> Nat]
  /\ active \subseteq [id : Nat, request : Requests]
  /\ child \in [Requests -> {"none", "running", "exited", "killed"}]

HoldingPc ==
  {"admitted", "spawned", "numbered", "streaming", "dropped", "killed", "unlisted"}

Holders == {r \in Requests : pc[r] \in HoldingPc}
Encoding == {r \in Requests : child[r] = "running"}
Refused == {r \in Requests : pc[r] = "refused"}

\* No path through start or drop loses or duplicates a permit: what is
\* available plus what requests hold is the configured limit.
SlotsConserved == permits + Cardinality(Holders) = Limit

\* An encoder that has not been told to stop belongs to a request that holds
\* a slot, so at most Limit of them run, whatever order destructors run in.
EncodersWithinLimit ==
  /\ Encoding \subseteq Holders
  /\ Cardinality(Encoding) <= Limit

\* The dashboard lists a stream under an id of its own from its start until
\* its encoder was killed, and nothing else: ids never collide, so no session
\* replaces or removes the entry of another.
ListingExact ==
  active = {Entry(sid[r], r) :
              r \in {q \in Requests : pc[q] \in {"streaming", "dropped", "killed"}}}

\* Once the body is gone the slot comes back, even if ffmpeg died first.
SlotComesBack ==
  \A r \in Requests : pc[r] = "dropped" ~> r \notin Holders

\* The manager implements the slot pool it promises.
Pool == INSTANCE SlotPool WITH
  holders <- Holders,
  encoding <- Encoding,
  refused <- Refused

PoolSpec == Pool!Spec
=============================================================================
