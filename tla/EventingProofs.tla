---------------------------- MODULE EventingProofs ----------------------------
(***************************************************************************)
(* Proofs about Eventing, for any subscriptions, rescans, modulus and      *)
(* bounds: no count of a SEQ is lost, and nobody who still subscribes      *)
(* keeps an old list once every rescan is through.                         *)
(***************************************************************************)
EXTENDS Eventing, FiniteSetTheorems, TLAPS

-----------------------------------------------------------------------------
(* Remainders.                                                             *)

LEMMA SmallRemainder ==
  ASSUME NEW m \in Nat \ {0}, NEW x \in 0 .. m - 1
  PROVE  x % m = x
OBVIOUS

LEMMA NextRemainder ==
  ASSUME NEW m \in Nat \ {0}, NEW x \in 0 .. m - 1
  PROVE  (x + 1) % m = IF x + 1 = m THEN 0 ELSE x + 1
  <1>1. CASE x + 1 = m
    BY <1>1
  <1>2. CASE x + 1 # m
    BY <1>2, SmallRemainder
  <1>3. QED
    BY <1>1, <1>2

LEMMA RemainderOfSum ==
  ASSUME NEW m \in Nat \ {0}, NEW x \in Nat, NEW k \in Nat
  PROVE  (x + m * k) % m = x % m
  <1>1. /\ x \div m \in Nat /\ (x % m) \in 0 .. m - 1
        /\ x = m * (x \div m) + (x % m)
    OBVIOUS
  <1> DEFINE d == x \div m
             r == x % m
  <1> HIDE DEF d, r
  <1>2. d \in Nat /\ r \in 0 .. m - 1 /\ x = m * d + r
    BY <1>1 DEF d, r
  <1>3. x + m * k = m * (d + k) + r
    BY <1>2
  <1>4. (m * (d + k) + r) % m = r
    BY <1>2
  <1>5. QED
    BY <1>3, <1>4 DEF r

-----------------------------------------------------------------------------
(* Types.                                                                  *)

EventServices == {CONTENT_DIRECTORY, CONNECTION_MANAGER}
\* What a notification works through.
Queues == UNION {[S -> Nat] : S \in SUBSET Sids}
Registries == UNION {[S -> [seq : 0 .. SeqModulus - 1, expires : Nat]] : S \in SUBSET Sids}
Tasks == [pc : Pcs, value : 0 .. MaxUpdates, service : EventServices, queue : Queues, sid : SUBSET Sids]
Initials == [pc : {"none", "body", "send", "bump", "failed", "done"}, value : 0 .. MaxUpdates]

Types ==
  /\ now \in 0 .. MaxTime
  /\ updateId \in 1 .. MaxUpdates
  /\ writers = {r \in Rescans : At(r, "lock")}
  /\ updateId + Cardinality(writers) <= MaxUpdates
  /\ registry \in Registries
  /\ initial \in [Sids -> Initials]
  /\ task \in [Rescans -> Tasks]
  /\ heard \in [Sids -> SUBSET (0 .. MaxUpdates)]
  /\ answered \in [Sids -> Nat]
  /\ renewals \in 0 .. MaxRenewals
  /\ lapsed \subseteq Sids

\* A rescan waits for one answer at a time, and for one that is on its list.
OneAnswer ==
  \A r \in Rescans :
    /\ task[r].sid \subseteq DOMAIN task[r].queue
    /\ task[r].sid # {} <=> task[r].pc \in {"bump", "drop"}
    /\ \A s, t \in task[r].sid : s = t

\* A subscription that is not made yet is on no list and was never told.
Unmade ==
  \A s \in Sids :
    initial[s].pc = "none" =>
      s \notin Subscribed /\ answered[s] = 0 /\ \A r \in Rescans : s \notin DOMAIN task[r].queue

LEMMA QueueFacts ==
  /\ << >> \in Queues /\ DOMAIN << >> = {}
  /\ \A q \in Queues : DOMAIN q \subseteq Sids
  /\ \A q \in Queues, s \in Sids :
       /\ Restrict(q, DOMAIN q \ {s}) \in Queues
       /\ DOMAIN Restrict(q, DOMAIN q \ {s}) = DOMAIN q \ {s}
  <1>1. << >> \in [{} -> Nat] /\ DOMAIN << >> = {}
    OBVIOUS
  <1>2. << >> \in Queues
    BY <1>1 DEF Queues
  <1>3. ASSUME NEW q \in Queues
        PROVE  DOMAIN q \subseteq Sids /\ q \in [DOMAIN q -> Nat]
    BY DEF Queues
  <1>4. ASSUME NEW q \in Queues, NEW s \in Sids
        PROVE  /\ Restrict(q, DOMAIN q \ {s}) \in Queues
               /\ DOMAIN Restrict(q, DOMAIN q \ {s}) = DOMAIN q \ {s}
    <2> DEFINE S == DOMAIN q \ {s}
    <2>1. S \in SUBSET Sids /\ Restrict(q, S) \in [S -> Nat] /\ DOMAIN Restrict(q, S) = S
      BY <1>3 DEF Restrict
    <2>2. QED
      BY <2>1 DEF Queues
  <1>5. QED
    BY <1>1, <1>2, <1>3, <1>4

LEMMA RegistryFacts ==
  ASSUME NEW g \in Registries
  PROVE  /\ DOMAIN g \subseteq Sids
         /\ \A s \in DOMAIN g : g[s] \in [seq : 0 .. SeqModulus - 1, expires : Nat]
         /\ g \in [DOMAIN g -> [seq : 0 .. SeqModulus - 1, expires : Nat]]
BY DEF Registries

LEMMA RegistryIntro ==
  ASSUME NEW S \in SUBSET Sids, NEW g \in [S -> [seq : 0 .. SeqModulus - 1, expires : Nat]]
  PROVE  g \in Registries /\ DOMAIN g = S
BY DEF Registries

\* list: for each subscription of the service that is not over.
LEMMA ListedFacts ==
  ASSUME registry \in Registries, NEW service
  PROVE  /\ Listed(service) \in Queues
         /\ DOMAIN Listed(service) = {t \in Subscribed : ServiceOf[t] = service /\ ~Expired(t)}
  <1> DEFINE S == {t \in Subscribed : ServiceOf[t] = service /\ ~Expired(t)}
  <1>1. S \in SUBSET Sids /\ \A t \in S : registry[t].seq \in Nat
    BY RegistryFacts, EventingAssumption DEF Subscribed
  <1>2. Listed(service) \in [S -> Nat] /\ DOMAIN Listed(service) = S
    BY <1>1 DEF Listed
  <1>3. QED
    BY <1>1, <1>2 DEF Queues

\* A rescan begins with the ContentDirectory.
StartsWithCd ==
  \A r \in Rescans : task[r].pc \in {"idle", "lock"} => task[r].service = CONTENT_DIRECTORY

Structure == Types /\ OneAnswer /\ Unmade /\ StartsWithCd

LEMMA StructureStart == Init => Structure
  <1> SUFFICES ASSUME Init PROVE Structure
    OBVIOUS
  <1> USE EventingAssumption DEF Init
  <1>1. Idle \in Tasks /\ NotMade \in Initials
    BY QueueFacts DEF Idle, Tasks, Pcs, EventServices, NotMade, Initials
  <1>2. registry \in Registries /\ Subscribed = {}
    <2>1. << >> \in [{} -> [seq : 0 .. SeqModulus - 1, expires : Nat]]
      OBVIOUS
    <2>2. QED
      BY <2>1, RegistryIntro DEF Subscribed
  <1>3. writers = {r \in Rescans : At(r, "lock")}
    BY DEF At, Idle
  <1>4. Types
    BY <1>1, <1>2, <1>3, FS_EmptySet DEF Types
  <1>5. OneAnswer /\ StartsWithCd
    BY DEF OneAnswer, StartsWithCd, Idle
  <1>6. Unmade
    BY <1>2, QueueFacts DEF Unmade, Idle
  <1>7. QED
    BY <1>4, <1>5, <1>6 DEF Structure

\* Writers are those at the lock, whoever moves elsewhere.
LEMMA WritersFrame ==
  ASSUME Types, UNCHANGED <<writers, updateId>>,
         \A r \in Rescans : At(r, "lock") <=> At(r, "lock")'
  PROVE  /\ writers' = {r \in Rescans : At(r, "lock")}'
         /\ updateId' + Cardinality(writers') <= MaxUpdates
BY DEF Types

LEMMA TickStructure == Structure /\ Tick => Structure'
  <1> SUFFICES ASSUME Structure, Tick PROVE Structure'
    OBVIOUS
  <1>1. /\ now' = now + 1 /\ now < MaxTime
        /\ UNCHANGED <<updateId, writers, registry, initial, task, heard, answered, renewals>>
        /\ lapsed' \subseteq lapsed \union Subscribed
    BY DEF Tick
  <1>2. Subscribed \subseteq Sids /\ Subscribed' = Subscribed
    BY <1>1, RegistryFacts DEF Structure, Types, Subscribed
  <1>3. Types'
    BY <1>1, <1>2, EventingAssumption, WritersFrame DEF Structure, Types, At
  <1>4. OneAnswer' /\ Unmade' /\ StartsWithCd'
    BY <1>1, <1>2 DEF Structure, OneAnswer, Unmade, StartsWithCd
  <1>5. QED
    BY <1>3, <1>4 DEF Structure

LEMMA SubscribeStructure == \A s \in Sids : Structure /\ Subscribe(s) => Structure'
  <1> SUFFICES ASSUME NEW s \in Sids, Structure, Subscribe(s) PROVE Structure'
    OBVIOUS
  <1>1. /\ initial[s].pc = "none"
        /\ registry' = [t \in Subscribed \union {s} |->
                          IF t = s THEN [seq |-> 0, expires |-> now + 1] ELSE registry[t]]
        /\ initial' = [initial EXCEPT ![s].pc = "body"]
        /\ UNCHANGED <<now, updateId, writers, task, heard, answered, renewals, lapsed>>
    BY DEF Subscribe
  <1>2. registry' \in Registries /\ Subscribed' = Subscribed \union {s}
    <2>1. /\ Subscribed \union {s} \in SUBSET Sids
          /\ \A t \in Subscribed : registry[t] \in [seq : 0 .. SeqModulus - 1, expires : Nat]
          /\ now + 1 \in Nat /\ 0 \in 0 .. SeqModulus - 1
      BY RegistryFacts, EventingAssumption DEF Structure, Types, Subscribed
    <2>2. registry' \in [Subscribed \union {s} -> [seq : 0 .. SeqModulus - 1, expires : Nat]]
      BY <1>1, <2>1
    <2>3. QED
      BY <2>1, <2>2, RegistryIntro DEF Subscribed
  <1>3. /\ initial' \in [Sids -> Initials] /\ initial'[s].pc = "body"
        /\ \A t \in Sids \ {s} : initial'[t] = initial[t]
    BY <1>1 DEF Structure, Types, Initials
  <1>4. Types'
    BY <1>1, <1>2, <1>3, WritersFrame DEF Structure, Types, At
  <1>5. OneAnswer' /\ StartsWithCd'
    BY <1>1 DEF Structure, OneAnswer, StartsWithCd
  <1>6. Unmade'
    BY <1>1, <1>2, <1>3 DEF Structure, Unmade
  <1>7. QED
    BY <1>4, <1>5, <1>6 DEF Structure

\* Only the registry changes, and nothing is added to it.
LEMMA RegistryStructure ==
  ASSUME Structure, registry' \in Registries, Subscribed' \subseteq Subscribed, renewals' \in 0 .. MaxRenewals,
         UNCHANGED <<now, updateId, writers, initial, task, heard, answered, lapsed>>
  PROVE  Structure'
  <1>1. Types'
    BY WritersFrame DEF Structure, Types, At
  <1>2. OneAnswer' /\ StartsWithCd'
    BY DEF Structure, OneAnswer, StartsWithCd
  <1>3. Unmade'
    BY DEF Structure, Unmade
  <1>4. QED
    BY <1>1, <1>2, <1>3 DEF Structure

\* What the operations of the registry leave of it.
LEMMA RemoveFacts ==
  ASSUME registry \in Registries, NEW S, S \subseteq Subscribed, registry' = Restrict(registry, S)
  PROVE  /\ registry' \in Registries /\ Subscribed' = S
         /\ \A t \in S : registry'[t] = registry[t]
  <1>1. /\ S \in SUBSET Sids
        /\ \A t \in S : registry[t] \in [seq : 0 .. SeqModulus - 1, expires : Nat]
    BY RegistryFacts DEF Subscribed
  <1>2. registry' = [t \in S |-> registry[t]]
    BY DEF Restrict
  <1>3. registry' \in [S -> [seq : 0 .. SeqModulus - 1, expires : Nat]]
    BY <1>1, <1>2
  <1>4. QED
    BY <1>1, <1>2, <1>3, RegistryIntro DEF Subscribed

LEMMA BumpFacts ==
  ASSUME registry \in Registries, NEW s \in Sids, NEW sent, BumpSeq(s, sent)
  PROVE  /\ registry' \in Registries /\ Subscribed' = Subscribed
         /\ \A t \in Subscribed : registry'[t].expires = registry[t].expires
         /\ \A t \in Subscribed \ {s} : registry'[t].seq = registry[t].seq
         /\ s \in Subscribed => registry'[s].seq = (registry[s].seq + 1) % SeqModulus
  <1>1. CASE s \notin Subscribed
    BY <1>1 DEF BumpSeq, Subscribed
  <1>2. CASE s \in Subscribed
    <2>1. registry \in [Subscribed -> [seq : 0 .. SeqModulus - 1, expires : Nat]] /\ Subscribed \in SUBSET Sids
      BY RegistryFacts DEF Subscribed
    <2>2. registry' = [registry EXCEPT ![s].seq = (registry[s].seq + 1) % SeqModulus]
      BY <1>2 DEF BumpSeq
    <2>3. (registry[s].seq + 1) % SeqModulus \in 0 .. SeqModulus - 1
      <3>1. registry[s].seq \in Nat
        BY <1>2, <2>1, EventingAssumption
      <3>2. QED
        BY <3>1, EventingAssumption
    <2>4. registry' \in [Subscribed -> [seq : 0 .. SeqModulus - 1, expires : Nat]]
      BY <2>1, <2>2, <2>3
    <2>5. registry' \in Registries /\ Subscribed' = Subscribed
      BY <2>1, <2>4, RegistryIntro DEF Subscribed
    <2>6. QED
      BY <1>2, <2>1, <2>2, <2>5
  <1>3. QED
    BY <1>1, <1>2

LEMMA RenewStructure == \A s \in Sids : Structure /\ Renew(s) => Structure'
  <1> SUFFICES ASSUME NEW s \in Sids, Structure, Renew(s) PROVE Structure'
    OBVIOUS
  <1>1. /\ registry' = [registry EXCEPT ![s].expires = now + 1]
        /\ renewals' = renewals + 1 /\ renewals < MaxRenewals
        /\ UNCHANGED <<now, updateId, writers, initial, task, heard, answered, lapsed>>
    BY DEF Renew
  <1>2. registry \in [Subscribed -> [seq : 0 .. SeqModulus - 1, expires : Nat]] /\ Subscribed \in SUBSET Sids
    BY RegistryFacts DEF Structure, Types, Subscribed
  <1>3. now + 1 \in Nat /\ renewals' \in 0 .. MaxRenewals
    BY <1>1, EventingAssumption DEF Structure, Types
  <1>4. registry' \in [Subscribed -> [seq : 0 .. SeqModulus - 1, expires : Nat]]
    BY <1>1, <1>2, <1>3
  <1>5. registry' \in Registries /\ Subscribed' = Subscribed
    BY <1>2, <1>4, RegistryIntro DEF Subscribed
  <1>6. QED
    BY <1>1, <1>3, <1>5, RegistryStructure

LEMMA UnsubscribeStructure == \A s \in Sids : Structure /\ Unsubscribe(s) => Structure'
  <1> SUFFICES ASSUME NEW s \in Sids, Structure, Unsubscribe(s) PROVE Structure'
    OBVIOUS
  <1>1. /\ registry' = Restrict(registry, Subscribed \ {s})
        /\ UNCHANGED <<now, updateId, writers, initial, task, heard, answered, renewals, lapsed>>
    BY DEF Unsubscribe, Remove
  <1>2. registry \in Registries /\ Subscribed \ {s} \subseteq Subscribed
    BY DEF Structure, Types
  <1>3. registry' \in Registries /\ Subscribed' = Subscribed \ {s}
    BY <1>1, <1>2, RemoveFacts
  <1>4. QED
    BY <1>1, <1>2, <1>3, RegistryStructure DEF Structure, Types

LEMMA InitialStructure ==
  ASSUME Structure, NEW s \in Sids, initial' \in [Sids -> Initials], initial[s].pc # "none",
         \A t \in Sids : t # s => initial'[t] = initial[t] /\ answered'[t] = answered[t],
         initial'[s].pc # "none",
         heard' \in [Sids -> SUBSET (0 .. MaxUpdates)], answered' \in [Sids -> Nat],
         registry' \in Registries, Subscribed' = Subscribed,
         UNCHANGED <<now, updateId, writers, task, renewals, lapsed>>
  PROVE  Structure'
  <1>1. Types'
    BY WritersFrame DEF Structure, Types, At
  <1>2. OneAnswer' /\ StartsWithCd'
    BY DEF Structure, OneAnswer, StartsWithCd
  <1>3. Unmade'
    BY DEF Structure, Unmade
  <1>4. QED
    BY <1>1, <1>2, <1>3 DEF Structure

\* What answers leave of what was heard and counted.
LEMMA AnsweredFacts ==
  ASSUME Structure, NEW s \in Sids, NEW value \in 0 .. MaxUpdates, Answered(s, value)
  PROVE  /\ heard' \in [Sids -> SUBSET (0 .. MaxUpdates)] /\ answered' \in [Sids -> Nat]
         /\ \A t \in Sids : heard[t] \subseteq heard'[t]
         /\ value \in heard'[s] /\ answered'[s] = answered[s] + 1
         /\ \A t \in Sids : t # s => answered'[t] = answered[t]
BY DEF Answered, Structure, Types

LEMMA NotAnsweredFacts ==
  ASSUME Structure, NEW s \in Sids, NEW value \in 0 .. MaxUpdates, NotAnswered(s, value)
  PROVE  /\ heard' \in [Sids -> SUBSET (0 .. MaxUpdates)] /\ answered' = answered
         /\ \A t \in Sids : heard[t] \subseteq heard'[t]
BY DEF NotAnswered, Structure, Types

LEMMA InitialBodyFacts ==
  ASSUME Structure, NEW s \in Sids, InitialBody(s)
  PROVE  /\ initial[s].pc = "body" /\ initial'[s] = [pc |-> "send", value |-> ReadUpdateId]
         /\ initial' \in [Sids -> Initials]
         /\ \A t \in Sids : t # s => initial'[t] = initial[t]
         /\ UNCHANGED <<now, updateId, writers, registry, task, heard, answered, renewals, lapsed>>
  <1>1. ReadUpdateId \in 0 .. MaxUpdates
    BY EventingAssumption DEF Structure, Types, ReadUpdateId
  <1>2. QED
    BY <1>1 DEF InitialBody, Structure, Types, Initials

LEMMA InitialNotifyFacts ==
  ASSUME Structure, NEW s \in Sids, InitialNotify(s)
  PROVE  /\ initial[s].pc = "send" /\ initial' \in [Sids -> Initials]
         /\ \A t \in Sids : t # s => initial'[t] = initial[t]
         /\ initial'[s].value = initial[s].value
         /\ \/ initial'[s].pc = "bump" /\ Answered(s, initial[s].value)
            \/ initial'[s].pc = "failed" /\ NotAnswered(s, initial[s].value)
         /\ UNCHANGED <<now, updateId, writers, registry, task, renewals, lapsed>>
BY DEF InitialNotify, Structure, Types, Initials

LEMMA InitialBumpFacts ==
  ASSUME Structure, NEW s \in Sids, InitialBump(s)
  PROVE  /\ initial[s].pc = "bump" /\ initial' \in [Sids -> Initials]
         /\ \A t \in Sids : t # s => initial'[t] = initial[t]
         /\ initial'[s].pc = "done" /\ BumpSeq(s, 0)
         /\ UNCHANGED <<now, updateId, writers, task, heard, answered, renewals, lapsed>>
BY DEF InitialBump, Structure, Types, Initials

LEMMA InitialStepStructure == \A s \in Sids : Structure /\ InitialStep(s) => Structure'
  <1> SUFFICES ASSUME NEW s \in Sids, Structure, InitialStep(s) PROVE Structure'
    OBVIOUS
  <1>1. CASE InitialBody(s)
    <2>1. Subscribed' = Subscribed
      BY <1>1, InitialBodyFacts DEF Subscribed
    <2>2. QED
      BY <1>1, <2>1, InitialBodyFacts, InitialStructure DEF Structure, Types
  <1>2. CASE InitialNotify(s)
    <2>1. initial[s].value \in 0 .. MaxUpdates
      BY DEF Structure, Types, Initials
    <2>2. /\ heard' \in [Sids -> SUBSET (0 .. MaxUpdates)] /\ answered' \in [Sids -> Nat]
          /\ \A t \in Sids : t # s => answered'[t] = answered[t]
      <3>1. CASE Answered(s, initial[s].value)
        BY <2>1, <3>1, AnsweredFacts
      <3>2. CASE NotAnswered(s, initial[s].value)
        BY <2>1, <3>2, NotAnsweredFacts DEF Structure, Types
      <3>3. QED
        BY <1>2, <3>1, <3>2, InitialNotifyFacts
    <2>3. Subscribed' = Subscribed
      BY <1>2, InitialNotifyFacts DEF Subscribed
    <2>4. QED
      BY <1>2, <2>2, <2>3, InitialNotifyFacts, InitialStructure DEF Structure, Types
  <1>3. CASE InitialBump(s)
    <2>1. registry' \in Registries /\ Subscribed' = Subscribed
      BY <1>3, InitialBumpFacts, BumpFacts DEF Structure, Types
    <2>2. QED
      BY <1>3, <2>1, InitialBumpFacts, InitialStructure DEF Structure, Types
  <1>4. QED
    BY <1>1, <1>2, <1>3 DEF InitialStep

\* A step of one rescan.
LEMMA TaskStructure ==
  ASSUME Structure, NEW r \in Rescans, task' \in [Rescans -> Tasks],
         \A q \in Rescans : q # r => task'[q] = task[q],
         updateId' \in 1 .. MaxUpdates,
         writers' = {q \in Rescans : At(q, "lock")}',
         updateId' + Cardinality(writers') <= MaxUpdates,
         registry' \in Registries, Subscribed' \subseteq Subscribed,
         heard' \in [Sids -> SUBSET (0 .. MaxUpdates)], answered' \in [Sids -> Nat],
         \A s \in Sids : initial[s].pc = "none" => answered'[s] = answered[s],
         task'[r].sid \subseteq DOMAIN task'[r].queue,
         task'[r].sid # {} <=> task'[r].pc \in {"bump", "drop"},
         \A s, t \in task'[r].sid : s = t,
         DOMAIN task'[r].queue \subseteq DOMAIN task[r].queue \union Subscribed,
         task'[r].pc \in {"idle", "lock"} => task'[r].service = CONTENT_DIRECTORY,
         UNCHANGED <<now, initial, renewals, lapsed>>
  PROVE  Structure'
  <1>1. Types'
    BY DEF Structure, Types
  <1>2. OneAnswer'
    BY DEF Structure, OneAnswer
  <1>3. StartsWithCd'
    BY DEF Structure, StartsWithCd
  <1>4. Unmade'
    BY DEF Structure, Unmade
  <1>5. QED
    BY <1>1, <1>2, <1>3, <1>4 DEF Structure

-----------------------------------------------------------------------------
(* What each step of a rescan does.                                        *)

\* The task of r becomes x.
Becomes(r, x) ==
  /\ x \in Tasks /\ task' \in [Rescans -> Tasks] /\ task'[r] = x
  /\ \A q \in Rescans : q # r => task'[q] = task[q]

LEMMA BecomesIntro ==
  ASSUME Structure, NEW r \in Rescans, NEW x \in Tasks, task' = [task EXCEPT ![r] = x]
  PROVE  Becomes(r, x)
BY DEF Becomes, Structure, Types

LEMMA TaskType ==
  ASSUME Structure, NEW r \in Rescans
  PROVE  /\ task[r] \in Tasks
         /\ task[r].pc \in Pcs /\ task[r].value \in 0 .. MaxUpdates /\ task[r].service \in EventServices
         /\ task[r].queue \in Queues /\ task[r].sid \in SUBSET Sids
         /\ DOMAIN task[r].queue \subseteq Sids
  <1>1. task[r] \in Tasks
    BY DEF Structure, Types
  <1>2. QED
    BY <1>1, QueueFacts DEF Tasks

LEMMA AwaitFacts ==
  ASSUME Structure, NEW r \in Rescans, AwaitWriteLock(r)
  PROVE  /\ task[r].pc = "idle" /\ Becomes(r, [task[r] EXCEPT !.pc = "lock"])
         /\ updateId + Cardinality(writers) < MaxUpdates /\ writers' = writers \union {r}
         /\ UNCHANGED <<now, updateId, registry, initial, heard, answered, renewals, lapsed>>
  <1>1. [task[r] EXCEPT !.pc = "lock"] \in Tasks
    BY TaskType DEF Tasks, Pcs
  <1>2. task' = [task EXCEPT ![r] = [task[r] EXCEPT !.pc = "lock"]]
    BY DEF AwaitWriteLock
  <1>3. QED
    BY <1>1, <1>2, BecomesIntro DEF AwaitWriteLock, At

LEMMA PublishFacts ==
  ASSUME Structure, NEW r \in Rescans, PublishCatalog(r)
  PROVE  /\ task[r].pc = "lock"
         /\ Becomes(r, [task[r] EXCEPT !.pc = "list", !.value = updateId + 1])
         /\ updateId' = updateId + 1 /\ updateId' \in 1 .. MaxUpdates
         /\ updateId' + Cardinality(writers') <= MaxUpdates
         /\ r \in writers /\ writers' = writers \ {r}
         /\ UNCHANGED <<now, registry, initial, heard, answered, renewals, lapsed>>
  <1>1. /\ task[r].pc = "lock" /\ writers' = writers \ {r}
        /\ updateId' = IF updateId + 1 > 1 THEN updateId + 1 ELSE 1
        /\ task' = [task EXCEPT ![r] = [task[r] EXCEPT !.pc = "list", !.value = updateId']]
        /\ UNCHANGED <<now, registry, initial, heard, answered, renewals, lapsed>>
    BY DEF PublishCatalog, At
  <1>2. /\ updateId \in 1 .. MaxUpdates /\ updateId + Cardinality(writers) <= MaxUpdates
        /\ writers = {q \in Rescans : At(q, "lock")} /\ IsFiniteSet(Rescans) /\ MaxUpdates \in Nat
    BY EventingAssumption DEF Structure, Types
  <1>3. r \in writers /\ IsFiniteSet(writers)
    BY <1>1, <1>2, FS_Subset DEF At
  <1>4. Cardinality(writers') = Cardinality(writers) - 1 /\ Cardinality(writers) \in Nat
        /\ Cardinality(writers') \in Nat
    BY <1>1, <1>3, FS_RemoveElement, FS_CardinalityType
  <1>5. updateId' = updateId + 1 /\ updateId' \in 1 .. MaxUpdates
        /\ updateId' + Cardinality(writers') <= MaxUpdates
    BY <1>1, <1>2, <1>4
  <1>6. [task[r] EXCEPT !.pc = "list", !.value = updateId + 1] \in Tasks
    <2>1. updateId + 1 \in 0 .. MaxUpdates
      BY <1>2, <1>5
    <2>2. task[r] \in Tasks /\ "list" \in Pcs
      BY TaskType DEF Pcs
    <2>3. QED
      BY <2>1, <2>2 DEF Tasks
  <1>7. QED
    BY <1>1, <1>3, <1>5, <1>6, BecomesIntro

LEMMA ListFacts ==
  ASSUME Structure, NEW r \in Rescans, ListService(r)
  PROVE  /\ task[r].pc = "list"
         /\ Becomes(r, [task[r] EXCEPT !.pc = "send", !.queue = Listed(task[r].service)])
         /\ UNCHANGED <<now, updateId, writers, registry, initial, heard, answered, renewals, lapsed>>
  <1>1. Listed(task[r].service) \in Queues
    BY ListedFacts DEF Structure, Types
  <1>2. [task[r] EXCEPT !.pc = "send", !.queue = Listed(task[r].service)] \in Tasks
    BY <1>1, TaskType DEF Tasks, Pcs
  <1>3. task' = [task EXCEPT ![r] = [task[r] EXCEPT !.pc = "send", !.queue = Listed(task[r].service)]]
    BY DEF ListService
  <1>4. QED
    BY <1>2, <1>3, BecomesIntro DEF ListService, At

LEMMA EventValueType ==
  ASSUME Structure, NEW r \in Rescans
  PROVE  EventValue(r) \in 0 .. MaxUpdates
BY TaskType, EventingAssumption DEF EventValue

LEMMA NotifyFacts ==
  ASSUME Structure, NEW r \in Rescans, Notify(r)
  PROVE  /\ task[r].pc = "send"
         /\ UNCHANGED <<now, updateId, writers, registry, initial, renewals, lapsed>>
         /\ \E s \in DOMAIN task[r].queue :
              /\ s \in Sids
              /\ \/ Answered(s, EventValue(r)) /\ Becomes(r, [task[r] EXCEPT !.pc = "bump", !.sid = {s}])
                 \/ NotAnswered(s, EventValue(r)) /\ Becomes(r, [task[r] EXCEPT !.pc = "drop", !.sid = {s}])
  <1>1. ASSUME NEW s \in Sids
        PROVE  /\ [task[r] EXCEPT !.pc = "bump", !.sid = {s}] \in Tasks
               /\ [task[r] EXCEPT !.pc = "drop", !.sid = {s}] \in Tasks
    BY TaskType DEF Tasks, Pcs
  <1>2. PICK s \in DOMAIN task[r].queue :
          \/ /\ Answered(s, EventValue(r))
             /\ task' = [task EXCEPT ![r] = [task[r] EXCEPT !.pc = "bump", !.sid = {s}]]
          \/ /\ NotAnswered(s, EventValue(r))
             /\ task' = [task EXCEPT ![r] = [task[r] EXCEPT !.pc = "drop", !.sid = {s}]]
    BY DEF Notify
  <1>3. s \in Sids
    BY TaskType
  <1>4. \/ Answered(s, EventValue(r)) /\ Becomes(r, [task[r] EXCEPT !.pc = "bump", !.sid = {s}])
        \/ NotAnswered(s, EventValue(r)) /\ Becomes(r, [task[r] EXCEPT !.pc = "drop", !.sid = {s}])
    BY <1>1, <1>2, <1>3, BecomesIntro
  <1>5. QED
    BY <1>3, <1>4 DEF Notify, At

\* r has its answer about s and leaves s behind.
LEMMA ServedFacts ==
  ASSUME Structure, NEW r \in Rescans, NEW s \in Sids, Served(r, s)
  PROVE  Becomes(r, [task[r] EXCEPT !.pc = "send", !.sid = {},
                                    !.queue = Restrict(task[r].queue, DOMAIN task[r].queue \ {s})])
  <1>1. Restrict(task[r].queue, DOMAIN task[r].queue \ {s}) \in Queues
    BY TaskType, QueueFacts
  <1>2. [task[r] EXCEPT !.pc = "send", !.sid = {},
                        !.queue = Restrict(task[r].queue, DOMAIN task[r].queue \ {s})] \in Tasks
    BY <1>1, TaskType DEF Tasks, Pcs
  <1>3. task' = [task EXCEPT ![r] = [task[r] EXCEPT !.pc = "send", !.sid = {},
                        !.queue = Restrict(task[r].queue, DOMAIN task[r].queue \ {s})]]
    BY DEF Served
  <1>4. QED
    BY <1>2, <1>3, BecomesIntro

LEMMA NextServiceFacts ==
  ASSUME Structure, NEW r \in Rescans, NextService(r)
  PROVE  /\ task[r].pc = "send" /\ DOMAIN task[r].queue = {}
         /\ UNCHANGED <<now, updateId, writers, registry, initial, heard, answered, renewals, lapsed>>
         /\ \/ /\ task[r].service = CONTENT_DIRECTORY
               /\ Becomes(r, [task[r] EXCEPT !.pc = "list", !.service = CONNECTION_MANAGER])
            \/ Becomes(r, [task[r] EXCEPT !.pc = "purge"])
  <1>1. /\ [task[r] EXCEPT !.pc = "list", !.service = CONNECTION_MANAGER] \in Tasks
        /\ [task[r] EXCEPT !.pc = "purge"] \in Tasks
    BY TaskType DEF Tasks, Pcs, EventServices
  <1>2. CASE task[r].service = CONTENT_DIRECTORY
    <2>1. task' = [task EXCEPT ![r] = [task[r] EXCEPT !.pc = "list", !.service = CONNECTION_MANAGER]]
      BY <1>2 DEF NextService
    <2>2. QED
      BY <1>1, <1>2, <2>1, BecomesIntro, QueueFacts DEF NextService, At
  <1>3. CASE task[r].service # CONTENT_DIRECTORY
    <2>1. task' = [task EXCEPT ![r] = [task[r] EXCEPT !.pc = "purge"]]
      BY <1>3 DEF NextService
    <2>2. QED
      BY <1>1, <2>1, BecomesIntro, QueueFacts DEF NextService, At
  <1>4. QED
    BY <1>2, <1>3

LEMMA PurgeFacts ==
  ASSUME Structure, NEW r \in Rescans, PurgeExpired(r)
  PROVE  /\ task[r].pc = "purge" /\ Becomes(r, Idle)
         /\ registry' \in Registries /\ Subscribed' = {s \in Subscribed : ~Expired(s)}
         /\ \A s \in Subscribed' : registry'[s] = registry[s]
         /\ UNCHANGED <<now, updateId, writers, initial, heard, answered, renewals, lapsed>>
  <1>1. Idle \in Tasks
    BY QueueFacts, EventingAssumption DEF Idle, Tasks, Pcs, EventServices
  <1>2. registry \in Registries /\ {s \in Subscribed : ~Expired(s)} \subseteq Subscribed
    BY DEF Structure, Types
  <1>3. registry' = Restrict(registry, {s \in Subscribed : ~Expired(s)})
    BY DEF PurgeExpired
  <1>4. /\ registry' \in Registries /\ Subscribed' = {s \in Subscribed : ~Expired(s)}
        /\ \A s \in {t \in Subscribed : ~Expired(t)} : registry'[s] = registry[s]
    BY <1>2, <1>3, RemoveFacts
  <1>5. QED
    BY <1>1, <1>4, BecomesIntro DEF PurgeExpired, At

LEMMA BecomesFields ==
  ASSUME Structure, NEW r \in Rescans, NEW x \in Tasks, Becomes(r, x)
  PROVE  \A q \in Rescans, pc \in Pcs : At(q, pc)' <=> IF q = r THEN x.pc = pc ELSE At(q, pc)
BY DEF Becomes, At

\* A step of r that changes nothing but its own progress and the registry.
LEMMA OwnStructure ==
  ASSUME Structure, NEW r \in Rescans, NEW x, Becomes(r, x),
         task[r].pc # "lock", x.pc # "lock",
         registry' \in Registries, Subscribed' \subseteq Subscribed,
         heard' \in [Sids -> SUBSET (0 .. MaxUpdates)], answered' \in [Sids -> Nat],
         \A s \in Sids : initial[s].pc = "none" => answered'[s] = answered[s],
         x.sid \subseteq DOMAIN x.queue, x.sid # {} <=> x.pc \in {"bump", "drop"},
         \A s, t \in x.sid : s = t,
         DOMAIN x.queue \subseteq DOMAIN task[r].queue \union Subscribed,
         x.pc = "idle" => x.service = CONTENT_DIRECTORY,
         UNCHANGED <<now, updateId, writers, initial, renewals, lapsed>>
  PROVE  Structure'
  <1>1. \A q \in Rescans : At(q, "lock") <=> At(q, "lock")'
    BY DEF Becomes, At
  <1>2. /\ writers' = {q \in Rescans : At(q, "lock")}'
        /\ updateId' + Cardinality(writers') <= MaxUpdates
    BY <1>1, WritersFrame DEF Structure
  <1>3. updateId' \in 1 .. MaxUpdates
    BY DEF Structure, Types
  <1>4. QED
    BY <1>2, <1>3, TaskStructure DEF Becomes

LEMMA AwaitStructure == \A r \in Rescans : Structure /\ AwaitWriteLock(r) => Structure'
  <1> SUFFICES ASSUME NEW r \in Rescans, Structure, AwaitWriteLock(r) PROVE Structure'
    OBVIOUS
  <1> DEFINE x == [task[r] EXCEPT !.pc = "lock"]
  <1>1. /\ task[r].pc = "idle" /\ Becomes(r, x)
        /\ updateId + Cardinality(writers) < MaxUpdates /\ writers' = writers \union {r}
        /\ UNCHANGED <<now, updateId, registry, initial, heard, answered, renewals, lapsed>>
    BY AwaitFacts
  <1>2. /\ x.pc = "lock" /\ x.sid = task[r].sid /\ x.queue = task[r].queue
        /\ x.service = CONTENT_DIRECTORY /\ x.sid = {}
    BY <1>1, TaskType DEF Tasks, Structure, StartsWithCd, OneAnswer
  <1>3. writers' = {q \in Rescans : At(q, "lock")}'
    BY <1>1, <1>2 DEF Structure, Types, At, Becomes
  <1>4. updateId' + Cardinality(writers') <= MaxUpdates /\ updateId' \in 1 .. MaxUpdates
    <2>1. /\ r \notin writers /\ IsFiniteSet(writers) /\ updateId \in 1 .. MaxUpdates
          /\ writers \subseteq Rescans /\ MaxUpdates \in Nat
      BY <1>1, FS_Subset, EventingAssumption DEF Structure, Types, At
    <2>2. Cardinality(writers') = Cardinality(writers) + 1 /\ Cardinality(writers) \in Nat
      BY <1>1, <2>1, FS_AddElement, FS_CardinalityType
    <2>3. QED
      BY <1>1, <2>1, <2>2
  <1>5. /\ registry' \in Registries /\ Subscribed' \subseteq Subscribed
        /\ heard' \in [Sids -> SUBSET (0 .. MaxUpdates)] /\ answered' \in [Sids -> Nat]
    BY <1>1 DEF Structure, Types, Subscribed
  <1> HIDE DEF x
  <1>6. QED
    BY <1>1, <1>2, <1>3, <1>4, <1>5, TaskStructure DEF Becomes

LEMMA PublishStructure == \A r \in Rescans : Structure /\ PublishCatalog(r) => Structure'
  <1> SUFFICES ASSUME NEW r \in Rescans, Structure, PublishCatalog(r) PROVE Structure'
    OBVIOUS
  <1> DEFINE x == [task[r] EXCEPT !.pc = "list", !.value = updateId + 1]
  <1>1. /\ task[r].pc = "lock" /\ Becomes(r, x)
        /\ updateId' \in 1 .. MaxUpdates
        /\ updateId' + Cardinality(writers') <= MaxUpdates /\ writers' = writers \ {r}
        /\ UNCHANGED <<now, registry, initial, heard, answered, renewals, lapsed>>
    BY PublishFacts
  <1>2. x.pc = "list" /\ x.queue = task[r].queue /\ x.sid = task[r].sid /\ x.sid = {}
    BY <1>1, TaskType DEF Tasks, Structure, OneAnswer
  <1>3. writers' = {q \in Rescans : At(q, "lock")}'
    BY <1>1, <1>2 DEF Structure, Types, At, Becomes
  <1>4. /\ registry' \in Registries /\ Subscribed' \subseteq Subscribed
        /\ heard' \in [Sids -> SUBSET (0 .. MaxUpdates)] /\ answered' \in [Sids -> Nat]
    BY <1>1 DEF Structure, Types, Subscribed
  <1> HIDE DEF x
  <1>5. QED
    BY <1>1, <1>2, <1>3, <1>4, TaskStructure DEF Becomes

LEMMA ListStructure == \A r \in Rescans : Structure /\ ListService(r) => Structure'
  <1> SUFFICES ASSUME NEW r \in Rescans, Structure, ListService(r) PROVE Structure'
    OBVIOUS
  <1> DEFINE x == [task[r] EXCEPT !.pc = "send", !.queue = Listed(task[r].service)]
  <1>1. /\ task[r].pc = "list" /\ Becomes(r, x)
        /\ UNCHANGED <<now, updateId, writers, registry, initial, heard, answered, renewals, lapsed>>
    BY ListFacts
  <1>2. /\ x.pc = "send" /\ x.queue = Listed(task[r].service) /\ x.sid = task[r].sid /\ x.sid = {}
    BY <1>1, TaskType DEF Tasks, Structure, OneAnswer
  <1>3. DOMAIN x.queue \subseteq Subscribed
    BY <1>2, ListedFacts DEF Structure, Types
  <1>4. /\ registry' \in Registries /\ Subscribed' \subseteq Subscribed
        /\ heard' \in [Sids -> SUBSET (0 .. MaxUpdates)] /\ answered' \in [Sids -> Nat]
    BY <1>1 DEF Structure, Types, Subscribed
  <1> HIDE DEF x
  <1>5. QED
    BY <1>1, <1>2, <1>3, <1>4, OwnStructure

LEMMA NotifyStructure == \A r \in Rescans : Structure /\ Notify(r) => Structure'
  <1> SUFFICES ASSUME NEW r \in Rescans, Structure, Notify(r) PROVE Structure'
    OBVIOUS
  <1>1. /\ task[r].pc = "send"
        /\ UNCHANGED <<now, updateId, writers, registry, initial, renewals, lapsed>>
    BY NotifyFacts
  <1>2. PICK s \in DOMAIN task[r].queue :
          /\ s \in Sids
          /\ \/ Answered(s, EventValue(r)) /\ Becomes(r, [task[r] EXCEPT !.pc = "bump", !.sid = {s}])
             \/ NotAnswered(s, EventValue(r)) /\ Becomes(r, [task[r] EXCEPT !.pc = "drop", !.sid = {s}])
    BY NotifyFacts
  <1>3. PICK x \in Tasks :
          /\ Becomes(r, x) /\ x.pc \in {"bump", "drop"} /\ x.sid = {s} /\ x.queue = task[r].queue
    <2>1. task[r] \in Tasks
      BY TaskType
    <2>2. ASSUME NEW pc \in {"bump", "drop"}, Becomes(r, [task[r] EXCEPT !.pc = pc, !.sid = {s}])
          PROVE  \E x \in Tasks : /\ Becomes(r, x) /\ x.pc \in {"bump", "drop"} /\ x.sid = {s}
                                  /\ x.queue = task[r].queue
      BY <2>1, <2>2 DEF Tasks, Becomes
    <2>3. QED
      BY <1>2, <2>2
  <1>4. /\ heard' \in [Sids -> SUBSET (0 .. MaxUpdates)] /\ answered' \in [Sids -> Nat]
        /\ \A t \in Sids : t # s => answered'[t] = answered[t]
    <2>1. EventValue(r) \in 0 .. MaxUpdates
      BY EventValueType
    <2>2. CASE Answered(s, EventValue(r))
      BY <1>2, <2>1, <2>2, AnsweredFacts
    <2>3. CASE NotAnswered(s, EventValue(r))
      BY <1>2, <2>1, <2>3, NotAnsweredFacts DEF Structure, Types
    <2>4. QED
      BY <1>2, <2>2, <2>3
  <1>5. initial[s].pc # "none"
    BY <1>2 DEF Structure, Unmade
  <1>6. registry' \in Registries /\ Subscribed' \subseteq Subscribed
    BY <1>1 DEF Structure, Types, Subscribed
  <1>7. QED
    BY <1>1, <1>2, <1>3, <1>4, <1>5, <1>6, OwnStructure

\* The task of a rescan that has its answer about s.
Moved(r, s) == [task[r] EXCEPT !.pc = "send", !.sid = {},
                               !.queue = Restrict(task[r].queue, DOMAIN task[r].queue \ {s})]

LEMMA MovedFacts ==
  ASSUME Structure, NEW r \in Rescans, NEW s \in Sids
  PROVE  /\ Moved(r, s).pc = "send" /\ Moved(r, s).sid = {}
         /\ Moved(r, s).value = task[r].value /\ Moved(r, s).service = task[r].service
         /\ DOMAIN Moved(r, s).queue = DOMAIN task[r].queue \ {s}
  <1>1. /\ Moved(r, s).pc = "send" /\ Moved(r, s).sid = {}
        /\ Moved(r, s).value = task[r].value /\ Moved(r, s).service = task[r].service
        /\ Moved(r, s).queue = Restrict(task[r].queue, DOMAIN task[r].queue \ {s})
    BY TaskType DEF Tasks, Moved
  <1>2. QED
    BY <1>1, TaskType, QueueFacts

LEMMA BumpAfterFacts ==
  ASSUME Structure, NEW r \in Rescans, BumpAfterNotify(r)
  PROVE  /\ task[r].pc = "bump"
         /\ \E s \in Sids : /\ task[r].sid = {s} /\ Becomes(r, Moved(r, s))
                            /\ \E sent : BumpSeq(s, sent)
         /\ UNCHANGED <<now, updateId, writers, initial, heard, answered, renewals, lapsed>>
  <1>1. /\ task[r].pc = "bump" /\ UNCHANGED <<now, updateId, writers, initial, heard, answered, renewals, lapsed>>
    BY DEF BumpAfterNotify, At
  <1>2. PICK s \in task[r].sid : BumpSeq(s, task[r].queue[s]) /\ Served(r, s)
    BY DEF BumpAfterNotify
  <1>3. s \in Sids /\ task[r].sid = {s}
    BY <1>2, TaskType DEF Structure, OneAnswer
  <1>4. Becomes(r, Moved(r, s))
    BY <1>2, <1>3, ServedFacts DEF Moved
  <1>5. QED
    BY <1>1, <1>2, <1>3, <1>4

LEMMA DropFacts ==
  ASSUME Structure, NEW r \in Rescans, DropUnreachable(r)
  PROVE  /\ task[r].pc = "drop"
         /\ \E s \in Sids : /\ task[r].sid = {s} /\ Becomes(r, Moved(r, s))
                            /\ registry' \in Registries /\ Subscribed' = Subscribed \ {s}
                            /\ \A t \in Subscribed' : registry'[t] = registry[t]
         /\ UNCHANGED <<now, updateId, writers, initial, heard, answered, renewals, lapsed>>
  <1>1. /\ task[r].pc = "drop" /\ UNCHANGED <<now, updateId, writers, initial, heard, answered, renewals, lapsed>>
    BY DEF DropUnreachable, At
  <1>2. PICK s \in task[r].sid : Remove(s) /\ Served(r, s)
    BY DEF DropUnreachable
  <1>3. s \in Sids /\ task[r].sid = {s}
    BY <1>2, TaskType DEF Structure, OneAnswer
  <1>4. Becomes(r, Moved(r, s))
    BY <1>2, <1>3, ServedFacts DEF Moved
  <1>5. /\ registry \in Registries /\ Subscribed \ {s} \subseteq Subscribed
        /\ registry' = Restrict(registry, Subscribed \ {s})
    BY <1>2 DEF Structure, Types, Remove
  <1>6. /\ registry' \in Registries /\ Subscribed' = Subscribed \ {s}
        /\ \A t \in Subscribed \ {s} : registry'[t] = registry[t]
    BY <1>5, RemoveFacts
  <1>7. QED
    BY <1>1, <1>3, <1>4, <1>6

LEMMA BumpAfterStructure == \A r \in Rescans : Structure /\ BumpAfterNotify(r) => Structure'
  <1> SUFFICES ASSUME NEW r \in Rescans, Structure, BumpAfterNotify(r) PROVE Structure'
    OBVIOUS
  <1>1. /\ task[r].pc = "bump"
        /\ UNCHANGED <<now, updateId, writers, initial, heard, answered, renewals, lapsed>>
    BY BumpAfterFacts
  <1>2. PICK s \in Sids : Becomes(r, Moved(r, s)) /\ \E sent : BumpSeq(s, sent)
    BY BumpAfterFacts
  <1>3. registry' \in Registries /\ Subscribed' \subseteq Subscribed
    BY <1>2, BumpFacts DEF Structure, Types
  <1>4. heard' \in [Sids -> SUBSET (0 .. MaxUpdates)] /\ answered' \in [Sids -> Nat]
    BY <1>1 DEF Structure, Types
  <1>5. QED
    BY <1>1, <1>2, <1>3, <1>4, MovedFacts, OwnStructure

LEMMA DropStructure == \A r \in Rescans : Structure /\ DropUnreachable(r) => Structure'
  <1> SUFFICES ASSUME NEW r \in Rescans, Structure, DropUnreachable(r) PROVE Structure'
    OBVIOUS
  <1>1. /\ task[r].pc = "drop"
        /\ UNCHANGED <<now, updateId, writers, initial, heard, answered, renewals, lapsed>>
    BY DropFacts
  <1>2. PICK s \in Sids : /\ Becomes(r, Moved(r, s))
                          /\ registry' \in Registries /\ Subscribed' = Subscribed \ {s}
    BY DropFacts
  <1>3. heard' \in [Sids -> SUBSET (0 .. MaxUpdates)] /\ answered' \in [Sids -> Nat]
    BY <1>1 DEF Structure, Types
  <1>4. QED
    BY <1>1, <1>2, <1>3, MovedFacts, OwnStructure

LEMMA NextServiceStructure == \A r \in Rescans : Structure /\ NextService(r) => Structure'
  <1> SUFFICES ASSUME NEW r \in Rescans, Structure, NextService(r) PROVE Structure'
    OBVIOUS
  <1>1. /\ task[r].pc = "send"
        /\ UNCHANGED <<now, updateId, writers, registry, initial, heard, answered, renewals, lapsed>>
    BY NextServiceFacts
  <1>2. PICK x \in Tasks :
          Becomes(r, x) /\ x.pc \in {"list", "purge"} /\ x.sid = task[r].sid /\ x.queue = task[r].queue
    <2>1. task[r] \in Tasks
      BY TaskType
    <2>2. CASE Becomes(r, [task[r] EXCEPT !.pc = "list", !.service = CONNECTION_MANAGER])
      BY <2>1, <2>2 DEF Tasks, Becomes
    <2>3. CASE Becomes(r, [task[r] EXCEPT !.pc = "purge"])
      BY <2>1, <2>3 DEF Tasks, Becomes
    <2>4. QED
      BY <2>2, <2>3, NextServiceFacts
  <1>3. x.sid = {}
    BY <1>1, <1>2 DEF Structure, OneAnswer
  <1>4. /\ registry' \in Registries /\ Subscribed' \subseteq Subscribed
        /\ heard' \in [Sids -> SUBSET (0 .. MaxUpdates)] /\ answered' \in [Sids -> Nat]
    BY <1>1 DEF Structure, Types, Subscribed
  <1>5. QED
    BY <1>1, <1>2, <1>3, <1>4, OwnStructure

LEMMA PurgeStructure == \A r \in Rescans : Structure /\ PurgeExpired(r) => Structure'
  <1> SUFFICES ASSUME NEW r \in Rescans, Structure, PurgeExpired(r) PROVE Structure'
    OBVIOUS
  <1>1. /\ task[r].pc = "purge" /\ Becomes(r, Idle)
        /\ registry' \in Registries /\ Subscribed' \subseteq Subscribed
        /\ UNCHANGED <<now, updateId, writers, initial, heard, answered, renewals, lapsed>>
    BY PurgeFacts
  <1>2. heard' \in [Sids -> SUBSET (0 .. MaxUpdates)] /\ answered' \in [Sids -> Nat]
    BY <1>1 DEF Structure, Types
  <1>3. Idle.pc = "idle" /\ Idle.sid = {} /\ DOMAIN Idle.queue = {} /\ Idle.service = CONTENT_DIRECTORY
    BY QueueFacts DEF Idle
  <1>4. QED
    BY <1>1, <1>2, <1>3, OwnStructure

LEMMA StutterStructure == Structure /\ UNCHANGED vars => Structure'
  <1> SUFFICES ASSUME Structure, UNCHANGED vars PROVE Structure'
    OBVIOUS
  <1>1. Types'
    BY WritersFrame DEF Structure, Types, At, vars
  <1>2. QED
    BY <1>1 DEF Structure, OneAnswer, Unmade, StartsWithCd, vars, Subscribed

LEMMA StructureStep == Structure /\ [Next]_vars => Structure'
  <1> SUFFICES ASSUME Structure, Next PROVE Structure'
    BY StutterStructure
  <1>1. ASSUME NEW r \in Rescans, RescanStep(r) PROVE Structure'
    BY <1>1, PublishStructure, ListStructure, NotifyStructure, BumpAfterStructure, DropStructure,
       NextServiceStructure, PurgeStructure DEF RescanStep
  <1>2. QED
    BY <1>1, TickStructure, SubscribeStructure, RenewStructure, UnsubscribeStructure,
       InitialStepStructure, AwaitStructure DEF Next

-----------------------------------------------------------------------------
(* No count is lost.                                                       *)

\* The rescans whose NOTIFY the client of s answered and that still have to
\* count it.
Counters(s) == {r \in Rescans : At(r, "bump") /\ task[r].sid = {s}}

InitialCount(s) == IF initial[s].pc = "bump" THEN 1 ELSE 0

\* The remainder wraps by whole rounds: what was answered is the SEQ, what is
\* still to be counted, and some number of rounds.
CountsKept ==
  \A s \in Subscribed :
    \E k \in Nat : answered[s] = registry[s].seq + Uncounted(s) + SeqModulus * k

LEMMA UncountedParts ==
  ASSUME NEW s
  PROVE  /\ Uncounted(s) = InitialCount(s) + Cardinality(Counters(s))
         /\ Uncounted(s) \in Nat /\ InitialCount(s) \in Nat
         /\ Cardinality(Counters(s)) \in Nat /\ IsFiniteSet(Counters(s))
  <1>1. IsFiniteSet(Counters(s))
    BY EventingAssumption, FS_Subset DEF Counters
  <1>2. Cardinality(Counters(s)) \in Nat
    BY <1>1, FS_CardinalityType
  <1>3. InitialCount(s) \in Nat
    BY DEF InitialCount
  <1>4. Uncounted(s) = InitialCount(s) + Cardinality(Counters(s))
    BY DEF Uncounted, Counters, InitialCount
  <1>5. QED
    BY <1>1, <1>2, <1>3, <1>4

LEMMA UncountedPartsNext ==
  ASSUME NEW s
  PROVE  Uncounted(s)' = InitialCount(s)' + Cardinality(Counters(s)')
BY DEF Uncounted, Counters, InitialCount

\* A step of one rescan touches the count of one subscription at most.
LEMMA CountersStep ==
  ASSUME Structure, NEW r \in Rescans, NEW x, Becomes(r, x), NEW s
  PROVE  Counters(s)' = IF x.pc = "bump" /\ x.sid = {s}
                        THEN Counters(s) \union {r}
                        ELSE Counters(s) \ {r}
BY DEF Becomes, Counters, At

LEMMA CountersSame ==
  ASSUME UNCHANGED task, NEW s
  PROVE  Counters(s)' = Counters(s)
BY DEF Counters, At

LEMMA CountBump ==
  ASSUME NEW seq \in 0 .. SeqModulus - 1, NEW a \in Nat, NEW u \in Nat, NEW k \in Nat,
         a = seq + (u + 1) + SeqModulus * k
  PROVE  \E j \in Nat : a = ((seq + 1) % SeqModulus) + u + SeqModulus * j
  <1>1. SeqModulus \in Nat \ {0}
    BY EventingAssumption
  <1>2. CASE seq + 1 = SeqModulus
    <2>1. ((seq + 1) % SeqModulus) = 0
      BY <1>1, <1>2, NextRemainder
    <2>2. a = 0 + u + SeqModulus * (k + 1)
      BY <1>1, <1>2
    <2>3. QED
      BY <2>1, <2>2
  <1>3. CASE seq + 1 # SeqModulus
    <2>1. ((seq + 1) % SeqModulus) = seq + 1
      BY <1>1, <1>3, NextRemainder
    <2>2. a = (seq + 1) + u + SeqModulus * k
      BY <1>1
    <2>3. QED
      BY <2>1, <2>2
  <1>4. QED
    BY <1>2, <1>3

\* What keeps the count of one subscription.
KeptFor(s) == \E k \in Nat : answered[s] = registry[s].seq + Uncounted(s) + SeqModulus * k

LEMMA KeptSame ==
  ASSUME NEW s, KeptFor(s), answered'[s] = answered[s], registry'[s].seq = registry[s].seq,
         InitialCount(s)' = InitialCount(s), Counters(s)' = Counters(s)
  PROVE  KeptFor(s)'
  <1>1. Uncounted(s)' = Uncounted(s)
    BY UncountedParts, UncountedPartsNext
  <1>2. QED
    BY <1>1 DEF KeptFor

LEMMA KeptOneMore ==
  ASSUME Structure, NEW s \in Subscribed, KeptFor(s), answered'[s] = answered[s] + 1,
         registry' = registry, Uncounted(s)' = Uncounted(s) + 1
  PROVE  KeptFor(s)'
  <1>1. PICK k \in Nat : answered[s] = registry[s].seq + Uncounted(s) + SeqModulus * k
    BY DEF KeptFor
  <1>2. Uncounted(s) \in Nat /\ registry[s].seq \in Nat /\ SeqModulus \in Nat
    BY UncountedParts, RegistryFacts, EventingAssumption DEF Structure, Types, Subscribed
  <1>3. answered'[s] = registry'[s].seq + Uncounted(s)' + SeqModulus * k
    BY <1>1, <1>2
  <1>4. QED
    BY <1>3 DEF KeptFor

LEMMA KeptCounted ==
  ASSUME Structure, NEW s \in Subscribed, KeptFor(s), answered' = answered,
         registry'[s].seq = (registry[s].seq + 1) % SeqModulus,
         NEW u \in Nat, Uncounted(s) = u + 1, Uncounted(s)' = u
  PROVE  KeptFor(s)'
  <1>1. PICK k \in Nat : answered[s] = registry[s].seq + Uncounted(s) + SeqModulus * k
    BY DEF KeptFor
  <1>2. s \in Sids /\ registry[s].seq \in 0 .. SeqModulus - 1 /\ answered[s] \in Nat
    BY RegistryFacts DEF Structure, Types, Subscribed
  <1> DEFINE seq == registry[s].seq
             a == answered[s]
  <1> HIDE DEF seq, a
  <1>3. seq \in 0 .. SeqModulus - 1 /\ a \in Nat /\ a = seq + (u + 1) + SeqModulus * k
    BY <1>1, <1>2 DEF seq, a
  <1>4. \E j \in Nat : a = ((seq + 1) % SeqModulus) + u + SeqModulus * j
    BY <1>3, CountBump
  <1>5. PICK j \in Nat : answered[s] = ((registry[s].seq + 1) % SeqModulus) + u + SeqModulus * j
    BY <1>4 DEF seq, a
  <1>6. answered'[s] = registry'[s].seq + Uncounted(s)' + SeqModulus * j
    BY <1>5
  <1>7. QED
    BY <1>6 DEF KeptFor

LEMMA CountsByParts == CountsKept <=> \A s \in Subscribed : KeptFor(s)
BY DEF CountsKept, KeptFor

LEMMA CountsByPartsNext == CountsKept' <=> \A s \in Subscribed' : KeptFor(s)'
BY DEF CountsKept, KeptFor

\* Nothing is counted, answered or waited for.
LEMMA CountsSame ==
  ASSUME CountsKept, Subscribed' \subseteq Subscribed, UNCHANGED answered,
         \A s \in Subscribed' : /\ registry'[s].seq = registry[s].seq
                                /\ InitialCount(s)' = InitialCount(s)
                                /\ Counters(s)' = Counters(s)
  PROVE  CountsKept'
BY KeptSame, CountsByParts, CountsByPartsNext

LEMMA SubscribeCounts == \A s \in Sids : Structure /\ CountsKept /\ Subscribe(s) => CountsKept'
  <1> SUFFICES ASSUME NEW s \in Sids, Structure, CountsKept, Subscribe(s) PROVE CountsKept'
    OBVIOUS
  <1>1. /\ initial[s].pc = "none"
        /\ registry' = [t \in Subscribed \union {s} |->
                          IF t = s THEN [seq |-> 0, expires |-> now + 1] ELSE registry[t]]
        /\ initial' = [initial EXCEPT ![s].pc = "body"]
        /\ UNCHANGED <<now, updateId, writers, task, heard, answered, renewals, lapsed>>
    BY DEF Subscribe
  <1>2. Subscribed' = Subscribed \union {s} /\ Subscribed \subseteq Sids /\ s \notin Subscribed
    BY <1>1, RegistryFacts DEF Subscribed, Structure, Types, Unmade
  <1>3. \A t \in Sids : Counters(t)' = Counters(t)
    BY <1>1, CountersSame
  <1>4. ASSUME NEW t \in Subscribed PROVE KeptFor(t)'
    <2>1. /\ registry'[t].seq = registry[t].seq /\ InitialCount(t)' = InitialCount(t)
          /\ answered'[t] = answered[t] /\ t \in Sids
      BY <1>1, <1>2 DEF Structure, Types, InitialCount
    <2>2. QED
      BY <1>3, <2>1, KeptSame, CountsByParts
  <1>5. KeptFor(s)'
    <2>1. Counters(s) = {}
      BY <1>1 DEF Structure, Unmade, OneAnswer, Counters
    <2>2. initial'[s].pc = "body" /\ answered'[s] = 0 /\ registry'[s].seq = 0
      BY <1>1 DEF Structure, Types, Initials, Unmade
    <2>3. Uncounted(s)' = 0
      <3>1. Counters(s)' = {}
        BY <1>3, <2>1
      <3>2. Cardinality(Counters(s)') = 0
        BY <3>1, FS_EmptySet
      <3>3. InitialCount(s)' = 0
        BY <2>2 DEF InitialCount
      <3>4. QED
        BY <3>2, <3>3, UncountedPartsNext
    <2>4. answered'[s] = registry'[s].seq + Uncounted(s)' + SeqModulus * 0
      BY <2>2, <2>3, EventingAssumption
    <2>5. QED
      BY <2>4 DEF KeptFor
  <1>6. QED
    BY <1>2, <1>4, <1>5, CountsByPartsNext

LEMMA RegistryCounts == \A s \in Sids : Structure /\ CountsKept /\ (Renew(s) \/ Unsubscribe(s)) => CountsKept'
  <1> SUFFICES ASSUME NEW s \in Sids, Structure, CountsKept, Renew(s) \/ Unsubscribe(s) PROVE CountsKept'
    OBVIOUS
  <1>1. UNCHANGED <<initial, task, answered>>
    BY DEF Renew, Unsubscribe
  <1>2. \A t \in Sids : Counters(t)' = Counters(t) /\ InitialCount(t)' = InitialCount(t)
    BY <1>1, CountersSame DEF InitialCount
  <1>3. Subscribed' \subseteq Subscribed /\ Subscribed \subseteq Sids
        /\ \A t \in Subscribed' : registry'[t].seq = registry[t].seq
    <2>1. registry \in [Subscribed -> [seq : 0 .. SeqModulus - 1, expires : Nat]] /\ Subscribed \subseteq Sids
          /\ registry \in Registries
      BY RegistryFacts DEF Structure, Types, Subscribed
    <2>2. CASE Renew(s)
      BY <2>1, <2>2 DEF Renew, Subscribed
    <2>3. CASE Unsubscribe(s)
      <3>1. registry' = Restrict(registry, Subscribed \ {s}) /\ Subscribed \ {s} \subseteq Subscribed
        BY <2>3 DEF Unsubscribe, Remove
      <3>2. QED
        BY <2>1, <3>1, RemoveFacts
    <2>4. QED
      BY <2>2, <2>3
  <1>4. QED
    BY <1>1, <1>2, <1>3, CountsSame

LEMMA InitialBodyCounts == \A s \in Sids : Structure /\ CountsKept /\ InitialBody(s) => CountsKept'
  <1> SUFFICES ASSUME NEW s \in Sids, Structure, CountsKept, InitialBody(s) PROVE CountsKept'
    OBVIOUS
  <1>1. /\ initial[s].pc = "body" /\ initial'[s].pc = "send" /\ UNCHANGED <<registry, task, answered>>
        /\ \A t \in Sids : t # s => initial'[t] = initial[t]
    BY InitialBodyFacts
  <1>2. \A t \in Sids : InitialCount(t)' = InitialCount(t)
    BY <1>1 DEF InitialCount
  <1>3. Subscribed' = Subscribed /\ Subscribed \subseteq Sids
    BY <1>1, RegistryFacts DEF Structure, Types, Subscribed
  <1>4. QED
    BY <1>1, <1>2, <1>3, CountersSame, CountsSame

LEMMA InitialNotifyCounts == \A s \in Sids : Structure /\ CountsKept /\ InitialNotify(s) => CountsKept'
  <1> SUFFICES ASSUME NEW s \in Sids, Structure, CountsKept, InitialNotify(s) PROVE CountsKept'
    OBVIOUS
  <1>1. /\ initial[s].pc = "send" /\ UNCHANGED <<registry, task>>
        /\ \A t \in Sids : t # s => initial'[t] = initial[t]
        /\ \/ initial'[s].pc = "bump" /\ Answered(s, initial[s].value)
           \/ initial'[s].pc = "failed" /\ NotAnswered(s, initial[s].value)
    BY InitialNotifyFacts
  <1>2. Subscribed' = Subscribed /\ Subscribed \subseteq Sids
    BY <1>1, RegistryFacts DEF Structure, Types, Subscribed
  <1>3. initial[s].value \in 0 .. MaxUpdates
    BY DEF Structure, Types, Initials
  <1>4. \A t \in Sids : Counters(t)' = Counters(t)
    BY <1>1, CountersSame
  <1>5. CASE initial'[s].pc = "failed" /\ NotAnswered(s, initial[s].value)
    <2>1. answered' = answered /\ \A t \in Sids : InitialCount(t)' = InitialCount(t)
      BY <1>1, <1>3, <1>5, NotAnsweredFacts DEF InitialCount
    <2>2. QED
      BY <1>1, <1>2, <1>4, <2>1, CountsSame
  <1>6. CASE initial'[s].pc = "bump" /\ Answered(s, initial[s].value)
    <2>1. /\ answered'[s] = answered[s] + 1
          /\ \A t \in Sids : t # s => answered'[t] = answered[t]
      BY <1>3, <1>6, AnsweredFacts
    <2>2. ASSUME NEW t \in Subscribed, t # s PROVE KeptFor(t)'
      <3>1. InitialCount(t)' = InitialCount(t)
        BY <1>1, <1>2, <2>2 DEF InitialCount
      <3>2. QED
        BY <1>1, <1>2, <1>4, <2>1, <2>2, <3>1, KeptSame, CountsByParts
    <2>3. ASSUME s \in Subscribed PROVE KeptFor(s)'
      <3>1. InitialCount(s) = 0 /\ InitialCount(s)' = 1
        BY <1>1, <1>6 DEF InitialCount
      <3>2. Uncounted(s)' = Uncounted(s) + 1
        BY <1>4, <3>1, UncountedParts, UncountedPartsNext
      <3>3. QED
        BY <1>1, <2>1, <2>3, <3>2, KeptOneMore, CountsByParts
    <2>4. QED
      BY <1>2, <2>2, <2>3, CountsByPartsNext
  <1>7. QED
    BY <1>1, <1>5, <1>6

LEMMA InitialBumpCounts == \A s \in Sids : Structure /\ CountsKept /\ InitialBump(s) => CountsKept'
  <1> SUFFICES ASSUME NEW s \in Sids, Structure, CountsKept, InitialBump(s) PROVE CountsKept'
    OBVIOUS
  <1>1. /\ initial[s].pc = "bump" /\ initial'[s].pc = "done" /\ UNCHANGED <<task, answered>>
        /\ \A t \in Sids : t # s => initial'[t] = initial[t]
    BY InitialBumpFacts
  <1>2. /\ Subscribed' = Subscribed /\ Subscribed \subseteq Sids
        /\ \A t \in Subscribed \ {s} : registry'[t].seq = registry[t].seq
        /\ s \in Subscribed => registry'[s].seq = (registry[s].seq + 1) % SeqModulus
    BY InitialBumpFacts, BumpFacts, RegistryFacts DEF Structure, Types, Subscribed
  <1>3. \A t \in Sids : Counters(t)' = Counters(t)
    BY <1>1, CountersSame
  <1>4. ASSUME NEW t \in Subscribed, t # s PROVE KeptFor(t)'
    <2>1. InitialCount(t)' = InitialCount(t)
      BY <1>1, <1>2, <1>4 DEF InitialCount
    <2>2. QED
      BY <1>1, <1>2, <1>3, <1>4, <2>1, KeptSame, CountsByParts
  <1>5. ASSUME s \in Subscribed PROVE KeptFor(s)'
    <2>1. InitialCount(s) = 1 /\ InitialCount(s)' = 0
      BY <1>1 DEF InitialCount
    <2>2. PICK u \in Nat : Uncounted(s) = u + 1 /\ Uncounted(s)' = u
      BY <1>3, <2>1, UncountedParts, UncountedPartsNext
    <2>3. QED
      BY <1>1, <1>2, <1>5, <2>2, KeptCounted, CountsByParts
  <1>6. QED
    BY <1>2, <1>4, <1>5, CountsByPartsNext

\* A rescan that neither answers nor counts.
LEMMA OtherCounts ==
  ASSUME Structure, CountsKept, NEW r \in Rescans, NEW x, Becomes(r, x),
         task[r].pc # "bump", x.pc # "bump",
         Subscribed' \subseteq Subscribed, \A s \in Subscribed' : registry'[s].seq = registry[s].seq,
         UNCHANGED <<initial, answered>>
  PROVE  CountsKept'
  <1>1. \A s : Counters(s)' = Counters(s)
    BY CountersStep DEF Counters, At
  <1>2. QED
    BY <1>1, CountsSame DEF InitialCount

LEMMA NotifyCounts == \A r \in Rescans : Structure /\ CountsKept /\ Notify(r) => CountsKept'
  <1> SUFFICES ASSUME NEW r \in Rescans, Structure, CountsKept, Notify(r) PROVE CountsKept'
    OBVIOUS
  <1>1. task[r].pc = "send" /\ UNCHANGED <<registry, initial>>
    BY NotifyFacts
  <1>2. PICK s \in DOMAIN task[r].queue :
          /\ s \in Sids
          /\ \/ Answered(s, EventValue(r)) /\ Becomes(r, [task[r] EXCEPT !.pc = "bump", !.sid = {s}])
             \/ NotAnswered(s, EventValue(r)) /\ Becomes(r, [task[r] EXCEPT !.pc = "drop", !.sid = {s}])
    BY NotifyFacts
  <1>3. Subscribed' = Subscribed /\ Subscribed \subseteq Sids
    BY <1>1, RegistryFacts DEF Structure, Types, Subscribed
  <1>4. EventValue(r) \in 0 .. MaxUpdates /\ task[r] \in Tasks
    BY EventValueType, TaskType
  <1>5. \A t \in Sids : InitialCount(t)' = InitialCount(t)
    BY <1>1 DEF InitialCount
  <1>6. CASE NotAnswered(s, EventValue(r)) /\ Becomes(r, [task[r] EXCEPT !.pc = "drop", !.sid = {s}])
    <2>1. answered' = answered
      BY <1>6 DEF NotAnswered
    <2>2. [task[r] EXCEPT !.pc = "drop", !.sid = {s}].pc = "drop"
      BY <1>4 DEF Tasks
    <2>3. QED
      BY <1>1, <1>3, <1>6, <2>1, <2>2, OtherCounts
  <1>7. CASE Answered(s, EventValue(r)) /\ Becomes(r, [task[r] EXCEPT !.pc = "bump", !.sid = {s}])
    <2> DEFINE x == [task[r] EXCEPT !.pc = "bump", !.sid = {s}]
    <2>1. x.pc = "bump" /\ x.sid = {s}
      BY <1>4 DEF Tasks
    <2>2. /\ answered'[s] = answered[s] + 1
          /\ \A t \in Sids : t # s => answered'[t] = answered[t]
      BY <1>2, <1>4, <1>7, AnsweredFacts
    <2>3. Becomes(r, x)
      BY <1>7
    <2> HIDE DEF x
    <2>4. ASSUME NEW t \in Subscribed, t # s PROVE KeptFor(t)'
      <3>1. x.sid # {t} /\ r \notin Counters(t)
        BY <1>1, <2>1, <2>4 DEF Counters, At
      <3>2. Counters(t)' = Counters(t) \ {r}
        BY <2>3, <3>1, CountersStep
      <3>3. Counters(t)' = Counters(t)
        BY <3>1, <3>2
      <3>4. QED
        BY <1>1, <1>3, <1>5, <2>2, <2>4, <3>3, KeptSame, CountsByParts
    <2>5. ASSUME s \in Subscribed PROVE KeptFor(s)'
      <3>1. r \notin Counters(s) /\ Counters(s)' = Counters(s) \union {r}
        BY <1>1, <2>1, <2>3, CountersStep DEF Counters, At
      <3>2. Cardinality(Counters(s)') = Cardinality(Counters(s)) + 1
        BY <3>1, UncountedParts, FS_AddElement
      <3>3. Uncounted(s)' = Uncounted(s) + 1
        BY <1>2, <1>5, <3>2, UncountedParts, UncountedPartsNext
      <3>4. QED
        BY <1>1, <2>2, <2>5, <3>3, KeptOneMore, CountsByParts
    <2>6. QED
      BY <1>3, <2>4, <2>5, CountsByPartsNext
  <1>8. QED
    BY <1>2, <1>6, <1>7

LEMMA BumpAfterCounts == \A r \in Rescans : Structure /\ CountsKept /\ BumpAfterNotify(r) => CountsKept'
  <1> SUFFICES ASSUME NEW r \in Rescans, Structure, CountsKept, BumpAfterNotify(r) PROVE CountsKept'
    OBVIOUS
  <1>1. task[r].pc = "bump" /\ UNCHANGED <<initial, answered>>
    BY BumpAfterFacts
  <1>2. PICK s \in Sids : /\ task[r].sid = {s} /\ Becomes(r, Moved(r, s))
                          /\ \E sent : BumpSeq(s, sent)
    BY BumpAfterFacts
  <1>3. /\ Subscribed' = Subscribed /\ Subscribed \subseteq Sids
        /\ \A t \in Subscribed \ {s} : registry'[t].seq = registry[t].seq
        /\ s \in Subscribed => registry'[s].seq = (registry[s].seq + 1) % SeqModulus
    BY <1>2, BumpFacts, RegistryFacts DEF Structure, Types, Subscribed
  <1>4. \A t \in Sids : InitialCount(t)' = InitialCount(t)
    BY <1>1 DEF InitialCount
  <1>5. \A t : Counters(t)' = Counters(t) \ {r}
    BY <1>2, MovedFacts, CountersStep
  <1>6. ASSUME NEW t \in Subscribed, t # s PROVE KeptFor(t)'
    <2>1. Counters(t)' = Counters(t)
      BY <1>2, <1>5, <1>6 DEF Counters
    <2>2. QED
      BY <1>1, <1>3, <1>4, <1>6, <2>1, KeptSame, CountsByParts
  <1>7. ASSUME s \in Subscribed PROVE KeptFor(s)'
    <2>1. r \in Counters(s)
      BY <1>1, <1>2 DEF Counters, At
    <2>2. Cardinality(Counters(s)') = Cardinality(Counters(s)) - 1
      BY <1>5, <2>1, UncountedParts, FS_RemoveElement
    <2>3. Cardinality(Counters(s)') \in Nat
      BY <1>5, UncountedParts, FS_Subset, FS_CardinalityType
    <2>4. PICK u \in Nat : Uncounted(s) = u + 1 /\ Uncounted(s)' = u
      BY <1>2, <1>4, <2>2, <2>3, UncountedParts, UncountedPartsNext
    <2>5. QED
      BY <1>1, <1>3, <1>7, <2>4, KeptCounted, CountsByParts
  <1>8. QED
    BY <1>3, <1>6, <1>7, CountsByPartsNext

LEMMA CountsStart == Init => CountsKept
BY DEF Init, CountsKept, Subscribed

LEMMA RescanCounts == \A r \in Rescans : Structure /\ CountsKept /\ RescanStep(r) => CountsKept'
  <1> SUFFICES ASSUME NEW r \in Rescans, Structure, CountsKept, RescanStep(r) PROVE CountsKept'
    OBVIOUS
  <1>1. task[r] \in Tasks
    BY TaskType
  <1>2. CASE PublishCatalog(r)
    <2>1. [task[r] EXCEPT !.pc = "list", !.value = updateId + 1].pc = "list"
      BY <1>1 DEF Tasks
    <2>2. QED
      BY <1>2, <2>1, PublishFacts, OtherCounts DEF Subscribed
  <1>3. CASE ListService(r)
    <2>1. [task[r] EXCEPT !.pc = "send", !.queue = Listed(task[r].service)].pc = "send"
      BY <1>1 DEF Tasks
    <2>2. QED
      BY <1>3, <2>1, ListFacts, OtherCounts DEF Subscribed
  <1>4. CASE DropUnreachable(r)
    <2>1. PICK s \in Sids : /\ Becomes(r, Moved(r, s))
                            /\ Subscribed' = Subscribed \ {s}
                            /\ \A t \in Subscribed' : registry'[t] = registry[t]
      BY <1>4, DropFacts
    <2>2. QED
      BY <1>4, <2>1, DropFacts, MovedFacts, OtherCounts
  <1>5. CASE NextService(r)
    <2>1. /\ [task[r] EXCEPT !.pc = "list", !.service = CONNECTION_MANAGER].pc = "list"
          /\ [task[r] EXCEPT !.pc = "purge"].pc = "purge"
      BY <1>1 DEF Tasks
    <2>2. task[r].pc = "send" /\ UNCHANGED <<registry, initial, answered>> /\ Subscribed' = Subscribed
      BY <1>5, NextServiceFacts DEF Subscribed
    <2>3. CASE Becomes(r, [task[r] EXCEPT !.pc = "list", !.service = CONNECTION_MANAGER])
      BY <2>1, <2>2, <2>3, OtherCounts
    <2>4. CASE Becomes(r, [task[r] EXCEPT !.pc = "purge"])
      BY <2>1, <2>2, <2>4, OtherCounts
    <2>5. QED
      BY <1>5, <2>3, <2>4, NextServiceFacts
  <1>6. CASE PurgeExpired(r)
    <2>1. /\ Idle.pc # "bump" /\ task[r].pc # "bump" /\ Becomes(r, Idle) /\ Subscribed' \subseteq Subscribed
          /\ \A s \in Subscribed' : registry'[s].seq = registry[s].seq
          /\ UNCHANGED <<initial, answered>>
      BY <1>6, PurgeFacts DEF Idle
    <2>2. QED
      BY <2>1, OtherCounts
  <1>7. QED
    BY <1>2, <1>3, <1>4, <1>5, <1>6, NotifyCounts, BumpAfterCounts DEF RescanStep

LEMMA AwaitCounts == \A r \in Rescans : Structure /\ CountsKept /\ AwaitWriteLock(r) => CountsKept'
  <1> SUFFICES ASSUME NEW r \in Rescans, Structure, CountsKept, AwaitWriteLock(r) PROVE CountsKept'
    OBVIOUS
  <1>1. [task[r] EXCEPT !.pc = "lock"].pc = "lock"
    BY TaskType DEF Tasks
  <1>2. QED
    BY <1>1, AwaitFacts, OtherCounts DEF Subscribed

LEMMA CountsStep == Structure /\ CountsKept /\ [Next]_vars => CountsKept'
  <1> SUFFICES ASSUME Structure, CountsKept, [Next]_vars PROVE CountsKept'
    OBVIOUS
  <1>1. CASE Tick \/ UNCHANGED vars
    <2>1. UNCHANGED <<registry, initial, task, answered>>
      BY <1>1 DEF Tick, vars
    <2>2. QED
      BY <2>1, CountersSame, CountsSame DEF InitialCount, Subscribed
  <1>2. CASE Next
    BY <1>1, <1>2, SubscribeCounts, RegistryCounts, InitialBodyCounts, InitialNotifyCounts,
       InitialBumpCounts, AwaitCounts, RescanCounts DEF Next, InitialStep
  <1>3. QED
    BY <1>1, <1>2

LEMMA StructureTypes == Structure => TypeOK
  <1> SUFFICES ASSUME Structure PROVE TypeOK
    OBVIOUS
  <1>1. /\ Subscribed \subseteq Sids
        /\ \A s \in Subscribed : registry[s] \in [seq : 0 .. SeqModulus - 1, expires : Nat]
    BY RegistryFacts DEF Structure, Types, Subscribed
  <1>2. \A s \in Sids : /\ initial[s].pc \in {"none", "body", "send", "bump", "failed", "done"}
                        /\ initial[s].value \in 0 .. MaxUpdates
    BY DEF Structure, Types, Initials
  <1>3. \A r \in Rescans : /\ task[r].pc \in Pcs
                           /\ task[r].value \in 0 .. MaxUpdates
                           /\ DOMAIN task[r].queue \subseteq Sids
    BY TaskType
  <1>4. QED
    BY <1>1, <1>2, <1>3 DEF TypeOK, Structure, Types, OneAnswer

LEMMA CountsAnswer == Structure /\ CountsKept => SeqCountsAnswers
  <1> SUFFICES ASSUME Structure, CountsKept, NEW s \in Subscribed
      PROVE  (registry[s].seq + Uncounted(s)) % SeqModulus = answered[s] % SeqModulus
    BY DEF SeqCountsAnswers
  <1>1. PICK k \in Nat : answered[s] = registry[s].seq + Uncounted(s) + SeqModulus * k
    BY DEF CountsKept
  <1> DEFINE x == registry[s].seq + Uncounted(s)
  <1>2. x \in Nat /\ SeqModulus \in Nat \ {0}
    BY UncountedParts, RegistryFacts, EventingAssumption DEF Structure, Types, Subscribed
  <1>3. answered[s] = x + SeqModulus * k
    BY <1>1
  <1> HIDE DEF x
  <1>4. (x + SeqModulus * k) % SeqModulus = x % SeqModulus
    BY <1>2, RemainderOfSum
  <1>5. answered[s] % SeqModulus = x % SeqModulus
    BY <1>3, <1>4
  <1>6. QED
    BY <1>5 DEF x

\* gena.rs: the registry is always well formed, and the SEQ a subscription
\* stands at counts the NOTIFYs its client answered, modulo its width, however
\* the initial NOTIFY, the notifications of rescans, renewals and expiries
\* overlap.
THEOREM NoCountIsLost == Spec => []Inv
  <1>1. Init => Structure /\ CountsKept
    BY StructureStart, CountsStart
  <1>2. Structure /\ CountsKept /\ [Next]_vars => (Structure /\ CountsKept)'
    BY StructureStep, CountsStep
  <1>3. Structure /\ CountsKept => Inv
    BY StructureTypes, CountsAnswer DEF Inv
  <1>4. QED
    BY <1>1, <1>2, <1>3, PTL DEF Spec

-----------------------------------------------------------------------------
(* Nobody keeps an old list.                                               *)

\* r still brings the present catalog's number to s, or has just brought it.
Pending(r, s) ==
  /\ task[r].value = updateId /\ task[r].service = CONTENT_DIRECTORY
  /\ \/ At(r, "list")
     \/ task[r].pc \in {"send", "bump", "drop"} /\ s \in DOMAIN task[r].queue

\* s has the present number, or a publication or a notification is to come.
Told(s) ==
  \/ updateId \in heard[s]
  \/ writers # {}
  \/ \E r \in Rescans : Pending(r, s)

\* The value an initial NOTIFY sends was read before: either it is still the
\* present one, or somebody will tell s.
ToldIfInitial(s) ==
  /\ initial[s].pc \in {"bump", "done"} => Told(s)
  /\ initial[s].pc = "send" => initial[s].value = updateId \/ Told(s)

NobodyMisses ==
  \A s \in Subscribed : ServiceOf[s] = CONTENT_DIRECTORY /\ s \notin lapsed => ToldIfInitial(s)

\* A client that answered has received what it answered.
AnsweredHeard ==
  \A r \in Rescans :
    At(r, "bump") /\ task[r].service = CONTENT_DIRECTORY =>
      \A s \in task[r].sid : task[r].value \in heard[s]

ExpiredHaveLapsed == \A s \in Subscribed : Expired(s) => s \in lapsed

NewsInv == NobodyMisses /\ AnsweredHeard /\ ExpiredHaveLapsed

LEMMA ExpiredStep == Structure /\ ExpiredHaveLapsed /\ [Next]_vars => ExpiredHaveLapsed'
  <1> SUFFICES ASSUME Structure, ExpiredHaveLapsed, [Next]_vars PROVE ExpiredHaveLapsed'
    OBVIOUS
  <1>1. /\ registry \in Registries /\ now \in Nat /\ Subscribed \subseteq Sids
        /\ registry \in [Subscribed -> [seq : 0 .. SeqModulus - 1, expires : Nat]]
    BY RegistryFacts, EventingAssumption DEF Structure, Types, Subscribed
  <1>2. ASSUME UNCHANGED <<now, lapsed>>, Subscribed' \subseteq Subscribed,
               \A s \in Subscribed' : registry'[s].expires = registry[s].expires
        PROVE  ExpiredHaveLapsed'
    BY <1>2 DEF ExpiredHaveLapsed, Expired
  <1>3. CASE UNCHANGED vars
    BY <1>3, <1>2 DEF vars, Subscribed
  <1>4. CASE Tick
    BY <1>4 DEF Tick, ExpiredHaveLapsed, Expired, Subscribed
  <1>5. ASSUME NEW s \in Sids, Subscribe(s) PROVE ExpiredHaveLapsed'
    <2>1. /\ registry' = [t \in Subscribed \union {s} |->
                            IF t = s THEN [seq |-> 0, expires |-> now + 1] ELSE registry[t]]
          /\ UNCHANGED <<now, lapsed>>
      BY <1>5 DEF Subscribe
    <2>2. Subscribed' = Subscribed \union {s} /\ registry'[s].expires = now + 1
          /\ \A t \in Subscribed \ {s} : registry'[t] = registry[t]
      BY <2>1 DEF Subscribed
    <2>3. ~(now' >= registry'[s].expires)
      BY <1>1, <2>1, <2>2
    <2>4. QED
      BY <2>1, <2>2, <2>3 DEF ExpiredHaveLapsed, Expired
  <1>6. ASSUME NEW s \in Sids, Renew(s) PROVE ExpiredHaveLapsed'
    <2>1. /\ registry' = [registry EXCEPT ![s].expires = now + 1]
          /\ UNCHANGED <<now, lapsed>>
      BY <1>6 DEF Renew
    <2>2. Subscribed' = Subscribed /\ s \in Subscribed /\ registry'[s].expires = now + 1
          /\ \A t \in Subscribed \ {s} : registry'[t] = registry[t]
      BY <1>1, <1>6, <2>1 DEF Subscribed, Renew
    <2>3. ~(now' >= registry'[s].expires)
      BY <1>1, <2>1, <2>2
    <2>4. QED
      BY <2>1, <2>2, <2>3 DEF ExpiredHaveLapsed, Expired
  <1>7. ASSUME NEW s \in Sids, Unsubscribe(s) PROVE ExpiredHaveLapsed'
    <2>1. registry' = Restrict(registry, Subscribed \ {s}) /\ Subscribed \ {s} \subseteq Subscribed
          /\ UNCHANGED <<now, lapsed>>
      BY <1>7 DEF Unsubscribe, Remove
    <2>2. QED
      BY <1>1, <1>2, <2>1, RemoveFacts
  <1>8. ASSUME NEW s \in Sids, InitialStep(s) PROVE ExpiredHaveLapsed'
    <2>1. CASE InitialBody(s) \/ InitialNotify(s)
      BY <1>2, <2>1 DEF InitialBody, InitialNotify, Subscribed
    <2>2. CASE InitialBump(s)
      BY <1>1, <1>2, <2>2, InitialBumpFacts, BumpFacts
    <2>3. QED
      BY <1>8, <2>1, <2>2 DEF InitialStep
  <1>9. ASSUME NEW r \in Rescans, AwaitWriteLock(r) \/ RescanStep(r) PROVE ExpiredHaveLapsed'
    <2>1. CASE AwaitWriteLock(r) \/ PublishCatalog(r) \/ ListService(r) \/ Notify(r) \/ NextService(r)
      BY <1>2, <2>1 DEF AwaitWriteLock, PublishCatalog, ListService, Notify, NextService, Subscribed
    <2>2. CASE BumpAfterNotify(r)
      <3>1. PICK s \in Sids : \E sent : BumpSeq(s, sent)
        BY <2>2, BumpAfterFacts
      <3>2. Subscribed' = Subscribed /\ \A t \in Subscribed : registry'[t].expires = registry[t].expires
        BY <1>1, <3>1, BumpFacts
      <3>3. QED
        BY <1>2, <2>2, <3>2, BumpAfterFacts
    <2>3. CASE DropUnreachable(r)
      <3>1. UNCHANGED <<now, lapsed>>
        BY <2>3, DropFacts
      <3>2. Subscribed' \subseteq Subscribed /\ \A t \in Subscribed' : registry'[t] = registry[t]
        BY <2>3, DropFacts
      <3>3. QED
        BY <1>2, <3>1, <3>2
    <2>4. CASE PurgeExpired(r)
      BY <1>2, <2>4, PurgeFacts
    <2>5. QED
      BY <1>9, <2>1, <2>2, <2>3, <2>4 DEF RescanStep
  <1>10. QED
    BY <1>3, <1>4, <1>5, <1>6, <1>7, <1>8, <1>9 DEF Next

\* What the client of s knows stays known, and what is to come still comes.
LEMMA ToldFrame ==
  ASSUME NEW s \in Sids, ToldIfInitial(s), heard[s] \subseteq heard'[s], initial'[s] = initial[s],
         UNCHANGED updateId, writers \subseteq writers',
         \A r \in Rescans : Pending(r, s) => Pending(r, s)' \/ updateId \in heard'[s]
  PROVE  ToldIfInitial(s)'
BY DEF ToldIfInitial, Told

\* Only tasks outside a notification change, or none.
LEMMA NewsFrame ==
  ASSUME Structure, NewsInv, UNCHANGED <<updateId, writers, task>>,
         \A s \in Sids : heard[s] \subseteq heard'[s], lapsed \subseteq lapsed'
  PROVE  /\ AnsweredHeard'
         /\ \A s \in Subscribed : ServiceOf[s] = CONTENT_DIRECTORY /\ s \notin lapsed' /\ initial'[s] = initial[s]
              => ToldIfInitial(s)'
  <1>1. AnsweredHeard'
    BY TaskType DEF NewsInv, AnsweredHeard, At
  <1>2. ASSUME NEW s \in Subscribed, ServiceOf[s] = CONTENT_DIRECTORY, s \notin lapsed', initial'[s] = initial[s]
        PROVE  ToldIfInitial(s)'
    <2>1. s \in Sids /\ ToldIfInitial(s)
      BY <1>2, RegistryFacts DEF NewsInv, NobodyMisses, Structure, Types, Subscribed
    <2>2. \A r \in Rescans : Pending(r, s) => Pending(r, s)'
      BY DEF Pending, At
    <2>3. QED
      BY <1>2, <2>1, <2>2, ToldFrame
  <1>3. QED
    BY <1>1, <1>2

LEMMA QuietNews ==
  ASSUME Structure, NewsInv,
         \/ Tick \/ UNCHANGED vars
         \/ \E s \in Sids : Renew(s) \/ Unsubscribe(s)
  PROVE  NobodyMisses' /\ AnsweredHeard'
  <1>1. UNCHANGED <<updateId, writers, task, heard, initial>> /\ lapsed \subseteq lapsed'
    BY DEF Tick, vars, Renew, Unsubscribe
  <1>2. Subscribed' \subseteq Subscribed
    <2>1. CASE Tick \/ UNCHANGED vars
      BY <2>1 DEF Tick, vars, Subscribed
    <2>2. ASSUME NEW s \in Sids, Renew(s) PROVE Subscribed' \subseteq Subscribed
      BY <2>2 DEF Renew, Subscribed
    <2>3. ASSUME NEW s \in Sids, Unsubscribe(s) PROVE Subscribed' \subseteq Subscribed
      <3>1. registry' = Restrict(registry, Subscribed \ {s}) /\ Subscribed \ {s} \subseteq Subscribed
            /\ registry \in Registries
        BY <2>3 DEF Unsubscribe, Remove, Structure, Types
      <3>2. QED
        BY <3>1, RemoveFacts
    <2>4. QED
      BY <2>1, <2>2, <2>3
  <1>3. QED
    BY <1>1, <1>2, NewsFrame DEF NobodyMisses

LEMMA SubscribeNews == \A s \in Sids : Structure /\ NewsInv /\ Subscribe(s) => NobodyMisses' /\ AnsweredHeard'
  <1> SUFFICES ASSUME NEW s \in Sids, Structure, NewsInv, Subscribe(s)
      PROVE  NobodyMisses' /\ AnsweredHeard'
    OBVIOUS
  <1>1. /\ initial' = [initial EXCEPT ![s].pc = "body"] /\ Subscribed' = Subscribed \union {s}
        /\ UNCHANGED <<updateId, writers, task, heard, lapsed>>
    BY DEF Subscribe, Subscribed
  <1>2. initial'[s].pc = "body" /\ Subscribed \subseteq Sids
        /\ \A t \in Sids : t # s => initial'[t] = initial[t]
    BY <1>1, RegistryFacts DEF Structure, Types, Initials, Subscribed
  <1>3. ToldIfInitial(s)'
    BY <1>2 DEF ToldIfInitial
  <1>4. QED
    BY <1>1, <1>2, <1>3, NewsFrame DEF NobodyMisses

LEMMA InitialNews == \A s \in Sids : Structure /\ NewsInv /\ InitialStep(s) => NobodyMisses' /\ AnsweredHeard'
  <1> SUFFICES ASSUME NEW s \in Sids, Structure, NewsInv, InitialStep(s)
      PROVE  NobodyMisses' /\ AnsweredHeard'
    OBVIOUS
  <1>1. /\ UNCHANGED <<updateId, writers, task, lapsed>>
        /\ \A t \in Sids : t # s => initial'[t] = initial[t]
    BY InitialBodyFacts, InitialNotifyFacts, InitialBumpFacts DEF InitialStep
  <1>2. Subscribed' = Subscribed /\ Subscribed \subseteq Sids
    <2>1. CASE InitialBody(s) \/ InitialNotify(s)
      BY <2>1, RegistryFacts DEF InitialBody, InitialNotify, Structure, Types, Subscribed
    <2>2. CASE InitialBump(s)
      BY <2>2, InitialBumpFacts, BumpFacts, RegistryFacts DEF Structure, Types, Subscribed
    <2>3. QED
      BY <2>1, <2>2 DEF InitialStep
  <1>3. initial[s].value \in 0 .. MaxUpdates
    BY DEF Structure, Types, Initials
  <1>4. \A t \in Sids : heard[t] \subseteq heard'[t]
    <2>1. CASE InitialBody(s) \/ InitialBump(s)
      BY <2>1 DEF InitialBody, InitialBump
    <2>2. CASE InitialNotify(s)
      BY <1>3, <2>2, InitialNotifyFacts, AnsweredFacts, NotAnsweredFacts
    <2>3. QED
      BY <2>1, <2>2 DEF InitialStep
  <1>5. ASSUME s \in Subscribed, ServiceOf[s] = CONTENT_DIRECTORY, s \notin lapsed
        PROVE  ToldIfInitial(s)'
    <2>1. ToldIfInitial(s)
      BY <1>5 DEF NewsInv, NobodyMisses
    <2>2. Told(s) => Told(s)'
      BY <1>1, <1>4 DEF Told, Pending, At
    <2>3. CASE InitialBody(s)
      <3>1. initial'[s].pc = "send" /\ initial'[s].value = ReadUpdateId
        BY <2>3, InitialBodyFacts
      <3>2. CASE writers = {}
        BY <1>1, <3>1, <3>2 DEF ReadUpdateId, ToldIfInitial
      <3>3. CASE writers # {}
        BY <1>1, <3>1, <3>3 DEF ToldIfInitial, Told
      <3>4. QED
        BY <3>2, <3>3
    <2>4. CASE InitialNotify(s)
      <3>1. initial[s].pc = "send" /\ initial'[s].pc \in {"bump", "failed"}
        BY <2>4, InitialNotifyFacts
      <3>2. CASE initial'[s].pc = "failed"
        BY <3>2 DEF ToldIfInitial
      <3>3. CASE initial'[s].pc = "bump"
        <4>1. initial[s].value \in heard'[s]
          BY <1>3, <2>4, <3>3, InitialNotifyFacts, AnsweredFacts
        <4>2. Told(s)'
          BY <1>1, <2>1, <2>2, <3>1, <4>1 DEF ToldIfInitial, Told
        <4>3. QED
          BY <3>3, <4>2 DEF ToldIfInitial
      <3>4. QED
        BY <3>1, <3>2, <3>3
    <2>5. CASE InitialBump(s)
      BY <2>1, <2>2, <2>5, InitialBumpFacts DEF ToldIfInitial
    <2>6. QED
      BY <2>3, <2>4, <2>5 DEF InitialStep
  <1>6. QED
    BY <1>1, <1>2, <1>4, <1>5, NewsFrame DEF NobodyMisses

\* A step of r that publishes nothing: what it still brought to a
\* subscription it still brings, or it has brought it.
LEMMA OwnNews ==
  ASSUME Structure, NewsInv, NEW r \in Rescans, NEW x, Becomes(r, x),
         UNCHANGED <<updateId, initial, lapsed>>, writers \subseteq writers',
         Subscribed' \subseteq Subscribed, \A s \in Sids : heard[s] \subseteq heard'[s],
         x.pc = "bump" /\ x.service = CONTENT_DIRECTORY => \A s \in x.sid : x.value \in heard'[s],
         \A s \in Subscribed' : ServiceOf[s] = CONTENT_DIRECTORY /\ s \notin lapsed /\ Pending(r, s)
                                  => Pending(r, s)' \/ updateId \in heard'[s]
  PROVE  NobodyMisses' /\ AnsweredHeard'
  <1>1. AnsweredHeard'
    <2>1. ASSUME NEW q \in Rescans, At(q, "bump")', task'[q].service = CONTENT_DIRECTORY, NEW s \in task'[q].sid
          PROVE  task'[q].value \in heard'[s]
      <3>1. CASE q = r
        BY <2>1, <3>1 DEF Becomes, At
      <3>2. CASE q # r
        <4>1. task'[q] = task[q] /\ s \in Sids
          BY <2>1, <3>2, TaskType DEF Becomes
        <4>2. QED
          BY <2>1, <4>1 DEF NewsInv, AnsweredHeard, At
      <3>3. QED
        BY <3>1, <3>2
    <2>2. QED
      BY <2>1 DEF AnsweredHeard
  <1>2. ASSUME NEW s \in Subscribed', ServiceOf[s] = CONTENT_DIRECTORY, s \notin lapsed'
        PROVE  ToldIfInitial(s)'
    <2>1. s \in Subscribed /\ s \in Sids /\ ToldIfInitial(s)
      BY <1>2, RegistryFacts DEF NewsInv, NobodyMisses, Structure, Types, Subscribed
    <2>2. ASSUME NEW q \in Rescans, Pending(q, s) PROVE Pending(q, s)' \/ updateId \in heard'[s]
      <3>1. CASE q = r
        BY <1>2, <2>2, <3>1
      <3>2. CASE q # r
        BY <2>2, <3>2 DEF Becomes, Pending, At
      <3>3. QED
        BY <3>1, <3>2
    <2>3. QED
      BY <2>1, <2>2, ToldFrame
  <1>3. QED
    BY <1>1, <1>2 DEF NobodyMisses

LEMMA AwaitNews == \A r \in Rescans : Structure /\ NewsInv /\ AwaitWriteLock(r) => NobodyMisses' /\ AnsweredHeard'
  <1> SUFFICES ASSUME NEW r \in Rescans, Structure, NewsInv, AwaitWriteLock(r)
      PROVE  NobodyMisses' /\ AnsweredHeard'
    OBVIOUS
  <1> DEFINE x == [task[r] EXCEPT !.pc = "lock"]
  <1>1. /\ task[r].pc = "idle" /\ Becomes(r, x) /\ writers \subseteq writers'
        /\ UNCHANGED <<updateId, registry, initial, heard, lapsed>>
    BY AwaitFacts
  <1>2. x.pc = "lock"
    BY TaskType DEF Tasks
  <1>3. \A s : ~Pending(r, s)
    BY <1>1 DEF Pending, At
  <1>4. Subscribed' \subseteq Subscribed
    BY <1>1 DEF Subscribed
  <1> HIDE DEF x
  <1>5. QED
    BY <1>1, <1>2, <1>3, <1>4, OwnNews

\* The rescan that publishes is about to tell every subscription.
LEMMA PublishNews == \A r \in Rescans : Structure /\ NewsInv /\ PublishCatalog(r) => NobodyMisses' /\ AnsweredHeard'
  <1> SUFFICES ASSUME NEW r \in Rescans, Structure, NewsInv, PublishCatalog(r)
      PROVE  NobodyMisses' /\ AnsweredHeard'
    OBVIOUS
  <1> DEFINE x == [task[r] EXCEPT !.pc = "list", !.value = updateId + 1]
  <1>1. /\ task[r].pc = "lock" /\ Becomes(r, x) /\ updateId' = updateId + 1
        /\ UNCHANGED <<registry, initial, heard, lapsed>>
    BY PublishFacts
  <1>2. x.pc = "list" /\ x.value = updateId + 1 /\ x.service = CONTENT_DIRECTORY
    BY <1>1, TaskType DEF Tasks, Structure, StartsWithCd
  <1> HIDE DEF x
  <1>3. \A s : Pending(r, s)'
    BY <1>1, <1>2 DEF Pending, At, Becomes
  <1>4. \A s : ToldIfInitial(s)'
    BY <1>3 DEF ToldIfInitial, Told
  <1>5. AnsweredHeard'
    BY <1>1, <1>2 DEF NewsInv, AnsweredHeard, At, Becomes
  <1>6. QED
    BY <1>4, <1>5 DEF NobodyMisses

\* Every subscription that is not over is on the list.
LEMMA ListNews == \A r \in Rescans : Structure /\ NewsInv /\ ListService(r) => NobodyMisses' /\ AnsweredHeard'
  <1> SUFFICES ASSUME NEW r \in Rescans, Structure, NewsInv, ListService(r)
      PROVE  NobodyMisses' /\ AnsweredHeard'
    OBVIOUS
  <1> DEFINE x == [task[r] EXCEPT !.pc = "send", !.queue = Listed(task[r].service)]
  <1>1. /\ task[r].pc = "list" /\ Becomes(r, x)
        /\ UNCHANGED <<updateId, writers, registry, initial, heard, lapsed>>
    BY ListFacts
  <1>2. /\ x.pc = "send" /\ x.queue = Listed(task[r].service)
        /\ x.value = task[r].value /\ x.service = task[r].service
    BY TaskType DEF Tasks
  <1> HIDE DEF x
  <1>3. Subscribed' = Subscribed
    BY <1>1 DEF Subscribed
  <1>4. ASSUME NEW s \in Subscribed', ServiceOf[s] = CONTENT_DIRECTORY, s \notin lapsed, Pending(r, s)
        PROVE  Pending(r, s)'
    <2>1. task[r].service = CONTENT_DIRECTORY /\ task[r].value = updateId
      BY <1>4 DEF Pending
    <2>2. ~Expired(s)
      BY <1>3, <1>4 DEF NewsInv, ExpiredHaveLapsed
    <2>3. s \in DOMAIN Listed(task[r].service)
      BY <1>3, <1>4, <2>1, <2>2, ListedFacts DEF Structure, Types
    <2>4. QED
      BY <1>1, <1>2, <2>1, <2>3 DEF Pending, Becomes
  <1>5. QED
    BY <1>1, <1>2, <1>3, <1>4, OwnNews

LEMMA NotifyNews == \A r \in Rescans : Structure /\ NewsInv /\ Notify(r) => NobodyMisses' /\ AnsweredHeard'
  <1> SUFFICES ASSUME NEW r \in Rescans, Structure, NewsInv, Notify(r)
      PROVE  NobodyMisses' /\ AnsweredHeard'
    OBVIOUS
  <1>1. task[r].pc = "send" /\ UNCHANGED <<updateId, writers, registry, initial, lapsed>>
    BY NotifyFacts
  <1>2. PICK s \in DOMAIN task[r].queue :
          /\ s \in Sids
          /\ \/ Answered(s, EventValue(r)) /\ Becomes(r, [task[r] EXCEPT !.pc = "bump", !.sid = {s}])
             \/ NotAnswered(s, EventValue(r)) /\ Becomes(r, [task[r] EXCEPT !.pc = "drop", !.sid = {s}])
    BY NotifyFacts
  <1>3. EventValue(r) \in 0 .. MaxUpdates /\ task[r] \in Tasks
    BY EventValueType, TaskType
  <1>4. /\ \A t \in Sids : heard[t] \subseteq heard'[t]
        /\ Answered(s, EventValue(r)) => EventValue(r) \in heard'[s]
    BY <1>2, <1>3, AnsweredFacts, NotAnsweredFacts
  <1>5. PICK x \in Tasks :
          /\ Becomes(r, x) /\ x.pc \in {"bump", "drop"} /\ x.queue = task[r].queue /\ x.sid = {s}
          /\ x.value = task[r].value /\ x.service = task[r].service
          /\ x.pc = "bump" => EventValue(r) \in heard'[s]
    <2>1. CASE Answered(s, EventValue(r)) /\ Becomes(r, [task[r] EXCEPT !.pc = "bump", !.sid = {s}])
      BY <1>3, <1>4, <2>1 DEF Tasks, Becomes
    <2>2. CASE NotAnswered(s, EventValue(r)) /\ Becomes(r, [task[r] EXCEPT !.pc = "drop", !.sid = {s}])
      BY <1>3, <2>2 DEF Tasks, Becomes
    <2>3. QED
      BY <1>2, <2>1, <2>2
  <1>6. x.pc = "bump" /\ x.service = CONTENT_DIRECTORY => \A t \in x.sid : x.value \in heard'[t]
    BY <1>5 DEF EventValue
  <1>7. \A t : Pending(r, t) => Pending(r, t)'
    BY <1>1, <1>5 DEF Pending, At, Becomes
  <1>8. Subscribed' = Subscribed
    BY <1>1 DEF Subscribed
  <1>9. QED
    BY <1>1, <1>4, <1>5, <1>6, <1>7, <1>8, OwnNews

LEMMA BumpAfterNews == \A r \in Rescans : Structure /\ NewsInv /\ BumpAfterNotify(r) => NobodyMisses' /\ AnsweredHeard'
  <1> SUFFICES ASSUME NEW r \in Rescans, Structure, NewsInv, BumpAfterNotify(r)
      PROVE  NobodyMisses' /\ AnsweredHeard'
    OBVIOUS
  <1>1. task[r].pc = "bump" /\ UNCHANGED <<updateId, writers, initial, heard, lapsed>>
    BY BumpAfterFacts
  <1>2. PICK s \in Sids : /\ task[r].sid = {s} /\ Becomes(r, Moved(r, s))
                          /\ \E sent : BumpSeq(s, sent)
    BY BumpAfterFacts
  <1>3. Subscribed' = Subscribed
    BY <1>2, BumpFacts DEF Structure, Types
  <1>4. ASSUME NEW t, Pending(r, t) PROVE Pending(r, t)' \/ updateId \in heard'[t]
    <2>1. CASE t = s
      BY <1>1, <1>2, <1>4, <2>1 DEF NewsInv, AnsweredHeard, At, Pending
    <2>2. CASE t # s
      BY <1>1, <1>2, <1>4, <2>2, MovedFacts DEF Pending, At, Becomes
    <2>3. QED
      BY <2>1, <2>2
  <1>5. QED
    BY <1>1, <1>2, <1>3, <1>4, MovedFacts, OwnNews

LEMMA DropNews == \A r \in Rescans : Structure /\ NewsInv /\ DropUnreachable(r) => NobodyMisses' /\ AnsweredHeard'
  <1> SUFFICES ASSUME NEW r \in Rescans, Structure, NewsInv, DropUnreachable(r)
      PROVE  NobodyMisses' /\ AnsweredHeard'
    OBVIOUS
  <1>1. task[r].pc = "drop" /\ UNCHANGED <<updateId, writers, initial, heard, lapsed>>
    BY DropFacts
  <1>2. PICK s \in Sids : Becomes(r, Moved(r, s)) /\ Subscribed' = Subscribed \ {s}
    BY DropFacts
  <1>3. ASSUME NEW t \in Subscribed', Pending(r, t) PROVE Pending(r, t)'
    BY <1>1, <1>2, <1>3, MovedFacts DEF Pending, At, Becomes
  <1>4. QED
    BY <1>1, <1>2, <1>3, MovedFacts, OwnNews

LEMMA LastNews == \A r \in Rescans : Structure /\ NewsInv /\ (NextService(r) \/ PurgeExpired(r))
                                       => NobodyMisses' /\ AnsweredHeard'
  <1> SUFFICES ASSUME NEW r \in Rescans, Structure, NewsInv, NextService(r) \/ PurgeExpired(r)
      PROVE  NobodyMisses' /\ AnsweredHeard'
    OBVIOUS
  <1>1. /\ UNCHANGED <<updateId, writers, initial, heard, lapsed>> /\ \A s : ~Pending(r, s)
    BY NextServiceFacts, PurgeFacts DEF Pending, At
  <1>2. Subscribed' \subseteq Subscribed
    BY NextServiceFacts, PurgeFacts DEF Subscribed
  <1>3. \E x : Becomes(r, x) /\ x.pc # "bump"
    <2>1. CASE PurgeExpired(r)
      <3>1. Idle.pc # "bump"
        BY DEF Idle
      <3>2. QED
        BY <2>1, <3>1, PurgeFacts
    <2>2. CASE NextService(r)
      <3>1. /\ [task[r] EXCEPT !.pc = "list", !.service = CONNECTION_MANAGER].pc # "bump"
            /\ [task[r] EXCEPT !.pc = "purge"].pc # "bump"
        BY TaskType DEF Tasks
      <3>2. QED
        BY <2>2, <3>1, NextServiceFacts
    <2>3. QED
      BY <2>1, <2>2
  <1>4. QED
    BY <1>1, <1>2, <1>3, OwnNews

LEMMA NewsStart == Init => NewsInv
BY DEF Init, NewsInv, NobodyMisses, AnsweredHeard, ExpiredHaveLapsed, Subscribed, At, Idle

LEMMA NewsStep == Structure /\ NewsInv /\ [Next]_vars => NewsInv'
  <1> SUFFICES ASSUME Structure, NewsInv, [Next]_vars PROVE NewsInv'
    OBVIOUS
  <1>1. ExpiredHaveLapsed'
    BY ExpiredStep DEF NewsInv
  <1>2. NobodyMisses' /\ AnsweredHeard'
    <2>1. CASE Tick \/ UNCHANGED vars
      BY <2>1, QuietNews
    <2>2. ASSUME NEW s \in Sids, Subscribe(s) \/ Renew(s) \/ Unsubscribe(s) \/ InitialStep(s)
          PROVE  NobodyMisses' /\ AnsweredHeard'
      BY <2>2, QuietNews, SubscribeNews, InitialNews
    <2>3. ASSUME NEW r \in Rescans, AwaitWriteLock(r) \/ RescanStep(r)
          PROVE  NobodyMisses' /\ AnsweredHeard'
      BY <2>3, AwaitNews, PublishNews, ListNews, NotifyNews, BumpAfterNews, DropNews, LastNews
         DEF RescanStep
    <2>4. QED
      BY <2>1, <2>2, <2>3 DEF Next
  <1>3. QED
    BY <1>1, <1>2 DEF NewsInv

LEMMA NewsMeansTold == Structure /\ NewsInv => NobodyKeepsAnOldList
  <1> SUFFICES ASSUME Structure, NewsInv, \A r \in Rescans : At(r, "idle"), NEW s \in Subscribed,
                      ServiceOf[s] = CONTENT_DIRECTORY, initial[s].pc = "done", s \notin lapsed
               PROVE  updateId \in heard[s]
    BY DEF NobodyKeepsAnOldList
  <1>1. writers = {}
    BY DEF Structure, Types, At
  <1>2. \A r \in Rescans : ~Pending(r, s)
    BY DEF Pending, At
  <1>3. QED
    BY <1>1, <1>2 DEF NewsInv, NobodyMisses, ToldIfInitial, Told

\* AppState::rescan, notify_all and the initial NOTIFY of subscribe: once
\* every rescan is through, each subscription to the ContentDirectory that
\* still stands, whose initial NOTIFY was answered and that was never past its
\* time, has been told the SystemUpdateID of the catalog it would browse.
THEOREM EveryoneIsTold == Spec => []NobodyKeepsAnOldList
  <1>1. Init => Structure /\ NewsInv
    BY StructureStart, NewsStart
  <1>2. Structure /\ NewsInv /\ [Next]_vars => (Structure /\ NewsInv)'
    BY StructureStep, NewsStep
  <1>3. Structure /\ NewsInv => NobodyKeepsAnOldList
    BY NewsMeansTold
  <1>4. QED
    BY <1>1, <1>2, <1>3, PTL DEF Spec

=============================================================================
