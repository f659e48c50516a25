------------------------------ MODULE Eventing ------------------------------
(***************************************************************************)
(* UPnP eventing: the subscription registry (rustiio-server/src/gena.rs),  *)
(* the SUBSCRIBE/UNSUBSCRIBE handlers and the initial NOTIFY (routes.rs),  *)
(* and the notification a rescan ends with (AppState::rescan, update_id    *)
(* and notify_all in state.rs).                                            *)
(*                                                                         *)
(* A NOTIFY is sent with the SEQ of a cloned subscription; the registry    *)
(* is locked again only after the answer.  The initial NOTIFY and the      *)
(* notifications of several rescans therefore overlap.                     *)
(*                                                                         *)
(* Time runs in units of TIMEOUT_SECS (half an hour).  A NOTIFY that the   *)
(* client does not answer with 200 within its time counts as failed, even  *)
(* when the client did receive it.                                         *)
(***************************************************************************)
EXTENDS Naturals, FiniteSets, Functions

CONSTANTS
  Sids,         \* subscriptions; a SID is used once
  ServiceOf,    \* SID -> the service it was made for
  Rescans,      \* tasks that may be inside rescan at the same time
  SeqModulus,   \* u32: 2^32
  MaxUpdates,   \* bound on publications of a catalog
  MaxTime,      \* bound on the clock
  MaxRenewals   \* bound on SUBSCRIBE with a SID

CONTENT_DIRECTORY == "ContentDirectory"
CONNECTION_MANAGER == "ConnectionManager"

ASSUME EventingAssumption ==
  /\ IsFiniteSet(Sids) /\ IsFiniteSet(Rescans)
  /\ ServiceOf \in [Sids -> {CONTENT_DIRECTORY, CONNECTION_MANAGER}]
  /\ SeqModulus \in Nat \ {0, 1}
  /\ MaxUpdates \in Nat \ {0} /\ MaxTime \in Nat /\ MaxRenewals \in Nat

VARIABLES
  now,        \* the clock
  updateId,   \* catalog.update_id
  writers,    \* rescans that hold the catalog's write lock or queue for it
  registry,   \* Registry::subscriptions: sid -> [seq, expires]
  initial,    \* sid -> the task that sends its initial NOTIFY
  task,       \* rescan -> its progress
  heard,      \* sid -> the values of the events its client has received
  answered,   \* sid -> the number of NOTIFYs it answered with 200 in time
  renewals,   \* number of renewals so far
  lapsed      \* the subscriptions that have been past their time at some moment

vars == <<now, updateId, writers, registry, initial, task, heard,
          answered, renewals, lapsed>>

Subscribed == DOMAIN registry

NotMade == [pc |-> "none", value |-> 0]
Idle == [pc |-> "idle", value |-> 0, service |-> CONTENT_DIRECTORY, queue |-> << >>, sid |-> {}]

Init ==
  /\ now = 0
  /\ updateId = 1
  /\ writers = {}
  /\ registry = << >>
  /\ initial = [s \in Sids |-> NotMade]
  /\ task = [r \in Rescans |-> Idle]
  /\ heard = [s \in Sids |-> {}]
  /\ answered = [s \in Sids |-> 0]
  /\ renewals = 0
  /\ lapsed = {}

\* Subscription::is_expired
Expired(s) == now >= registry[s].expires

Tick ==
  /\ now < MaxTime
  /\ now' = now + 1
  /\ lapsed' = lapsed \union {s \in Subscribed : now' >= registry[s].expires}
  /\ UNCHANGED <<updateId, writers, registry, initial, task, heard,
                 answered, renewals>>

-----------------------------------------------------------------------------
(***************************************************************************)
(* The registry.  Every operation holds its lock for one step.             *)
(***************************************************************************)

Remove(s) == registry' = Restrict(registry, Subscribed \ {s})

BumpToSent(s, sent) ==
  registry' = IF s \in Subscribed
              THEN [registry EXCEPT ![s].seq = (sent + 1) % SeqModulus]
              ELSE registry

\* bump_seq: adds to what the registry holds now, not to what was sent.
BumpSeq(s, sent) ==
  registry' = IF s \in Subscribed
              THEN [registry EXCEPT ![s].seq = (@ + 1) % SeqModulus]
              ELSE registry

ListAnswered(service) ==
  [s \in {t \in Subscribed : ServiceOf[t] = service /\ registry[t].seq > 0} |-> registry[s].seq]

\* list: what a notification will work through, each with the SEQ it has now.
Listed(service) ==
  [s \in {t \in Subscribed : ServiceOf[t] = service /\ ~Expired(t)} |-> registry[s].seq]

-----------------------------------------------------------------------------
(***************************************************************************)
(* SUBSCRIBE and UNSUBSCRIBE                                               *)
(***************************************************************************)

\* subscribe in routes.rs, up to Registry::subscribe: the subscription lasts
\* TIMEOUT_SECS whatever the client asked for.
Subscribe(s) ==
  /\ initial[s].pc = "none"
  /\ registry' = [t \in Subscribed \union {s} |->
                    IF t = s THEN [seq |-> 0, expires |-> now + 1] ELSE registry[t]]
  /\ initial' = [initial EXCEPT ![s].pc = "body"]
  /\ UNCHANGED <<now, updateId, writers, task, heard, answered, renewals, lapsed>>

\* renew: an expired subscription that nobody purged yet lives on.
Renew(s) ==
  /\ s \in Subscribed
  /\ renewals < MaxRenewals
  /\ renewals' = renewals + 1
  /\ registry' = [registry EXCEPT ![s].expires = now + 1]
  /\ UNCHANGED <<now, updateId, writers, initial, task, heard, answered, lapsed>>

Unsubscribe(s) ==
  /\ s \in Subscribed
  /\ Remove(s)
  /\ UNCHANGED <<now, updateId, writers, initial, task, heard, answered, renewals, lapsed>>

\* AppState::update_id: try_read fails while a writer holds the lock or
\* queues for it.
ReadUpdateId == IF writers = {} THEN updateId ELSE 0

\* event_body, read after the subscription is in the registry.
InitialBody(s) ==
  /\ initial[s].pc = "body"
  /\ initial' = [initial EXCEPT ![s] = [pc |-> "send", value |-> ReadUpdateId]]
  /\ UNCHANGED <<now, updateId, writers, registry, task, heard,
                 answered, renewals, lapsed>>

\* send_notify for the client of s: answered in time, received but not
\* answered in time, or lost.
Answered(s, value) ==
  /\ heard' = [heard EXCEPT ![s] = @ \union {value}]
  /\ answered' = [answered EXCEPT ![s] = @ + 1]

NotAnswered(s, value) ==
  /\ heard' \in {heard, [heard EXCEPT ![s] = @ \union {value}]}
  /\ UNCHANGED answered

\* The task spawned by subscribe: a failure leaves the subscription waiting.
InitialNotify(s) ==
  /\ initial[s].pc = "send"
  /\ \/ /\ Answered(s, initial[s].value)
        /\ initial' = [initial EXCEPT ![s].pc = "bump"]
     \/ /\ NotAnswered(s, initial[s].value)
        /\ initial' = [initial EXCEPT ![s].pc = "failed"]
  /\ UNCHANGED <<now, updateId, writers, registry, task, renewals, lapsed>>

InitialBump(s) ==
  /\ initial[s].pc = "bump"
  /\ BumpSeq(s, 0)
  /\ initial' = [initial EXCEPT ![s].pc = "done"]
  /\ UNCHANGED <<now, updateId, writers, task, heard, answered, renewals, lapsed>>

-----------------------------------------------------------------------------
(***************************************************************************)
(* The end of a rescan                                                     *)
(***************************************************************************)

At(r, pc) == task[r].pc = pc

\* rescan reaches catalog.write().await.
AwaitWriteLock(r) ==
  /\ At(r, "idle")
  /\ updateId + Cardinality(writers) < MaxUpdates
  /\ writers' = writers \union {r}
  /\ task' = [task EXCEPT ![r].pc = "lock"]
  /\ UNCHANGED <<now, updateId, registry, initial, heard, answered, renewals, lapsed>>

\* The catalog is replaced and numbered; a fresh catalog brings 1 along.
PublishCatalog(r) ==
  /\ At(r, "lock")
  /\ updateId' = IF updateId + 1 > 1 THEN updateId + 1 ELSE 1
  /\ writers' = writers \ {r}
  /\ task' = [task EXCEPT ![r].pc = "list", ![r].value = updateId']
  /\ UNCHANGED <<now, registry, initial, heard, answered, renewals, lapsed>>

\* notify_all, the head of the loop over the two services.
ListService(r) ==
  /\ At(r, "list")
  /\ task' = [task EXCEPT ![r].pc = "send", ![r].queue = Listed(task[r].service)]
  /\ UNCHANGED <<now, updateId, writers, registry, initial, heard,
                 answered, renewals, lapsed>>

\* The value of an event: SystemUpdateID, or nothing that changes.
EventValue(r) == IF task[r].service = CONTENT_DIRECTORY THEN task[r].value ELSE 0

Notify(r) ==
  /\ At(r, "send")
  /\ \E s \in DOMAIN task[r].queue :
       \/ /\ Answered(s, EventValue(r))
          /\ task' = [task EXCEPT ![r].pc = "bump", ![r].sid = {s}]
       \/ /\ NotAnswered(s, EventValue(r))
          /\ task' = [task EXCEPT ![r].pc = "drop", ![r].sid = {s}]
  /\ UNCHANGED <<now, updateId, writers, registry, initial, renewals, lapsed>>

Served(r, s) ==
  task' = [task EXCEPT ![r].pc = "send", ![r].sid = {},
                       ![r].queue = Restrict(@, DOMAIN @ \ {s})]

BumpAfterNotify(r) ==
  /\ At(r, "bump")
  /\ \E s \in task[r].sid : BumpSeq(s, task[r].queue[s]) /\ Served(r, s)
  /\ UNCHANGED <<now, updateId, writers, initial, heard, answered, renewals, lapsed>>

RetryUnreachable(r) ==
  /\ At(r, "drop")
  /\ task' = [task EXCEPT ![r].pc = "send", ![r].sid = {}]
  /\ UNCHANGED <<now, updateId, writers, registry, initial, heard, answered,
                 renewals, lapsed>>

\* A client that did not answer loses its subscription.
DropUnreachable(r) ==
  /\ At(r, "drop")
  /\ \E s \in task[r].sid : Remove(s) /\ Served(r, s)
  /\ UNCHANGED <<now, updateId, writers, initial, heard, answered, renewals, lapsed>>

NextService(r) ==
  /\ At(r, "send")
  /\ task[r].queue = << >>
  /\ task' = [task EXCEPT ![r] =
       IF @.service = CONTENT_DIRECTORY
       THEN [@ EXCEPT !.pc = "list", !.service = CONNECTION_MANAGER]
       ELSE [@ EXCEPT !.pc = "purge"]]
  /\ UNCHANGED <<now, updateId, writers, registry, initial, heard,
                 answered, renewals, lapsed>>

\* purge_expired ends notify_all.
PurgeExpired(r) ==
  /\ At(r, "purge")
  /\ registry' = Restrict(registry, {s \in Subscribed : ~Expired(s)})
  /\ task' = [task EXCEPT ![r] = Idle]
  /\ UNCHANGED <<now, updateId, writers, initial, heard, answered, renewals, lapsed>>

InitialStep(s) == InitialBody(s) \/ InitialNotify(s) \/ InitialBump(s)

RescanStep(r) ==
  \/ PublishCatalog(r)
  \/ ListService(r)
  \/ Notify(r)
  \/ BumpAfterNotify(r)
  \/ DropUnreachable(r)
  \/ NextService(r)
  \/ PurgeExpired(r)

Next ==
  \/ Tick
  \/ \E s \in Sids : Subscribe(s) \/ Renew(s) \/ Unsubscribe(s) \/ InitialStep(s)
  \/ \E r \in Rescans : AwaitWriteLock(r) \/ RescanStep(r)

Spec == Init /\ [][Next]_vars

\* The runtime runs every spawned task, every send ends within its timeout,
\* and nobody holds the catalog's lock for ever.
Fairness ==
  /\ \A s \in Sids : WF_vars(InitialStep(s))
  /\ \A r \in Rescans : WF_vars(RescanStep(r))

FairSpec == Spec /\ Fairness

-----------------------------------------------------------------------------
(***************************************************************************)
(* Properties                                                              *)
(***************************************************************************)

Pcs == {"idle", "lock", "list", "send", "bump", "drop", "purge"}

TypeOK ==
  /\ now \in 0 .. MaxTime
  /\ updateId \in 1 .. MaxUpdates
  /\ writers = {r \in Rescans : At(r, "lock")}
  /\ Subscribed \subseteq Sids
  /\ \A s \in Subscribed : registry[s] \in [seq : 0 .. SeqModulus - 1, expires : Nat]
  /\ \A s \in Sids :
       /\ initial[s].pc \in {"none", "body", "send", "bump", "failed", "done"}
       /\ initial[s].value \in 0 .. MaxUpdates
  /\ \A r \in Rescans :
       /\ task[r].pc \in Pcs
       /\ task[r].value \in 0 .. MaxUpdates
       /\ DOMAIN task[r].queue \subseteq Sids
       /\ task[r].sid \subseteq DOMAIN task[r].queue
       /\ task[r].sid # {} <=> task[r].pc \in {"bump", "drop"}
  /\ heard \in [Sids -> SUBSET (0 .. MaxUpdates)]
  /\ answered \in [Sids -> Nat]
  /\ renewals \in 0 .. MaxRenewals
  /\ lapsed \subseteq Sids

\* NOTIFYs of s that were answered but not counted yet.
Uncounted(s) ==
  (IF initial[s].pc = "bump" THEN 1 ELSE 0)
    + Cardinality({r \in Rescans : At(r, "bump") /\ task[r].sid = {s}})

\* The SEQ of a subscription counts the NOTIFYs its client answered: the
\* initial NOTIFY and the notifications of rescans that run at the same time
\* never lose a count, although each sends with the SEQ of an older copy.
SeqCountsAnswers ==
  \A s \in Subscribed :
    (registry[s].seq + Uncounted(s)) % SeqModulus = answered[s] % SeqModulus

\* Subscriptions are well formed and no count of a SEQ is lost, whatever
\* overlaps (gena.rs).
Inv == TypeOK /\ SeqCountsAnswers

\* rescan: once every notification is through, a subscription to the
\* ContentDirectory that still stands has been told the SystemUpdateID of the
\* catalog it would browse now, also when it was made while rescans ran.
\* Not so when its initial NOTIFY failed, nor when it was renewed only after
\* its time was over: the list of a notification leaves it out.
NobodyKeepsAnOldList ==
  (\A r \in Rescans : At(r, "idle")) =>
    \A s \in Subscribed :
      ServiceOf[s] = CONTENT_DIRECTORY /\ initial[s].pc = "done" /\ s \notin lapsed
        => updateId \in heard[s]

\* A rescan always ends, whatever the TVs answer, and the watcher's loop and
\* the auto-scan that wait for it go on.
RescanEnds == \A r \in Rescans : At(r, "lock") ~> At(r, "idle")

=============================================================================
