------------------------------ MODULE Profiles ------------------------------
(***************************************************************************)
(* Device profiles and the register of devices: the REST handlers of       *)
(* rustiio-server/src/routes.rs and api/profiles.rs, the live register     *)
(* (rustiio-profiles/src/capture.rs), its rows in the database             *)
(* (rustiio-library/src/store/devices.rs) and reload_profiles of state.rs. *)
(*                                                                         *)
(* A profile is the set of edits it carries over the built-in text.  The   *)
(* published set of profiles, the files, the live register and the rows    *)
(* are four stores that no common lock protects: a handler goes from one   *)
(* to the next while other handlers do the same.                           *)
(***************************************************************************)
EXTENDS Naturals, FiniteSets

CONSTANTS
  Ids,          \* ids of profiles
  Builtins,     \* ids of the built-in ones
  Edits,        \* changes a user can make to the rules of a profile
  Devices,
  AutoProfile,  \* device -> the built-in profile its headers lead to
  Admins,       \* REST handlers that may run at the same time
  Requests,     \* requests of devices that may run at the same time
  Nothing,
  Torn,         \* the contents of a file that was cut off while it was written
  MaxOps,       \* bound on REST requests
  MaxClock,     \* bound on the clock
  MaxRestarts   \* bound on restarts of the server

ASSUME ProfilesAssumption ==
  /\ Builtins \subseteq Ids
  /\ AutoProfile \in [Devices -> Builtins]
  /\ Nothing \notin Ids
  /\ \A content \in SUBSET Edits : Nothing # content /\ Torn # content
  /\ Nothing # Torn
  /\ \A choice \in Ids \union {Nothing}, first \in 0 .. MaxClock :
       Nothing # [choice |-> choice, first |-> first]
  /\ MaxOps \in Nat /\ MaxClock \in Nat \ {0} /\ MaxRestarts \in Nat

VARIABLES
  files,        \* id -> the edits in <id>.toml, Torn or Nothing
  published,    \* id -> the edits of the profile in AppState::profiles, or Nothing
  rows,         \* device -> its row in the table devices: [choice, first], or Nothing
  capture,      \* device -> its first_seen in the live register, or Nothing
  admin,        \* REST handler -> [pc, op, id, content, device, loaded]
  request,      \* request of a device -> [pc, device, choice, profile, first]
  clock,
  ops,          \* REST requests so far
  restarts,     \* restarts so far
  saved,        \* id -> edits whose save was finished and not taken back (history)
  disturbed     \* handlers overlapped, a restart cut one off, or a profile that has
                \* no built-in rules was reset (history)

vars == <<files, published, rows, capture, admin, request, clock, ops, restarts,
          saved, disturbed>>

profiles == <<files, published, saved>>
devices == <<rows, capture>>
bounds == <<clock, ops, restarts>>

IdleAdmin == [pc |-> "idle", op |-> "none", id |-> Nothing, content |-> {},
              device |-> Nothing, loaded |-> [id \in Ids |-> Nothing]]

IdleRequest == [pc |-> "idle", device |-> Nothing, choice |-> Nothing,
                profile |-> Nothing, first |-> 0]

\* Files that are lost to a built-in profile of the same id.
BuiltinsWin(file) ==
  [id \in Ids |->
     IF id \in Builtins THEN {}
     ELSE IF file[id] = Torn THEN Nothing ELSE file[id]]

\* builtin::load and load_dir: a file replaces the built-in profile of its id,
\* one that does not parse is passed over.
Load(file) ==
  [id \in Ids |->
     IF file[id] \notin {Nothing, Torn} THEN file[id]
     ELSE IF id \in Builtins THEN {} ELSE Nothing]

Init ==
  /\ files = [id \in Ids |-> Nothing]
  /\ published = Load(files)
  /\ rows = [d \in Devices |-> Nothing]
  /\ capture = [d \in Devices |-> Nothing]
  /\ admin = [a \in Admins |-> IdleAdmin]
  /\ request = [r \in Requests |-> IdleRequest]
  /\ clock = 1 /\ ops = 0 /\ restarts = 0
  /\ saved = [id \in Ids |-> {}]
  /\ disturbed = FALSE

-----------------------------------------------------------------------------
(***************************************************************************)
(* REST requests about profiles                                            *)
(***************************************************************************)

Exists(id) == published[id] # Nothing

Disturbs(op, id) ==
  (\E b \in Admins : admin[b].pc # "idle") \/ (op = "reset" /\ id \notin Builtins)

\* A handler has read what it needs and goes on with pc.
Begin(a, pc, op, id, content, device) ==
  /\ admin[a].pc = "idle"
  /\ ops < MaxOps
  /\ ops' = ops + 1
  /\ admin' = [admin EXCEPT ![a] =
                 [IdleAdmin EXCEPT !.pc = pc, !.op = op, !.id = id,
                                   !.content = content, !.device = device]]
  /\ disturbed' = (disturbed \/ Disturbs(op, id))
  /\ UNCHANGED <<profiles, devices, request, clock, restarts>>

\* The edit is merged into the published profile, not into the file.
BeginSave(a) ==
  \E id \in Ids, e \in Edits :
    Exists(id) /\ Begin(a, "write", "save", id, published[id] \union {e}, Nothing)

\* A new profile gets a free id and starts as a copy of an existing one.
BeginCreate(a) ==
  \E id \in Ids, source \in Ids :
    /\ ~Exists(id) /\ files[id] = Nothing
    /\ Exists(source)
    /\ Begin(a, "write", "create", id, published[source], Nothing)

\* POST /api/profile/{key}: the profile the device got, under an id of the
\* user's choice, whether or not that id is taken.
BeginSaveFromDevice(a) ==
  \E d \in Devices, id, base \in Ids :
    /\ capture[d] # Nothing
    /\ Exists(base)
    /\ Begin(a, "write", "from_device", id, published[base], Nothing)

\* The handler takes any id; the page sends built-in ones (web/src/routes/
\* Devices.svelte).
BeginReset(a) ==
  \E id \in Ids : Begin(a, "remove", "reset", id, {}, Nothing)

BeginDelete(a) ==
  \E id \in Ids :
    /\ Exists(id) /\ files[id] # Nothing
    /\ Begin(a, "remove", "delete", id, {}, Nothing)

BeginReload(a) == Begin(a, "reload", "reload", Nothing, {}, Nothing)

Goto(a, pc) == admin' = [admin EXCEPT ![a].pc = pc]

\* fs::write empties the file, then fills it.
WriteBegins(a) ==
  /\ admin[a].pc = "write"
  /\ files' = [files EXCEPT ![admin[a].id] = Torn]
  /\ Goto(a, "writing")
  /\ UNCHANGED <<published, saved, devices, request, bounds, disturbed>>

WriteEnds(a) ==
  /\ admin[a].pc = "writing"
  /\ files' = [files EXCEPT ![admin[a].id] = admin[a].content]
  /\ saved' = [saved EXCEPT ![admin[a].id] =
                 IF admin[a].op = "save" THEN @ \union admin[a].content ELSE {}]
  /\ Goto(a, "reload")
  /\ UNCHANGED <<published, devices, request, bounds, disturbed>>

\* Reset takes a missing file for done; delete fails if the file is gone.
RemoveFile(a) ==
  /\ admin[a].pc = "remove"
  /\ files' = [files EXCEPT ![admin[a].id] = Nothing]
  /\ saved' = [saved EXCEPT ![admin[a].id] = {}]
  /\ admin' = [admin EXCEPT ![a] =
       IF admin[a].op = "reset" THEN [@ EXCEPT !.pc = "reload"]
       ELSE IF files[admin[a].id] = Nothing THEN IdleAdmin
       ELSE [@ EXCEPT !.pc = "clear"]]
  /\ UNCHANGED <<published, devices, request, bounds, disturbed>>

KeepChoices(a) ==
  /\ admin[a].pc = "clear"
  /\ Goto(a, "reload")
  /\ UNCHANGED <<profiles, devices, request, bounds, disturbed>>

\* clear_profile_choice: the devices of the deleted profile go back to automatic.
ClearChoices(a) ==
  /\ admin[a].pc = "clear"
  /\ rows' = [d \in Devices |->
       IF rows[d] # Nothing /\ rows[d].choice = admin[a].id
       THEN [rows[d] EXCEPT !.choice = Nothing] ELSE rows[d]]
  /\ Goto(a, "reload")
  /\ UNCHANGED <<profiles, capture, request, bounds, disturbed>>

\* reload_profiles reads the folder, then waits for the lock and swaps.
ReloadReads(a) ==
  /\ admin[a].pc = "reload"
  /\ admin' = [admin EXCEPT ![a] = [@ EXCEPT !.pc = "publish", !.loaded = Load(files)]]
  /\ UNCHANGED <<profiles, devices, request, bounds, disturbed>>

ReloadPublishes(a) ==
  /\ admin[a].pc = "publish"
  /\ published' = admin[a].loaded
  /\ admin' = [admin EXCEPT ![a] = IdleAdmin]
  /\ UNCHANGED <<files, saved, devices, request, bounds, disturbed>>

-----------------------------------------------------------------------------
(***************************************************************************)
(* REST requests about devices                                             *)
(***************************************************************************)

\* The profile must exist; Nothing stands for automatic recognition.
BeginAssign(a) ==
  \E d \in Devices, id \in Ids \union {Nothing} :
    /\ id # Nothing => Exists(id)
    /\ Begin(a, "assign", "assign", id, {}, d)

\* set_profile_choice inserts the row of a device that was never seen.
Assign(a) ==
  /\ admin[a].pc = "assign"
  /\ rows' = [rows EXCEPT ![admin[a].device] =
       IF @ = Nothing THEN [choice |-> admin[a].id, first |-> 0]
       ELSE [@ EXCEPT !.choice = admin[a].id]]
  /\ admin' = [admin EXCEPT ![a] = IdleAdmin]
  /\ UNCHANGED <<profiles, capture, request, bounds, disturbed>>

BeginDeleteDevice(a) ==
  \E d \in Devices : Begin(a, "erase_row", "delete_device", Nothing, {}, d)

ErasesLiveFirst(a) ==
  /\ \/ /\ admin[a].pc = "erase_row"
        /\ capture' = [capture EXCEPT ![admin[a].device] = Nothing]
        /\ Goto(a, "erase_live")
        /\ UNCHANGED rows
     \/ /\ admin[a].pc = "erase_live"
        /\ rows' = [rows EXCEPT ![admin[a].device] = Nothing]
        /\ admin' = [admin EXCEPT ![a] = IdleAdmin]
        /\ UNCHANGED capture
  /\ UNCHANGED <<profiles, request, bounds, disturbed>>

\* api_device_delete: first the row, then the live record.
EraseDevice(a) ==
  /\ \/ /\ admin[a].pc = "erase_row"
        /\ rows' = [rows EXCEPT ![admin[a].device] = Nothing]
        /\ Goto(a, "erase_live")
        /\ UNCHANGED capture
     \/ /\ admin[a].pc = "erase_live"
        /\ capture' = [capture EXCEPT ![admin[a].device] = Nothing]
        /\ admin' = [admin EXCEPT ![a] = IdleAdmin]
        /\ UNCHANGED rows
  /\ UNCHANGED <<profiles, request, bounds, disturbed>>

-----------------------------------------------------------------------------
(***************************************************************************)
(* Requests of devices: profile_for                                        *)
(***************************************************************************)

\* The user's choice is read from the database.
ReadChoice(r) ==
  /\ request[r].pc = "idle"
  /\ \E d \in Devices :
       request' = [request EXCEPT ![r] =
         [IdleRequest EXCEPT !.pc = "choice", !.device = d,
            !.choice = IF rows[d] = Nothing THEN Nothing ELSE rows[d].choice]]
  /\ UNCHANGED <<profiles, devices, admin, bounds, disturbed>>

\* A choice that is published wins, otherwise the device is recognised.
ProfileFor(choice, d) ==
  IF choice # Nothing /\ Exists(choice) THEN choice ELSE AutoProfile[d]

Identify(r) ==
  /\ request[r].pc = "choice"
  /\ request' = [request EXCEPT ![r] =
       [@ EXCEPT !.pc = "identified",
                 !.profile = ProfileFor(request[r].choice, request[r].device)]]
  /\ UNCHANGED <<profiles, devices, admin, bounds, disturbed>>

\* Capture::record; the record is copied out for the database.
Record(r) ==
  /\ request[r].pc = "identified"
  /\ LET d == request[r].device
         first == IF capture[d] = Nothing THEN clock ELSE capture[d]
     IN  /\ capture' = [capture EXCEPT ![d] = first]
         /\ request' = [request EXCEPT ![r] = [@ EXCEPT !.pc = "recorded", !.first = first]]
  /\ UNCHANGED <<profiles, rows, admin, bounds, disturbed>>

Smaller(m, n) == IF m < n THEN m ELSE n

\* The row of the requesting device becomes row.
Store(r, row) ==
  /\ request[r].pc = "recorded"
  /\ rows' = [rows EXCEPT ![request[r].device] = row]
  /\ request' = [request EXCEPT ![r] = IdleRequest]
  /\ UNCHANGED <<profiles, capture, admin, bounds, disturbed>>

Old(r) == rows[request[r].device]

Earlier(r) ==
  IF Old(r) = Nothing \/ request[r].first < Old(r).first THEN request[r].first ELSE Old(r).first

KeptChoice(r) == IF Old(r) = Nothing THEN Nothing ELSE Old(r).choice

SaveReplaces(r) == Store(r, [choice |-> Nothing, first |-> Earlier(r)])

SaveLatest(r) == Store(r, [choice |-> KeptChoice(r), first |-> request[r].first])

\* devices::save: an upsert that leaves the choice alone and keeps the earlier
\* first_seen.
SaveRow(r) == Store(r, [choice |-> KeptChoice(r), first |-> Earlier(r)])

-----------------------------------------------------------------------------

Tick ==
  /\ clock < MaxClock
  /\ clock' = clock + 1
  /\ UNCHANGED <<profiles, devices, admin, request, ops, restarts, disturbed>>

\* The profiles are loaded again and the live register is seeded from the rows.
Restart ==
  /\ restarts < MaxRestarts
  /\ restarts' = restarts + 1
  /\ published' = Load(files)
  /\ capture' = [d \in Devices |-> IF rows[d] = Nothing THEN Nothing ELSE rows[d].first]
  /\ admin' = [a \in Admins |-> IdleAdmin]
  /\ request' = [r \in Requests |-> IdleRequest]
  /\ disturbed' = (disturbed \/ \E a \in Admins : admin[a].pc # "idle")
  /\ UNCHANGED <<files, saved, rows, clock, ops>>

ProfileStep(a) ==
  \/ BeginSave(a)
  \/ BeginCreate(a)
  \/ BeginSaveFromDevice(a)
  \/ BeginReset(a)
  \/ BeginDelete(a)
  \/ BeginReload(a)
  \/ WriteBegins(a)
  \/ WriteEnds(a)
  \/ RemoveFile(a)
  \/ ClearChoices(a)
  \/ ReloadReads(a)
  \/ ReloadPublishes(a)

DeviceStep(a) == BeginAssign(a) \/ Assign(a) \/ BeginDeleteDevice(a) \/ EraseDevice(a)

RequestStep(r) == ReadChoice(r) \/ Identify(r) \/ Record(r) \/ SaveRow(r)

Next ==
  \/ \E a \in Admins : ProfileStep(a) \/ DeviceStep(a)
  \/ \E r \in Requests : RequestStep(r)
  \/ Tick
  \/ Restart

Spec == Init /\ [][Next]_vars

-----------------------------------------------------------------------------
(***************************************************************************)
(* Properties                                                              *)
(***************************************************************************)

Profile == (SUBSET Edits) \union {Nothing}

TypeOK ==
  /\ \A id \in Ids : files[id] \in Profile \union {Torn} /\ published[id] \in Profile
  /\ \A id \in Builtins : Exists(id)
  /\ \A d \in Devices :
       /\ rows[d] = Nothing \/ rows[d] \in [choice : Ids \union {Nothing}, first : 0 .. MaxClock]
       /\ capture[d] \in 0 .. MaxClock \union {Nothing}
  /\ \A r \in Requests :
       request[r].pc \in {"identified", "recorded"} => request[r].profile \in Ids
  /\ clock \in 1 .. MaxClock /\ ops \in 0 .. MaxOps /\ restarts \in 0 .. MaxRestarts
  /\ disturbed \in BOOLEAN

\* "Izbor korisnika se ne dira pri svakom zahtjevu" (state.rs): the choice of a
\* user goes only by an assignment, with the device or with the profile, however
\* the requests of the device interleave with the handlers and restarts.
ChoiceIsTheUsers(d) ==
  /\ rows[d] # Nothing
  /\ rows[d].choice # Nothing
  /\ rows'[d] = Nothing \/ rows'[d].choice # rows[d].choice
  => \E a \in Admins :
       /\ admin[a].pc \in {"assign", "clear", "erase_row"}
       /\ admin'[a] # admin[a]

\* devices::save: first_seen of a row never moves to a later time, even when
\* records made before and after a deletion reach the table out of order.
FirstSeenNeverLater(d) ==
  rows[d] # Nothing /\ rows'[d] # Nothing => rows'[d].first <= rows[d].first

\* What the table knows of a device no request of the device can take from it.
RequestsForgetNothing ==
  [][\A d \in Devices : ChoiceIsTheUsers(d) /\ FirstSeenNeverLater(d)]_vars

\* A device the page shows is in the database too, so that it is there after a
\* restart: when none of its requests and no deletion of it is under way.
LiveDeviceIsRemembered ==
  \A d \in Devices :
    /\ capture[d] # Nothing
    /\ \A r \in Requests : request[r].pc = "recorded" => request[r].device # d
    /\ \A a \in Admins : admin[a].pc = "erase_live" => admin[a].device # d
    => rows[d] # Nothing

\* The four stores are well formed and the register does not run ahead of the
\* database for good (profile_for, api_device_delete).
Inv == TypeOK /\ LiveDeviceIsRemembered

Quiet == ~disturbed /\ \A a \in Admins : admin[a].pc = "idle"

\* api_profile_save: an edit that was saved is in force, after later saves,
\* reloads and restarts, until it is taken back; when handlers did not overlap.
SavedEditsSurvive ==
  Quiet => \A id \in Ids :
    saved[id] # {} => published[id] # Nothing /\ saved[id] \subseteq published[id]

\* devices.rs: after a profile is deleted no device stays bound to something
\* that does not exist; when handlers did not overlap and nobody reset a profile
\* that has no built-in rules, which removes it and clears no choice.
NoDanglingChoice ==
  Quiet => \A d \in Devices :
    rows[d] # Nothing /\ rows[d].choice # Nothing => Exists(rows[d].choice)

\* What was edited and what was chosen stand as long as handlers do not overlap
\* (api_profile_save, api_profile_delete).
EditsAndChoicesStand == SavedEditsSurvive /\ NoDanglingChoice
=============================================================================
