---------------------------- MODULE ProfilesProofs ----------------------------
(***************************************************************************)
(* Proofs about Profiles, for any profiles, devices, handlers, requests    *)
(* and bounds: the four stores are well formed, a device on the page is in *)
(* the database, requests forget nothing the database knows, and edits and *)
(* choices stand as long as handlers do not overlap.                       *)
(***************************************************************************)
EXTENDS Profiles, TLAPS

-----------------------------------------------------------------------------
(* Types.                                                                  *)

Working == {"write", "writing", "remove", "clear"}
OnDevice == {"assign", "erase_row", "erase_live"}
AdminPcs == Working \union OnDevice \union {"idle", "reload", "publish"}
Ops == {"none", "save", "create", "from_device", "reset", "delete", "reload", "assign", "delete_device"}

AdminRecords ==
  [pc : AdminPcs, op : Ops, id : Ids \union {Nothing}, content : SUBSET Edits,
   device : Devices \union {Nothing}, loaded : [Ids -> Profile]]

RequestRecords ==
  [pc : {"idle", "choice", "identified", "recorded"}, device : Devices \union {Nothing},
   choice : Ids \union {Nothing}, profile : Ids \union {Nothing}, first : 0 .. MaxClock]

Rows == [choice : Ids \union {Nothing}, first : 0 .. MaxClock]

FilesOK ==
  /\ files \in [Ids -> Profile \union {Torn}]
  /\ published \in [Ids -> Profile]
  /\ saved \in [Ids -> SUBSET Edits]

DevicesOK ==
  /\ rows \in [Devices -> Rows \union {Nothing}]
  /\ capture \in [Devices -> 0 .. MaxClock \union {Nothing}]

\* A handler knows what it works on.
AdminsOK ==
  /\ admin \in [Admins -> AdminRecords]
  /\ \A a \in Admins : /\ admin[a].pc \in Working => admin[a].id \in Ids
                       /\ admin[a].pc \in OnDevice => admin[a].device \in Devices

RequestsOK ==
  /\ request \in [Requests -> RequestRecords]
  /\ \A r \in Requests : /\ request[r].pc # "idle" => request[r].device \in Devices
                         /\ request[r].pc \in {"identified", "recorded"} => request[r].profile \in Ids

BoundsOK ==
  /\ clock \in 1 .. MaxClock /\ ops \in 0 .. MaxOps /\ restarts \in 0 .. MaxRestarts
  /\ disturbed \in BOOLEAN

\* The built-in profiles are in every set of profiles.
BuiltinsStay ==
  \A id \in Builtins :
    published[id] # Nothing /\ \A a \in Admins : admin[a].pc = "publish" => admin[a].loaded[id] # Nothing

Types == FilesOK /\ DevicesOK /\ AdminsOK /\ RequestsOK /\ BoundsOK /\ BuiltinsStay

\* builtin::load and load_dir: what the files and the built-in text make.
LEMMA LoadFacts ==
  ASSUME NEW f \in [Ids -> Profile \union {Torn}]
  PROVE  /\ Load(f) \in [Ids -> Profile]
         /\ \A id \in Builtins : Load(f)[id] # Nothing
         /\ \A id \in Ids : f[id] \in SUBSET Edits => Load(f)[id] = f[id] /\ Load(f)[id] # Nothing
         /\ \A id \in Ids : Load(f)[id] # Nothing <=> id \in Builtins \/ f[id] \in SUBSET Edits
  <1>1. \A c \in SUBSET Edits : c # Nothing /\ c # Torn
    BY ProfilesAssumption
  <1>2. \A id \in Ids : Load(f)[id] = IF f[id] \notin {Nothing, Torn} THEN f[id]
                                      ELSE IF id \in Builtins THEN {} ELSE Nothing
    BY DEF Load
  <1>3. \A id \in Ids : f[id] \in SUBSET Edits \/ f[id] \in {Nothing, Torn}
    BY DEF Profile
  <1>4. \A id \in Ids : Load(f)[id] \in Profile
    BY <1>2, <1>3 DEF Profile
  <1>5. Load(f) \in [Ids -> Profile]
    BY <1>4 DEF Load
  <1>6. QED
    BY <1>1, <1>2, <1>3, <1>5, ProfilesAssumption

LEMMA RowsAreRows == \A row \in Rows : row # Nothing
  <1> SUFFICES ASSUME NEW row \in Rows PROVE row # Nothing
    OBVIOUS
  <1>1. row = [choice |-> row.choice, first |-> row.first]
        /\ row.choice \in Ids \union {Nothing} /\ row.first \in 0 .. MaxClock
    BY DEF Rows
  <1>2. QED
    BY <1>1, ProfilesAssumption

LEMMA BoundsTypes == MaxOps \in Nat /\ MaxClock \in Nat \ {0} /\ MaxRestarts \in Nat
BY ProfilesAssumption

LEMMA IdleTypes == IdleAdmin \in AdminRecords /\ IdleAdmin.pc = "idle"
                   /\ IdleRequest \in RequestRecords /\ IdleRequest.pc = "idle"
BY ProfilesAssumption DEF IdleAdmin, AdminRecords, AdminPcs, Ops, Profile, IdleRequest, RequestRecords

LEMMA TypesStart == Init => Types
  <1> SUFFICES ASSUME Init PROVE Types
    OBVIOUS
  <1>1. FilesOK /\ BuiltinsStay
    <2>1. files \in [Ids -> Profile \union {Torn}] /\ published = Load(files) /\ saved \in [Ids -> SUBSET Edits]
      BY DEF Init, Profile
    <2>2. \A a \in Admins : admin[a].pc # "publish"
      BY IdleTypes DEF Init
    <2>3. QED
      BY <2>1, <2>2, LoadFacts DEF FilesOK, BuiltinsStay
  <1>2. DevicesOK
    BY DEF Init, DevicesOK
  <1>3. AdminsOK /\ RequestsOK
    BY IdleTypes DEF Init, AdminsOK, RequestsOK, Working, OnDevice
  <1>4. BoundsOK
    <2>1. clock \in 1 .. MaxClock /\ ops \in 0 .. MaxOps /\ restarts \in 0 .. MaxRestarts
      BY BoundsTypes DEF Init
    <2>2. disturbed \in BOOLEAN
      BY DEF Init
    <2>3. QED
      BY <2>1, <2>2 DEF BoundsOK
  <1>5. QED
    BY <1>1, <1>2, <1>3, <1>4 DEF Types

-----------------------------------------------------------------------------
(* What each step does.                                                    *)

\* The handler a, or the request r, becomes x.
AdminBecomes(a, x) ==
  /\ admin' \in [Admins -> AdminRecords] /\ admin'[a] = x
  /\ \A b \in Admins : b # a => admin'[b] = admin[b]

RequestBecomes(r, x) ==
  /\ request' \in [Requests -> RequestRecords] /\ request'[r] = x
  /\ \A q \in Requests : q # r => request'[q] = request[q]

LEMMA AdminBecomesIntro ==
  ASSUME AdminsOK, NEW a \in Admins, NEW x \in AdminRecords, admin' = [admin EXCEPT ![a] = x]
  PROVE  AdminBecomes(a, x)
BY DEF AdminsOK, AdminBecomes

LEMMA RequestBecomesIntro ==
  ASSUME RequestsOK, NEW r \in Requests, NEW x \in RequestRecords, request' = [request EXCEPT ![r] = x]
  PROVE  RequestBecomes(r, x)
BY DEF RequestsOK, RequestBecomes

\* What a handler has found out when it begins.
Fits(pc, op, id, content, device) ==
  /\ pc \in {"write", "remove", "reload", "assign", "erase_row"}
  /\ op \in Ops /\ id \in Ids \union {Nothing} /\ content \in SUBSET Edits
  /\ device \in Devices \union {Nothing}
  /\ pc \in Working => id \in Ids
  /\ pc \in OnDevice => device \in Devices
  /\ pc = "write" /\ op = "save" => published[id] # Nothing /\ published[id] \subseteq content
  /\ pc = "remove" => op \in {"delete", "reset"}
  /\ pc = "assign" => id = Nothing \/ published[id] # Nothing

Begins(a) ==
  BeginSave(a) \/ BeginCreate(a) \/ BeginSaveFromDevice(a) \/ BeginReset(a) \/ BeginDelete(a)
    \/ BeginReload(a) \/ BeginAssign(a) \/ BeginDeleteDevice(a)

LEMMA BeginsFits ==
  ASSUME Types, NEW a \in Admins, Begins(a)
  PROVE  \E pc, op, id, content, device :
           Fits(pc, op, id, content, device) /\ Begin(a, pc, op, id, content, device)
  <1> USE DEF Fits, Working, OnDevice, Ops
  <1>1. \A id \in Ids : Exists(id) => published[id] \in SUBSET Edits /\ published[id] # Nothing
    BY DEF Types, FilesOK, Profile, Exists
  <1>2. CASE BeginSave(a)
    <2>1. PICK id \in Ids, e \in Edits :
            Exists(id) /\ Begin(a, "write", "save", id, published[id] \union {e}, Nothing)
      BY <1>2 DEF BeginSave
    <2>2. Fits("write", "save", id, published[id] \union {e}, Nothing)
      BY <1>1, <2>1
    <2>3. QED
      BY <2>1, <2>2
  <1>3. CASE BeginCreate(a)
    <2>1. PICK id \in Ids, source \in Ids :
            Exists(source) /\ Begin(a, "write", "create", id, published[source], Nothing)
      BY <1>3 DEF BeginCreate
    <2>2. Fits("write", "create", id, published[source], Nothing)
      BY <1>1, <2>1
    <2>3. QED
      BY <2>1, <2>2
  <1>4. CASE BeginSaveFromDevice(a)
    <2>1. PICK id \in Ids, base \in Ids :
            Exists(base) /\ Begin(a, "write", "from_device", id, published[base], Nothing)
      BY <1>4 DEF BeginSaveFromDevice
    <2>2. Fits("write", "from_device", id, published[base], Nothing)
      BY <1>1, <2>1
    <2>3. QED
      BY <2>1, <2>2
  <1>5. CASE BeginReset(a)
    <2>1. PICK id \in Ids : Begin(a, "remove", "reset", id, {}, Nothing)
      BY <1>5 DEF BeginReset
    <2>2. Fits("remove", "reset", id, {}, Nothing)
      BY ProfilesAssumption
    <2>3. QED
      BY <2>1, <2>2
  <1>6. CASE BeginDelete(a)
    <2>1. PICK id \in Ids : Begin(a, "remove", "delete", id, {}, Nothing)
      BY <1>6 DEF BeginDelete
    <2>2. Fits("remove", "delete", id, {}, Nothing)
      BY ProfilesAssumption
    <2>3. QED
      BY <2>1, <2>2
  <1>7. CASE BeginReload(a)
    <2>1. Begin(a, "reload", "reload", Nothing, {}, Nothing)
      BY <1>7 DEF BeginReload
    <2>2. Fits("reload", "reload", Nothing, {}, Nothing)
      OBVIOUS
    <2>3. QED
      BY <2>1, <2>2
  <1>8. CASE BeginAssign(a)
    <2>1. PICK d \in Devices, id \in Ids \union {Nothing} :
            (id # Nothing => Exists(id)) /\ Begin(a, "assign", "assign", id, {}, d)
      BY <1>8 DEF BeginAssign
    <2>2. Fits("assign", "assign", id, {}, d)
      BY <2>1 DEF Exists
    <2>3. QED
      BY <2>1, <2>2
  <1>9. CASE BeginDeleteDevice(a)
    <2>1. PICK d \in Devices : Begin(a, "erase_row", "delete_device", Nothing, {}, d)
      BY <1>9 DEF BeginDeleteDevice
    <2>2. Fits("erase_row", "delete_device", Nothing, {}, d)
      OBVIOUS
    <2>3. QED
      BY <2>1, <2>2
  <1>10. QED
    BY <1>2, <1>3, <1>4, <1>5, <1>6, <1>7, <1>8, <1>9 DEF Begins

\* The handler that begins.
LEMMA BeginFacts ==
  ASSUME Types, NEW a \in Admins, NEW pc, NEW op, NEW id, NEW content, NEW device,
         Fits(pc, op, id, content, device), Begin(a, pc, op, id, content, device)
  PROVE  \E x \in AdminRecords :
           /\ AdminBecomes(a, x) /\ x.pc = pc /\ x.op = op /\ x.id = id /\ x.content = content
           /\ x.device = device
           /\ admin[a].pc = "idle" /\ ops' \in 0 .. MaxOps
           /\ disturbed' = (disturbed \/ Disturbs(op, id))
           /\ UNCHANGED <<files, published, saved, rows, capture, request, clock, restarts>>
  <1> DEFINE x == [IdleAdmin EXCEPT !.pc = pc, !.op = op, !.id = id, !.content = content, !.device = device]
  <1>1. /\ x \in AdminRecords /\ x.pc = pc /\ x.op = op /\ x.id = id /\ x.content = content
        /\ x.device = device
    BY IdleTypes DEF AdminRecords, AdminPcs, Working, OnDevice, Fits
  <1>2. admin' = [admin EXCEPT ![a] = x]
    BY DEF Begin
  <1>3. ops' \in 0 .. MaxOps
    BY ProfilesAssumption DEF Begin, Types, BoundsOK
  <1>4. AdminBecomes(a, x)
    BY <1>1, <1>2, AdminBecomesIntro DEF Types
  <1>5. /\ admin[a].pc = "idle"
        /\ disturbed' = (disturbed \/ Disturbs(op, id))
        /\ UNCHANGED <<files, published, saved, rows, capture, request, clock, restarts>>
    BY DEF Begin, profiles, devices
  <1> HIDE DEF x
  <1>6. QED
    BY <1>1, <1>3, <1>4, <1>5

\* A handler goes on, and nothing it knows changes but where it stands.
LEMMA GotoFacts ==
  ASSUME Types, NEW a \in Admins, NEW pc \in AdminPcs, Goto(a, pc)
  PROVE  \E x \in AdminRecords :
           /\ AdminBecomes(a, x) /\ x.pc = pc /\ x.op = admin[a].op /\ x.id = admin[a].id
           /\ x.content = admin[a].content /\ x.device = admin[a].device /\ x.loaded = admin[a].loaded
  <1> DEFINE x == [admin[a] EXCEPT !.pc = pc]
  <1>1. admin[a] \in AdminRecords
    BY DEF Types, AdminsOK
  <1>2. /\ x \in AdminRecords /\ x.pc = pc /\ x.op = admin[a].op /\ x.id = admin[a].id
        /\ x.content = admin[a].content /\ x.device = admin[a].device /\ x.loaded = admin[a].loaded
    BY <1>1 DEF AdminRecords
  <1>3. admin' = [admin EXCEPT ![a] = x]
    BY DEF Goto
  <1> HIDE DEF x
  <1>4. AdminBecomes(a, x)
    BY <1>2, <1>3, AdminBecomesIntro DEF Types
  <1>5. QED
    BY <1>2, <1>4

LEMMA AdminType ==
  ASSUME Types, NEW a \in Admins
  PROVE  /\ admin[a] \in AdminRecords /\ admin[a].pc \in AdminPcs /\ admin[a].content \in SUBSET Edits
         /\ admin[a].loaded \in [Ids -> Profile] /\ admin[a].id \in Ids \union {Nothing}
         /\ admin[a].pc \in Working => admin[a].id \in Ids
         /\ admin[a].pc \in OnDevice => admin[a].device \in Devices
  <1>1. admin[a] \in AdminRecords
    BY DEF Types, AdminsOK
  <1>2. QED
    BY <1>1 DEF AdminRecords, Types, AdminsOK

LEMMA WriteBeginsFacts ==
  ASSUME Types, NEW a \in Admins, WriteBegins(a)
  PROVE  /\ admin[a].pc = "write" /\ admin[a].id \in Ids
         /\ files' = [files EXCEPT ![admin[a].id] = Torn] /\ FilesOK'
         /\ UNCHANGED <<published, saved, rows, capture, request, clock, ops, restarts, disturbed>>
         /\ \E x \in AdminRecords :
              /\ AdminBecomes(a, x) /\ x.pc = "writing" /\ x.op = admin[a].op /\ x.id = admin[a].id
              /\ x.content = admin[a].content /\ x.device = admin[a].device
  <1>1. /\ admin[a].pc = "write" /\ admin[a].id \in Ids /\ Goto(a, "writing") /\ "writing" \in AdminPcs
        /\ files' = [files EXCEPT ![admin[a].id] = Torn]
        /\ UNCHANGED <<published, saved, rows, capture, request, clock, ops, restarts, disturbed>>
    BY AdminType DEF WriteBegins, devices, bounds, Working, AdminPcs
  <1>2. FilesOK'
    BY <1>1 DEF Types, FilesOK
  <1>3. QED
    BY <1>1, <1>2, GotoFacts

LEMMA WriteEndsFacts ==
  ASSUME Types, NEW a \in Admins, WriteEnds(a)
  PROVE  /\ admin[a].pc = "writing" /\ admin[a].id \in Ids
         /\ files' = [files EXCEPT ![admin[a].id] = admin[a].content] /\ FilesOK'
         /\ saved' = [saved EXCEPT ![admin[a].id] =
                        IF admin[a].op = "save" THEN saved[admin[a].id] \union admin[a].content ELSE {}]
         /\ UNCHANGED <<published, rows, capture, request, clock, ops, restarts, disturbed>>
         /\ \E x \in AdminRecords : AdminBecomes(a, x) /\ x.pc = "reload"
  <1>1. /\ admin[a].pc = "writing" /\ admin[a].id \in Ids /\ Goto(a, "reload") /\ "reload" \in AdminPcs
        /\ files' = [files EXCEPT ![admin[a].id] = admin[a].content]
        /\ saved' = [saved EXCEPT ![admin[a].id] =
                        IF admin[a].op = "save" THEN saved[admin[a].id] \union admin[a].content ELSE {}]
        /\ UNCHANGED <<published, rows, capture, request, clock, ops, restarts, disturbed>>
    BY AdminType DEF WriteEnds, devices, bounds, Working, AdminPcs
  <1>2. FilesOK'
    BY <1>1, AdminType DEF Types, FilesOK, Profile
  <1>3. QED
    BY <1>1, <1>2, GotoFacts

LEMMA RemoveFacts ==
  ASSUME Types, NEW a \in Admins, RemoveFile(a)
  PROVE  /\ admin[a].pc = "remove" /\ admin[a].id \in Ids
         /\ files' = [files EXCEPT ![admin[a].id] = Nothing] /\ FilesOK'
         /\ saved' = [saved EXCEPT ![admin[a].id] = {}]
         /\ UNCHANGED <<published, rows, capture, request, clock, ops, restarts, disturbed>>
         /\ \E x \in AdminRecords :
              /\ AdminBecomes(a, x) /\ (x.id \in Ids \/ x.pc # "clear")
              /\ \/ x.pc = "reload" /\ admin[a].op = "reset"
                 \/ x = IdleAdmin /\ files[admin[a].id] = Nothing
                 \/ x.pc = "clear" /\ x.id = admin[a].id
  <1>1. /\ admin[a].pc = "remove" /\ admin[a].id \in Ids
        /\ files' = [files EXCEPT ![admin[a].id] = Nothing]
        /\ saved' = [saved EXCEPT ![admin[a].id] = {}]
        /\ UNCHANGED <<published, rows, capture, request, clock, ops, restarts, disturbed>>
    BY AdminType DEF RemoveFile, devices, bounds, Working
  <1>2. FilesOK'
    BY <1>1 DEF Types, FilesOK, Profile
  <1> DEFINE x == IF admin[a].op = "reset" THEN [admin[a] EXCEPT !.pc = "reload"]
                  ELSE IF files[admin[a].id] = Nothing THEN IdleAdmin
                  ELSE [admin[a] EXCEPT !.pc = "clear"]
  <1>3. /\ x \in AdminRecords
        /\ \/ x.pc = "reload" /\ admin[a].op = "reset"
           \/ x = IdleAdmin /\ files[admin[a].id] = Nothing
           \/ x.pc = "clear" /\ x.id = admin[a].id
    BY AdminType, IdleTypes DEF AdminRecords, AdminPcs, Working
  <1>4. admin' = [admin EXCEPT ![a] = x]
    BY DEF RemoveFile
  <1>5. x.id \in Ids \/ x.pc # "clear"
    BY <1>1, <1>3, IdleTypes
  <1> HIDE DEF x
  <1>6. AdminBecomes(a, x)
    BY <1>3, <1>4, AdminBecomesIntro DEF Types
  <1>7. QED
    BY <1>1, <1>2, <1>3, <1>5, <1>6

LEMMA ClearFacts ==
  ASSUME Types, NEW a \in Admins, ClearChoices(a)
  PROVE  /\ admin[a].pc = "clear" /\ admin[a].id \in Ids
         /\ rows' = [d \in Devices |->
                       IF rows[d] # Nothing /\ rows[d].choice = admin[a].id
                       THEN [rows[d] EXCEPT !.choice = Nothing] ELSE rows[d]]
         /\ DevicesOK' /\ \A d \in Devices : rows'[d] # Nothing <=> rows[d] # Nothing
         /\ UNCHANGED <<files, published, saved, capture, request, clock, ops, restarts, disturbed>>
         /\ \E x \in AdminRecords : AdminBecomes(a, x) /\ x.pc = "reload"
  <1>1. /\ admin[a].pc = "clear" /\ admin[a].id \in Ids /\ Goto(a, "reload") /\ "reload" \in AdminPcs
        /\ rows' = [d \in Devices |->
                       IF rows[d] # Nothing /\ rows[d].choice = admin[a].id
                       THEN [rows[d] EXCEPT !.choice = Nothing] ELSE rows[d]]
        /\ UNCHANGED <<files, published, saved, capture, request, clock, ops, restarts, disturbed>>
    BY AdminType DEF ClearChoices, profiles, bounds, Working, AdminPcs
  <1>2. \A d \in Devices : rows[d] \in Rows \union {Nothing}
    BY DEF Types, DevicesOK
  <1>3. \A row \in Rows : [row EXCEPT !.choice = Nothing] \in Rows
    BY DEF Rows
  <1>4. \A d \in Devices : rows'[d] \in Rows \union {Nothing} /\ (rows'[d] # Nothing <=> rows[d] # Nothing)
    BY <1>1, <1>2, <1>3, RowsAreRows
  <1>5. DevicesOK'
    BY <1>1, <1>4 DEF Types, DevicesOK
  <1>6. QED
    BY <1>1, <1>4, <1>5, GotoFacts

LEMMA ReloadReadsFacts ==
  ASSUME Types, NEW a \in Admins, ReloadReads(a)
  PROVE  /\ admin[a].pc = "reload"
         /\ UNCHANGED <<files, published, saved, rows, capture, request, clock, ops, restarts, disturbed>>
         /\ \E x \in AdminRecords : AdminBecomes(a, x) /\ x.pc = "publish" /\ x.loaded = Load(files)
  <1> DEFINE x == [admin[a] EXCEPT !.pc = "publish", !.loaded = Load(files)]
  <1>1. Load(files) \in [Ids -> Profile]
    BY LoadFacts DEF Types, FilesOK
  <1>2. x \in AdminRecords /\ x.pc = "publish" /\ x.loaded = Load(files)
    BY <1>1, AdminType DEF AdminRecords, AdminPcs
  <1>3. /\ admin[a].pc = "reload" /\ admin' = [admin EXCEPT ![a] = x]
        /\ UNCHANGED <<files, published, saved, rows, capture, request, clock, ops, restarts, disturbed>>
    BY DEF ReloadReads, profiles, devices, bounds
  <1> HIDE DEF x
  <1>4. QED
    BY <1>2, <1>3, AdminBecomesIntro DEF Types

LEMMA ReloadPublishesFacts ==
  ASSUME Types, NEW a \in Admins, ReloadPublishes(a)
  PROVE  /\ admin[a].pc = "publish" /\ published' = admin[a].loaded /\ FilesOK'
         /\ AdminBecomes(a, IdleAdmin)
         /\ UNCHANGED <<files, saved, rows, capture, request, clock, ops, restarts, disturbed>>
  <1>1. /\ admin[a].pc = "publish" /\ published' = admin[a].loaded
        /\ admin' = [admin EXCEPT ![a] = IdleAdmin]
        /\ UNCHANGED <<files, saved, rows, capture, request, clock, ops, restarts, disturbed>>
    BY DEF ReloadPublishes, devices, bounds
  <1>2. FilesOK'
    BY <1>1, AdminType DEF Types, FilesOK
  <1>3. QED
    BY <1>1, <1>2, IdleTypes, AdminBecomesIntro DEF Types

LEMMA AssignFacts ==
  ASSUME Types, NEW a \in Admins, Assign(a)
  PROVE  /\ admin[a].pc = "assign" /\ admin[a].device \in Devices
         /\ AdminBecomes(a, IdleAdmin) /\ DevicesOK'
         /\ \A d \in Devices : d # admin[a].device => rows'[d] = rows[d]
         /\ rows'[admin[a].device] \in Rows /\ rows'[admin[a].device].choice = admin[a].id
         /\ rows[admin[a].device] # Nothing
              => rows'[admin[a].device].first = rows[admin[a].device].first
         /\ UNCHANGED <<files, published, saved, capture, request, clock, ops, restarts, disturbed>>
  <1> DEFINE d == admin[a].device
             row == IF rows[d] = Nothing THEN [choice |-> admin[a].id, first |-> 0]
                    ELSE [rows[d] EXCEPT !.choice = admin[a].id]
  <1>1. /\ admin[a].pc = "assign" /\ d \in Devices /\ rows' = [rows EXCEPT ![d] = row]
        /\ admin' = [admin EXCEPT ![a] = IdleAdmin]
        /\ UNCHANGED <<files, published, saved, capture, request, clock, ops, restarts, disturbed>>
    BY AdminType DEF Assign, profiles, bounds, OnDevice
  <1>2. /\ row \in Rows /\ row.choice = admin[a].id
        /\ rows[d] # Nothing => row.first = rows[d].first
    <2>1. rows[d] \in Rows \union {Nothing} /\ admin[a].id \in Ids \union {Nothing} /\ 0 \in 0 .. MaxClock
      BY <1>1, AdminType, BoundsTypes DEF Types, DevicesOK
    <2>2. CASE rows[d] = Nothing
      BY <2>1, <2>2 DEF Rows
    <2>3. CASE rows[d] # Nothing
      BY <2>1, <2>3 DEF Rows
    <2>4. QED
      BY <2>2, <2>3
  <1> HIDE DEF row
  <1>3. DevicesOK' /\ rows'[d] = row /\ \A e \in Devices : e # d => rows'[e] = rows[e]
    BY <1>1, <1>2 DEF Types, DevicesOK
  <1>4. AdminBecomes(a, IdleAdmin)
    BY <1>1, IdleTypes, AdminBecomesIntro DEF Types
  <1>5. QED
    BY <1>1, <1>2, <1>3, <1>4

\* api_device_delete, its two steps.
LEMMA EraseFacts ==
  ASSUME Types, NEW a \in Admins, EraseDevice(a)
  PROVE  /\ admin[a].device \in Devices /\ DevicesOK'
         /\ UNCHANGED <<files, published, saved, request, clock, ops, restarts, disturbed>>
         /\ \/ /\ admin[a].pc = "erase_row" /\ capture' = capture
               /\ rows' = [rows EXCEPT ![admin[a].device] = Nothing]
               /\ \E x \in AdminRecords : /\ AdminBecomes(a, x) /\ x.pc = "erase_live"
                                          /\ x.device = admin[a].device
            \/ /\ admin[a].pc = "erase_live" /\ rows' = rows
               /\ capture' = [capture EXCEPT ![admin[a].device] = Nothing]
               /\ AdminBecomes(a, IdleAdmin)
  <1>1. UNCHANGED <<files, published, saved, request, clock, ops, restarts, disturbed>>
    BY DEF EraseDevice, profiles, bounds
  <1>2. CASE admin[a].pc = "erase_row"
    <2>1. /\ rows' = [rows EXCEPT ![admin[a].device] = Nothing] /\ capture' = capture
          /\ Goto(a, "erase_live") /\ "erase_live" \in AdminPcs /\ admin[a].device \in Devices
      BY <1>2, AdminType DEF EraseDevice, AdminPcs, OnDevice
    <2>2. DevicesOK'
      BY <2>1 DEF Types, DevicesOK
    <2>3. QED
      BY <1>1, <1>2, <2>1, <2>2, GotoFacts
  <1>3. CASE admin[a].pc = "erase_live"
    <2>1. /\ capture' = [capture EXCEPT ![admin[a].device] = Nothing] /\ rows' = rows
          /\ admin' = [admin EXCEPT ![a] = IdleAdmin] /\ admin[a].device \in Devices
      BY <1>3, AdminType DEF EraseDevice, OnDevice
    <2>2. DevicesOK'
      BY <2>1 DEF Types, DevicesOK
    <2>3. AdminBecomes(a, IdleAdmin)
      BY <2>1, IdleTypes, AdminBecomesIntro DEF Types
    <2>4. QED
      BY <1>1, <1>3, <2>1, <2>2, <2>3
  <1>4. QED
    BY <1>2, <1>3 DEF EraseDevice

LEMMA RequestType ==
  ASSUME Types, NEW r \in Requests
  PROVE  /\ request[r] \in RequestRecords
         /\ request[r].choice \in Ids \union {Nothing} /\ request[r].first \in 0 .. MaxClock
         /\ request[r].pc # "idle" => request[r].device \in Devices
         /\ request[r].pc \in {"identified", "recorded"} => request[r].profile \in Ids
  <1>1. request[r] \in RequestRecords
    BY DEF Types, RequestsOK
  <1>2. QED
    BY <1>1 DEF RequestRecords, Types, RequestsOK

LEMMA ReadChoiceFacts ==
  ASSUME Types, NEW r \in Requests, ReadChoice(r)
  PROVE  /\ request[r].pc = "idle"
         /\ UNCHANGED <<files, published, saved, rows, capture, admin, clock, ops, restarts, disturbed>>
         /\ \E x \in RequestRecords : RequestBecomes(r, x) /\ x.pc = "choice" /\ x.device \in Devices
  <1>1. PICK d \in Devices :
          request' = [request EXCEPT ![r] =
            [IdleRequest EXCEPT !.pc = "choice", !.device = d,
               !.choice = IF rows[d] = Nothing THEN Nothing ELSE rows[d].choice]]
    BY DEF ReadChoice
  <1> DEFINE x == [IdleRequest EXCEPT !.pc = "choice", !.device = d,
                     !.choice = IF rows[d] = Nothing THEN Nothing ELSE rows[d].choice]
  <1>2. (IF rows[d] = Nothing THEN Nothing ELSE rows[d].choice) \in Ids \union {Nothing}
    BY DEF Types, DevicesOK, Rows
  <1>3. x \in RequestRecords /\ x.pc = "choice" /\ x.device \in Devices
    BY <1>2, IdleTypes DEF RequestRecords
  <1>4. RequestBecomes(r, x)
    BY <1>1, <1>3, RequestBecomesIntro DEF Types
  <1> HIDE DEF x
  <1>5. QED
    BY <1>3, <1>4 DEF ReadChoice, profiles, devices, bounds

LEMMA IdentifyFacts ==
  ASSUME Types, NEW r \in Requests, Identify(r)
  PROVE  /\ request[r].pc = "choice"
         /\ UNCHANGED <<files, published, saved, rows, capture, admin, clock, ops, restarts, disturbed>>
         /\ \E x \in RequestRecords : /\ RequestBecomes(r, x) /\ x.pc = "identified"
                                      /\ x.device \in Devices /\ x.profile \in Ids
  <1> DEFINE chosen == ProfileFor(request[r].choice, request[r].device)
             x == [request[r] EXCEPT !.pc = "identified", !.profile = chosen]
  <1>1. /\ request[r].pc = "choice" /\ request' = [request EXCEPT ![r] = x]
        /\ UNCHANGED <<files, published, saved, rows, capture, admin, clock, ops, restarts, disturbed>>
    BY DEF Identify, profiles, devices, bounds
  <1>2. request[r].device \in Devices
    BY <1>1, RequestType
  <1>3. chosen \in Ids
    BY <1>2, RequestType, ProfilesAssumption DEF ProfileFor
  <1> HIDE DEF chosen
  <1>4. x \in RequestRecords /\ x.pc = "identified" /\ x.device = request[r].device /\ x.profile = chosen
    BY <1>3, RequestType DEF RequestRecords
  <1>5. RequestBecomes(r, x)
    BY <1>1, <1>4, RequestBecomesIntro DEF Types
  <1> HIDE DEF x
  <1>6. QED
    BY <1>1, <1>2, <1>3, <1>4, <1>5

LEMMA RecordFacts ==
  ASSUME Types, NEW r \in Requests, Record(r)
  PROVE  /\ request[r].pc = "identified" /\ DevicesOK'
         /\ \A d \in Devices : d # request[r].device => capture'[d] = capture[d]
         /\ UNCHANGED <<files, published, saved, rows, admin, clock, ops, restarts, disturbed>>
         /\ \E x \in RequestRecords : /\ RequestBecomes(r, x) /\ x.pc = "recorded"
                                      /\ x.device = request[r].device /\ x.device \in Devices
                                      /\ x.profile \in Ids
  <1> DEFINE d == request[r].device
             first == IF capture[d] = Nothing THEN clock ELSE capture[d]
             x == [request[r] EXCEPT !.pc = "recorded", !.first = first]
  <1>1. /\ request[r].pc = "identified" /\ request' = [request EXCEPT ![r] = x]
        /\ capture' = [capture EXCEPT ![d] = first]
        /\ UNCHANGED <<files, published, saved, rows, admin, clock, ops, restarts, disturbed>>
    BY DEF Record, profiles, bounds
  <1>2. d \in Devices /\ request[r].profile \in Ids
    BY <1>1, RequestType
  <1>3. first \in 0 .. MaxClock
    <2>1. capture[d] \in (0 .. MaxClock) \union {Nothing} /\ clock \in 0 .. MaxClock
      BY <1>2, BoundsTypes DEF Types, DevicesOK, BoundsOK
    <2>2. QED
      BY <2>1
  <1> HIDE DEF first
  <1>4. DevicesOK' /\ \A e \in Devices : e # d => capture'[e] = capture[e]
    BY <1>1, <1>2, <1>3 DEF Types, DevicesOK
  <1>5. x \in RequestRecords /\ x.pc = "recorded" /\ x.device = d /\ x.profile = request[r].profile
    BY <1>3, RequestType DEF RequestRecords
  <1>6. RequestBecomes(r, x)
    BY <1>1, <1>5, RequestBecomesIntro DEF Types
  <1> HIDE DEF x
  <1>7. QED
    BY <1>1, <1>2, <1>4, <1>5, <1>6

\* devices::save keeps the choice and the earlier time.
LEMMA SaveRowFacts ==
  ASSUME Types, NEW r \in Requests, SaveRow(r)
  PROVE  /\ request[r].pc = "recorded" /\ request[r].device \in Devices /\ DevicesOK'
         /\ RequestBecomes(r, IdleRequest)
         /\ \A d \in Devices : d # request[r].device => rows'[d] = rows[d]
         /\ rows'[request[r].device] \in Rows
         /\ rows'[request[r].device].choice =
              IF rows[request[r].device] = Nothing THEN Nothing ELSE rows[request[r].device].choice
         /\ rows[request[r].device] # Nothing
              => rows'[request[r].device].first <= rows[request[r].device].first
         /\ UNCHANGED <<files, published, saved, capture, admin, clock, ops, restarts, disturbed>>
  <1> DEFINE d == request[r].device
             row == [choice |-> KeptChoice(r), first |-> Earlier(r)]
  <1>1. /\ request[r].pc = "recorded" /\ d \in Devices /\ rows' = [rows EXCEPT ![d] = row]
        /\ request' = [request EXCEPT ![r] = IdleRequest]
        /\ UNCHANGED <<files, published, saved, capture, admin, clock, ops, restarts, disturbed>>
    BY RequestType DEF SaveRow, Store, profiles, bounds
  <1>2. rows[d] \in Rows \union {Nothing} /\ request[r].first \in 0 .. MaxClock
    BY <1>1, RequestType DEF Types, DevicesOK
  <1>3. /\ KeptChoice(r) \in Ids \union {Nothing}
        /\ KeptChoice(r) = IF rows[d] = Nothing THEN Nothing ELSE rows[d].choice
    BY <1>2 DEF KeptChoice, Old, Rows
  <1>4. Earlier(r) \in 0 .. MaxClock /\ (rows[d] # Nothing => Earlier(r) <= rows[d].first)
    <2>1. CASE rows[d] = Nothing
      BY <1>2, <2>1 DEF Earlier, Old
    <2>2. CASE rows[d] # Nothing
      <3>1. rows[d].first \in 0 .. MaxClock
        BY <1>2, <2>2 DEF Rows
      <3>2. Earlier(r) = IF request[r].first < rows[d].first THEN request[r].first ELSE rows[d].first
        BY <2>2 DEF Earlier, Old
      <3>3. QED
        BY <1>2, <3>1, <3>2, BoundsTypes
    <2>3. QED
      BY <2>1, <2>2
  <1>5. row \in Rows /\ row.choice = KeptChoice(r) /\ row.first = Earlier(r)
    BY <1>3, <1>4 DEF Rows
  <1> HIDE DEF row
  <1>6. DevicesOK' /\ rows'[d] = row /\ \A e \in Devices : e # d => rows'[e] = rows[e]
    BY <1>1, <1>5 DEF Types, DevicesOK
  <1>7. RequestBecomes(r, IdleRequest)
    BY <1>1, IdleTypes, RequestBecomesIntro DEF Types
  <1>8. QED
    BY <1>1, <1>3, <1>4, <1>5, <1>6, <1>7

LEMMA RestartFacts ==
  ASSUME Types, Restart
  PROVE  /\ published' = Load(files) /\ FilesOK' /\ DevicesOK' /\ BoundsOK'
         /\ \A d \in Devices : capture'[d] # Nothing => rows[d] # Nothing
         /\ admin' = [a \in Admins |-> IdleAdmin] /\ request' = [r \in Requests |-> IdleRequest]
         /\ disturbed' = (disturbed \/ \E a \in Admins : admin[a].pc # "idle")
         /\ UNCHANGED <<files, saved, rows>>
  <1>1. /\ published' = Load(files)
        /\ capture' = [d \in Devices |-> IF rows[d] = Nothing THEN Nothing ELSE rows[d].first]
        /\ admin' = [a \in Admins |-> IdleAdmin] /\ request' = [r \in Requests |-> IdleRequest]
        /\ disturbed' = (disturbed \/ \E a \in Admins : admin[a].pc # "idle")
        /\ UNCHANGED <<files, saved, rows, clock, ops>>
        /\ restarts < MaxRestarts /\ restarts' = restarts + 1
    BY DEF Restart
  <1>2. FilesOK'
    BY <1>1, LoadFacts DEF Types, FilesOK
  <1>3. \A d \in Devices : capture'[d] \in (0 .. MaxClock) \union {Nothing}
    BY <1>1 DEF Types, DevicesOK, Rows
  <1>4. DevicesOK'
    BY <1>1, <1>3 DEF Types, DevicesOK
  <1>5. BoundsOK'
    <2>1. clock' \in 1 .. MaxClock /\ ops' \in 0 .. MaxOps /\ restarts' \in 0 .. MaxRestarts
      BY <1>1, BoundsTypes DEF Types, BoundsOK
    <2>2. disturbed' \in BOOLEAN
      BY <1>1 DEF Types, BoundsOK
    <2>3. QED
      BY <2>1, <2>2 DEF BoundsOK
  <1>6. QED
    BY <1>1, <1>2, <1>4, <1>5

-----------------------------------------------------------------------------
(* The stores stay well formed.                                            *)

\* Handlers that begin, or that only move on.
LEMMA AdminTypes ==
  ASSUME AdminsOK, NEW a \in Admins, NEW x, AdminBecomes(a, x),
         x.pc \in Working => x.id \in Ids, x.pc \in OnDevice => x.device \in Devices
  PROVE  AdminsOK'
BY DEF AdminsOK, AdminBecomes

LEMMA BuiltinsFrame ==
  ASSUME BuiltinsStay, NEW a \in Admins, NEW x, AdminBecomes(a, x),
         \A id \in Builtins : published'[id] # Nothing,
         x.pc = "publish" => \A id \in Builtins : x.loaded[id] # Nothing
  PROVE  BuiltinsStay'
BY DEF BuiltinsStay, AdminBecomes

LEMMA BeginTypes == \A a \in Admins : Types /\ Begins(a) => Types'
  <1> SUFFICES ASSUME NEW a \in Admins, Types, Begins(a) PROVE Types'
    OBVIOUS
  <1>1. PICK pc, op, id, content, device :
          Fits(pc, op, id, content, device) /\ Begin(a, pc, op, id, content, device)
    BY BeginsFits
  <1>2. PICK x \in AdminRecords :
           /\ AdminBecomes(a, x) /\ x.pc = pc /\ x.op = op /\ x.id = id /\ x.content = content
           /\ x.device = device
           /\ admin[a].pc = "idle" /\ ops' \in 0 .. MaxOps
           /\ disturbed' = (disturbed \/ Disturbs(op, id))
           /\ UNCHANGED <<files, published, saved, rows, capture, request, clock, restarts>>
    BY <1>1, BeginFacts
  <1>3. FilesOK' /\ DevicesOK' /\ RequestsOK'
    BY <1>2 DEF Types, FilesOK, DevicesOK, RequestsOK
  <1>4. AdminsOK'
    BY <1>1, <1>2, AdminTypes DEF Types, Fits
  <1>5. BuiltinsStay'
    <2>1. x.pc # "publish" /\ \A i \in Builtins : published'[i] # Nothing
      BY <1>1, <1>2 DEF Fits, Types, BuiltinsStay
    <2>2. QED
      BY <1>2, <2>1, BuiltinsFrame DEF Types
  <1>6. BoundsOK'
    <2>1. clock' \in 1 .. MaxClock /\ ops' \in 0 .. MaxOps /\ restarts' \in 0 .. MaxRestarts
      BY <1>2 DEF Types, BoundsOK
    <2>2. disturbed' \in BOOLEAN
      BY <1>2 DEF Types, BoundsOK
    <2>3. QED
      BY <2>1, <2>2 DEF BoundsOK
  <1>7. QED
    BY <1>3, <1>4, <1>5, <1>6 DEF Types

\* The steps of a handler that is at work.
Works(a) ==
  WriteBegins(a) \/ WriteEnds(a) \/ RemoveFile(a) \/ ClearChoices(a) \/ ReloadReads(a)
    \/ ReloadPublishes(a) \/ Assign(a) \/ EraseDevice(a)

LEMMA WorkTypes == \A a \in Admins : Types /\ Works(a) => Types'
  <1> SUFFICES ASSUME NEW a \in Admins, Types, Works(a) PROVE Types'
    OBVIOUS
  <1>1. RequestsOK' /\ BoundsOK'
    <2>1. UNCHANGED <<request, clock, ops, restarts, disturbed>>
      BY WriteBeginsFacts, WriteEndsFacts, RemoveFacts, ClearFacts, ReloadReadsFacts,
         ReloadPublishesFacts, AssignFacts, EraseFacts DEF Works
    <2>2. QED
      BY <2>1 DEF Types, RequestsOK, BoundsOK
  <1>2. FilesOK'
    <2>1. FilesOK' \/ UNCHANGED <<files, published, saved>>
      BY WriteBeginsFacts, WriteEndsFacts, RemoveFacts, ClearFacts, ReloadReadsFacts,
         ReloadPublishesFacts, AssignFacts, EraseFacts DEF Works
    <2>2. QED
      BY <2>1 DEF Types, FilesOK
  <1>3. DevicesOK'
    <2>1. DevicesOK' \/ UNCHANGED <<rows, capture>>
      BY WriteBeginsFacts, WriteEndsFacts, RemoveFacts, ClearFacts, ReloadReadsFacts,
         ReloadPublishesFacts, AssignFacts, EraseFacts DEF Works
    <2>2. QED
      BY <2>1 DEF Types, DevicesOK
  <1>4. \A id \in Builtins : published'[id] # Nothing
    <2>1. published' = published \/ (admin[a].pc = "publish" /\ published' = admin[a].loaded)
      BY WriteBeginsFacts, WriteEndsFacts, RemoveFacts, ClearFacts, ReloadReadsFacts,
         ReloadPublishesFacts, AssignFacts, EraseFacts DEF Works
    <2>2. QED
      BY <2>1 DEF Types, BuiltinsStay
  <1>5. \E x : /\ AdminBecomes(a, x)
               /\ x.pc \in Working => x.id \in Ids
               /\ x.pc \in OnDevice => x.device \in Devices
               /\ x.pc = "publish" => x.loaded = Load(files)
    <2> USE IdleTypes DEF Working, OnDevice
    <2>1. CASE WriteBegins(a)
      BY <2>1, WriteBeginsFacts
    <2>2. CASE WriteEnds(a)
      BY <2>2, WriteEndsFacts
    <2>3. CASE RemoveFile(a)
      <3>1. PICK x \in AdminRecords :
              /\ AdminBecomes(a, x)
              /\ \/ x.pc = "reload" /\ admin[a].op = "reset"
                 \/ x = IdleAdmin /\ files[admin[a].id] = Nothing
                 \/ x.pc = "clear" /\ x.id = admin[a].id
        BY <2>3, RemoveFacts
      <3>2. admin[a].id \in Ids
        BY <2>3, RemoveFacts
      <3>3. QED
        BY <3>1, <3>2
    <2>4. CASE ClearChoices(a)
      BY <2>4, ClearFacts
    <2>5. CASE ReloadReads(a)
      BY <2>5, ReloadReadsFacts
    <2>6. CASE ReloadPublishes(a)
      BY <2>6, ReloadPublishesFacts
    <2>7. CASE Assign(a)
      BY <2>7, AssignFacts
    <2>8. CASE EraseDevice(a)
      BY <2>8, EraseFacts
    <2>9. QED
      BY <2>1, <2>2, <2>3, <2>4, <2>5, <2>6, <2>7, <2>8 DEF Works
  <1>6. AdminsOK' /\ BuiltinsStay'
    <2>1. PICK x : /\ AdminBecomes(a, x)
                   /\ x.pc \in Working => x.id \in Ids
                   /\ x.pc \in OnDevice => x.device \in Devices
                   /\ x.pc = "publish" => x.loaded = Load(files)
      BY <1>5
    <2>2. x.pc = "publish" => \A id \in Builtins : x.loaded[id] # Nothing
      BY <2>1, LoadFacts DEF Types, FilesOK
    <2>3. QED
      BY <1>4, <2>1, <2>2, AdminTypes, BuiltinsFrame DEF Types
  <1>7. QED
    BY <1>1, <1>2, <1>3, <1>6 DEF Types

LEMMA RequestTypes == \A r \in Requests : Types /\ RequestStep(r) => Types'
  <1> SUFFICES ASSUME NEW r \in Requests, Types, RequestStep(r) PROVE Types'
    OBVIOUS
  <1>1. UNCHANGED <<files, published, saved, admin, clock, ops, restarts, disturbed>>
    BY ReadChoiceFacts, IdentifyFacts, RecordFacts, SaveRowFacts DEF RequestStep
  <1>2. FilesOK' /\ AdminsOK' /\ BoundsOK' /\ BuiltinsStay'
    BY <1>1 DEF Types, FilesOK, AdminsOK, BoundsOK, BuiltinsStay
  <1>3. DevicesOK'
    <2>1. DevicesOK' \/ UNCHANGED <<rows, capture>>
      BY ReadChoiceFacts, IdentifyFacts, RecordFacts, SaveRowFacts DEF RequestStep
    <2>2. QED
      BY <2>1 DEF Types, DevicesOK
  <1>4. \E x : /\ RequestBecomes(r, x)
               /\ x.pc # "idle" => x.device \in Devices
               /\ x.pc \in {"identified", "recorded"} => x.profile \in Ids
    BY IdleTypes, ReadChoiceFacts, IdentifyFacts, RecordFacts, SaveRowFacts DEF RequestStep
  <1>5. RequestsOK'
    BY <1>4 DEF Types, RequestsOK, RequestBecomes
  <1>6. QED
    BY <1>2, <1>3, <1>5 DEF Types

LEMMA ClockTypes == Types /\ (Tick \/ Restart \/ UNCHANGED vars) => Types'
  <1> SUFFICES ASSUME Types, Tick \/ Restart \/ UNCHANGED vars PROVE Types'
    OBVIOUS
  <1>1. CASE Tick
    <2>1. /\ clock < MaxClock /\ clock' = clock + 1
          /\ UNCHANGED <<files, published, saved, rows, capture, admin, request, ops, restarts, disturbed>>
      BY <1>1 DEF Tick, profiles, devices
    <2>2. BoundsOK'
      <3>1. clock' \in 1 .. MaxClock /\ ops' \in 0 .. MaxOps /\ restarts' \in 0 .. MaxRestarts
        BY <2>1, BoundsTypes DEF Types, BoundsOK
      <3>2. disturbed' \in BOOLEAN
        BY <2>1 DEF Types, BoundsOK
      <3>3. QED
        BY <3>1, <3>2 DEF BoundsOK
    <2>3. QED
      BY <2>1, <2>2 DEF Types, FilesOK, DevicesOK, AdminsOK, RequestsOK, BuiltinsStay
  <1>2. CASE UNCHANGED vars
    BY <1>2 DEF vars, Types, FilesOK, DevicesOK, AdminsOK, RequestsOK, BoundsOK, BuiltinsStay
  <1>3. CASE Restart
    <2>1. /\ published' = Load(files) /\ FilesOK' /\ DevicesOK' /\ BoundsOK'
          /\ admin' = [a \in Admins |-> IdleAdmin] /\ request' = [r \in Requests |-> IdleRequest]
      BY <1>3, RestartFacts
    <2>2. AdminsOK' /\ RequestsOK'
      BY <2>1, IdleTypes DEF AdminsOK, RequestsOK, Working, OnDevice
    <2>3. BuiltinsStay'
      BY <2>1, LoadFacts, IdleTypes DEF BuiltinsStay, Types, FilesOK
    <2>4. QED
      BY <2>1, <2>2, <2>3 DEF Types
  <1>4. QED
    BY <1>1, <1>2, <1>3

\* Every step is one of these.
LEMMA StepKinds ==
  [Next]_vars => \/ \E a \in Admins : Begins(a) \/ Works(a)
                 \/ \E r \in Requests : RequestStep(r)
                 \/ Tick \/ Restart \/ UNCHANGED vars
BY DEF Next, ProfileStep, DeviceStep, Begins, Works

LEMMA TypesStep == Types /\ [Next]_vars => Types'
BY StepKinds, BeginTypes, WorkTypes, RequestTypes, ClockTypes

LEMMA TypesMeanTypeOK == Types => TypeOK
  <1> SUFFICES ASSUME Types PROVE TypeOK
    OBVIOUS
  <1>1. \A id \in Ids : files[id] \in Profile \union {Torn} /\ published[id] \in Profile
    BY DEF Types, FilesOK
  <1>2. \A id \in Builtins : Exists(id)
    BY DEF Types, BuiltinsStay, Exists
  <1>3. \A d \in Devices :
          /\ rows[d] = Nothing \/ rows[d] \in [choice : Ids \union {Nothing}, first : 0 .. MaxClock]
          /\ capture[d] \in 0 .. MaxClock \union {Nothing}
    BY DEF Types, DevicesOK, Rows
  <1>4. \A r \in Requests : request[r].pc \in {"identified", "recorded"} => request[r].profile \in Ids
    BY DEF Types, RequestsOK
  <1>5. QED
    BY <1>1, <1>2, <1>3, <1>4 DEF TypeOK, Types, BoundsOK

-----------------------------------------------------------------------------
(* A device on the page is in the database.                                *)

\* The register runs ahead of the database only for a device that a request
\* is about to store or a handler about to take off the register.
LEMMA RememberedFrame ==
  ASSUME LiveDeviceIsRemembered,
         \A d \in Devices : capture'[d] # Nothing => capture[d] # Nothing,
         \A d \in Devices : rows[d] # Nothing => rows'[d] # Nothing,
         UNCHANGED request,
         \A a \in Admins, d \in Devices :
           admin[a].pc = "erase_live" /\ admin[a].device = d /\ capture'[d] # Nothing
             => admin'[a].pc = "erase_live" /\ admin'[a].device = d
  PROVE  LiveDeviceIsRemembered'
BY DEF LiveDeviceIsRemembered

LEMMA AdminRemembered ==
  \A a \in Admins : Types /\ LiveDeviceIsRemembered /\ (Begins(a) \/ Works(a)) => LiveDeviceIsRemembered'
  <1> SUFFICES ASSUME NEW a \in Admins, Types, LiveDeviceIsRemembered, Begins(a) \/ Works(a)
      PROVE  LiveDeviceIsRemembered'
    OBVIOUS
  <1>1. CASE ~EraseDevice(a)
    <2>1. UNCHANGED <<capture, request>> /\ \A d \in Devices : rows[d] # Nothing => rows'[d] # Nothing
      <3>1. CASE Begins(a)
        BY <3>1, BeginsFits, BeginFacts
      <3>2. CASE ClearChoices(a)
        BY <3>2, ClearFacts
      <3>3. CASE Assign(a)
        BY <3>3, AssignFacts, RowsAreRows
      <3>4. CASE WriteBegins(a) \/ WriteEnds(a) \/ RemoveFile(a) \/ ReloadReads(a) \/ ReloadPublishes(a)
        BY <3>4, WriteBeginsFacts, WriteEndsFacts, RemoveFacts, ReloadReadsFacts, ReloadPublishesFacts
      <3>5. QED
        BY <1>1, <3>1, <3>2, <3>3, <3>4 DEF Works
    <2>2. admin[a].pc # "erase_live" /\ \A b \in Admins : b # a => admin'[b] = admin[b]
      <3>1. CASE Begins(a)
        BY <3>1, BeginsFits, BeginFacts DEF AdminBecomes
      <3>2. CASE Works(a)
        BY <1>1, <3>2, WriteBeginsFacts, WriteEndsFacts, RemoveFacts, ClearFacts, ReloadReadsFacts,
           ReloadPublishesFacts, AssignFacts DEF AdminBecomes, Works
      <3>3. QED
        BY <3>1, <3>2
    <2>3. QED
      BY <2>1, <2>2, RememberedFrame
  <1>2. CASE EraseDevice(a) /\ admin[a].pc = "erase_row"
    <2>1. /\ admin[a].device \in Devices /\ UNCHANGED <<capture, request>>
          /\ rows' = [rows EXCEPT ![admin[a].device] = Nothing]
          /\ admin'[a].pc = "erase_live" /\ admin'[a].device = admin[a].device
          /\ \A b \in Admins : b # a => admin'[b] = admin[b]
      BY <1>2, EraseFacts DEF AdminBecomes
    <2>2. \A d \in Devices : d # admin[a].device => rows'[d] = rows[d]
      BY <2>1 DEF Types, DevicesOK
    <2>3. QED
      BY <1>2, <2>1, <2>2 DEF LiveDeviceIsRemembered
  <1>3. CASE EraseDevice(a) /\ admin[a].pc = "erase_live"
    <2>1. /\ admin[a].device \in Devices /\ UNCHANGED <<rows, request>>
          /\ capture' = [capture EXCEPT ![admin[a].device] = Nothing]
          /\ \A b \in Admins : b # a => admin'[b] = admin[b]
      BY <1>3, EraseFacts DEF AdminBecomes
    <2>2. /\ capture'[admin[a].device] = Nothing
          /\ \A d \in Devices : d # admin[a].device => capture'[d] = capture[d]
      BY <2>1 DEF Types, DevicesOK
    <2>3. QED
      BY <1>3, <2>1, <2>2, RememberedFrame
  <1>4. QED
    BY <1>1, <1>2, <1>3, EraseFacts

LEMMA RequestRemembered ==
  \A r \in Requests : Types /\ LiveDeviceIsRemembered /\ RequestStep(r) => LiveDeviceIsRemembered'
  <1> SUFFICES ASSUME NEW r \in Requests, Types, LiveDeviceIsRemembered, RequestStep(r)
      PROVE  LiveDeviceIsRemembered'
    OBVIOUS
  <1>1. CASE ReadChoice(r) \/ Identify(r)
    <2>1. /\ UNCHANGED <<rows, capture, admin>> /\ request[r].pc # "recorded"
          /\ \A q \in Requests : q # r => request'[q] = request[q]
      BY <1>1, ReadChoiceFacts, IdentifyFacts DEF RequestBecomes
    <2>2. QED
      BY <2>1 DEF LiveDeviceIsRemembered
  <1>2. CASE Record(r)
    <2>1. /\ UNCHANGED <<rows, admin>> /\ request[r].pc = "identified"
          /\ \A d \in Devices : d # request[r].device => capture'[d] = capture[d]
          /\ request'[r].pc = "recorded" /\ request'[r].device = request[r].device
          /\ \A q \in Requests : q # r => request'[q] = request[q]
      BY <1>2, RecordFacts DEF RequestBecomes
    <2>2. QED
      BY <2>1 DEF LiveDeviceIsRemembered
  <1>3. CASE SaveRow(r)
    <2>1. /\ UNCHANGED <<capture, admin>> /\ request[r].pc = "recorded"
          /\ \A d \in Devices : d # request[r].device => rows'[d] = rows[d]
          /\ rows'[request[r].device] # Nothing
          /\ \A q \in Requests : q # r => request'[q] = request[q]
      BY <1>3, SaveRowFacts, RowsAreRows DEF RequestBecomes
    <2>2. QED
      BY <2>1 DEF LiveDeviceIsRemembered
  <1>4. QED
    BY <1>1, <1>2, <1>3 DEF RequestStep

LEMMA RememberedStep == Types /\ LiveDeviceIsRemembered /\ [Next]_vars => LiveDeviceIsRemembered'
  <1> SUFFICES ASSUME Types, LiveDeviceIsRemembered, [Next]_vars PROVE LiveDeviceIsRemembered'
    OBVIOUS
  <1>1. CASE Tick \/ UNCHANGED vars
    BY <1>1, RememberedFrame DEF Tick, vars, devices
  <1>2. CASE Restart
    BY <1>2, RestartFacts DEF LiveDeviceIsRemembered
  <1>3. QED
    BY <1>1, <1>2, StepKinds, AdminRemembered, RequestRemembered

\* routes.rs, api/profiles.rs, capture.rs, store/devices.rs: the files, the
\* published profiles, the register and the rows stay well formed, and a device
\* on the page is in the database unless one of its requests or a deletion of
\* it is under way, for any number of handlers and requests.
THEOREM DevicesAreRemembered == Spec => []Inv
  <1>1. Init => Types /\ LiveDeviceIsRemembered
    BY TypesStart DEF Init, LiveDeviceIsRemembered
  <1>2. Types /\ LiveDeviceIsRemembered /\ [Next]_vars => (Types /\ LiveDeviceIsRemembered)'
    BY TypesStep, RememberedStep
  <1>3. Types /\ LiveDeviceIsRemembered => Inv
    BY TypesMeanTypeOK DEF Inv
  <1>4. QED
    BY <1>1, <1>2, <1>3, PTL DEF Spec

-----------------------------------------------------------------------------
(* Requests forget nothing.                                                *)

\* A row that stays as it is, or changes neither its choice nor its time for
\* the worse.
RowKept(d) ==
  rows[d] # Nothing =>
    rows'[d] # Nothing /\ rows'[d].choice = rows[d].choice /\ rows'[d].first <= rows[d].first

LEMMA KeptIsEnough ==
  ASSUME NEW d, RowKept(d)
  PROVE  ChoiceIsTheUsers(d) /\ FirstSeenNeverLater(d)
BY DEF RowKept, ChoiceIsTheUsers, FirstSeenNeverLater

LEMMA SameIsKept ==
  ASSUME Types, NEW d \in Devices, rows'[d] = rows[d]
  PROVE  RowKept(d)
  <1>1. rows[d] # Nothing => rows[d].first \in Nat
    BY BoundsTypes DEF Types, DevicesOK, Rows
  <1>2. QED
    BY <1>1 DEF RowKept

LEMMA NothingForgotten ==
  ASSUME Types, [Next]_vars, NEW d \in Devices
  PROVE  ChoiceIsTheUsers(d) /\ FirstSeenNeverLater(d)
  <1>1. CASE rows'[d] = rows[d]
    BY <1>1, SameIsKept, KeptIsEnough
  <1>2. ASSUME NEW r \in Requests, RequestStep(r), rows'[d] # rows[d] PROVE RowKept(d)
    <2>1. SaveRow(r)
      BY <1>2, ReadChoiceFacts, IdentifyFacts, RecordFacts DEF RequestStep
    <2>2. d = request[r].device
      BY <1>2, <2>1, SaveRowFacts
    <2>3. QED
      BY <2>1, <2>2, SaveRowFacts, RowsAreRows DEF RowKept
  <1>3. ASSUME NEW a \in Admins, Begins(a) \/ Works(a), rows'[d] # rows[d]
        PROVE  ChoiceIsTheUsers(d) /\ FirstSeenNeverLater(d)
    <2>1. Assign(a) \/ ClearChoices(a) \/ (EraseDevice(a) /\ admin[a].pc = "erase_row")
      <3>1. CASE Begins(a)
        BY <1>3, <3>1, BeginsFits, BeginFacts
      <3>2. CASE Works(a)
        BY <1>3, <3>2, WriteBeginsFacts, WriteEndsFacts, RemoveFacts, ReloadReadsFacts,
           ReloadPublishesFacts, EraseFacts DEF Works
      <3>3. QED
        BY <1>3, <3>1, <3>2
    <2>2. rows[d] # Nothing => rows[d].first \in Nat
      BY BoundsTypes DEF Types, DevicesOK, Rows
    <2>3. CASE Assign(a)
      <3>1. admin[a].pc = "assign" /\ admin'[a] # admin[a] /\ d = admin[a].device
        BY <1>3, <2>3, AssignFacts, IdleTypes DEF AdminBecomes
      <3>2. rows[d] # Nothing => rows'[d].first = rows[d].first
        BY <2>3, <3>1, AssignFacts
      <3>3. QED
        BY <2>2, <3>1, <3>2 DEF ChoiceIsTheUsers, FirstSeenNeverLater
    <2>4. CASE ClearChoices(a)
      <3>1. admin[a].pc = "clear" /\ admin'[a] # admin[a]
        BY <2>4, ClearFacts DEF AdminBecomes
      <3>2. rows[d] # Nothing => rows'[d].first = rows[d].first
        <4>1. rows'[d] = IF rows[d] # Nothing /\ rows[d].choice = admin[a].id
                         THEN [rows[d] EXCEPT !.choice = Nothing] ELSE rows[d]
          BY <2>4, ClearFacts
        <4>2. rows[d] # Nothing => rows[d] \in Rows
          BY DEF Types, DevicesOK
        <4>3. QED
          BY <4>1, <4>2 DEF Rows
      <3>3. QED
        BY <2>2, <3>1, <3>2 DEF ChoiceIsTheUsers, FirstSeenNeverLater
    <2>5. CASE EraseDevice(a) /\ admin[a].pc = "erase_row"
      <3>1. /\ admin[a].device \in Devices /\ rows' = [rows EXCEPT ![admin[a].device] = Nothing]
            /\ admin'[a] # admin[a]
        BY <2>5, EraseFacts DEF AdminBecomes
      <3>2. rows'[d] = Nothing
        BY <1>3, <3>1 DEF Types, DevicesOK
      <3>3. QED
        BY <2>5, <3>1, <3>2 DEF ChoiceIsTheUsers, FirstSeenNeverLater
    <2>6. QED
      BY <2>1, <2>3, <2>4, <2>5
  <1>4. CASE Tick \/ Restart \/ UNCHANGED vars
    <2>1. rows'[d] = rows[d]
      BY <1>4, RestartFacts DEF Tick, vars, devices
    <2>2. QED
      BY <1>1, <2>1
  <1>5. QED
    BY <1>1, <1>2, <1>3, <1>4, StepKinds, KeptIsEnough

LEMMA TypesAlways == Spec => []Types
  <1>1. Init => Types
    BY TypesStart
  <1>2. Types /\ [Next]_vars => Types'
    BY TypesStep
  <1>3. QED
    BY <1>1, <1>2, PTL DEF Spec

\* "Izbor korisnika se ne dira pri svakom zahtjevu" (state.rs) and
\* devices::save: the choice of a user goes only by an assignment, with the
\* device or with its profile, and first_seen never moves to a later time,
\* however requests, handlers and restarts interleave.
THEOREM NothingIsForgotten == Spec => RequestsForgetNothing
  <1>1. Types /\ [Next]_vars
          => [\A d \in Devices : ChoiceIsTheUsers(d) /\ FirstSeenNeverLater(d)]_vars
    BY NothingForgotten
  <1>2. QED
    BY <1>1, TypesAlways, PTL DEF Spec, RequestsForgetNothing

-----------------------------------------------------------------------------
(* Edits and choices stand as long as handlers do not overlap.             *)

\* One handler at a time.
Alone == \A a, b \in Admins : admin[a].pc # "idle" /\ admin[b].pc # "idle" => a = b

WritingAt(id) == \E a \in Admins : admin[a].pc = "writing" /\ admin[a].id = id
ClearingAt(id) == \E a \in Admins : admin[a].pc = "clear" /\ admin[a].id = id

HasText(id) == files[id] \notin {Nothing, Torn}

\* The handler has changed the files, and the reload is to come.
ToReload == \E a \in Admins : admin[a].pc \in {"writing", "clear", "reload", "publish"}

\* What was saved is in its file, or in the text that is being written.
FilesHold ==
  \A id \in Ids : saved[id] # {} =>
    \/ HasText(id) /\ saved[id] \subseteq files[id]
    \/ WritingAt(id)

TextsHold ==
  \A a \in Admins :
    admin[a].pc \in {"write", "writing"} /\ admin[a].op = "save" => saved[admin[a].id] \subseteq admin[a].content

\* What is published, or about to be, is what the files say.
Fresh ==
  /\ published = Load(files) \/ ToReload
  /\ \A a \in Admins : admin[a].pc = "publish" => admin[a].loaded = Load(files)

\* A chosen profile is built in or has a file, is being written, or its
\* choices are about to be cleared.
Stands(id) ==
  \/ id \in Builtins \/ HasText(id)
  \/ WritingAt(id) \/ ClearingAt(id)

ChoicesHold ==
  /\ \A d \in Devices : rows[d] # Nothing /\ rows[d].choice # Nothing => Stands(rows[d].choice)
  /\ \A a \in Admins : admin[a].pc = "assign" /\ admin[a].id # Nothing => Stands(admin[a].id)

Removals ==
  \A a \in Admins :
    admin[a].pc = "remove" => admin[a].op = "delete" \/ (admin[a].op = "reset" /\ admin[a].id \in Builtins)

Undisturbed == ~disturbed => Alone /\ FilesHold /\ TextsHold /\ Fresh /\ ChoicesHold /\ Removals

LEMMA TextFacts ==
  ASSUME Types, NEW id \in Ids
  PROVE  /\ HasText(id) <=> files[id] \in SUBSET Edits
         /\ Load(files)[id] # Nothing <=> id \in Builtins \/ HasText(id)
         /\ HasText(id) => Load(files)[id] = files[id]
  <1>1. files[id] \in SUBSET Edits \/ files[id] \in {Nothing, Torn}
    BY DEF Types, FilesOK, Profile
  <1>2. \A c \in SUBSET Edits : c # Nothing /\ c # Torn
    BY ProfilesAssumption
  <1>3. HasText(id) <=> files[id] \in SUBSET Edits
    BY <1>1, <1>2 DEF HasText
  <1>4. QED
    BY <1>3, LoadFacts DEF Types, FilesOK

\* All of it, when x is the only handler that may be at work.
Safe(x, id) == id \in Builtins \/ HasText(id) \/ (x.pc \in {"writing", "clear"} /\ x.id = id)

OneHolds(x) ==
  /\ \A id \in Ids : saved[id] # {} =>
       (HasText(id) /\ saved[id] \subseteq files[id]) \/ (x.pc = "writing" /\ x.id = id)
  /\ x.pc \in {"write", "writing"} /\ x.op = "save" => saved[x.id] \subseteq x.content
  /\ published = Load(files) \/ x.pc \in {"writing", "clear", "reload", "publish"}
  /\ x.pc = "publish" => x.loaded = Load(files)
  /\ \A d \in Devices : rows[d] # Nothing /\ rows[d].choice # Nothing => Safe(x, rows[d].choice)
  /\ x.pc = "assign" /\ x.id # Nothing => Safe(x, x.id)
  /\ x.pc = "remove" => x.op = "delete" \/ (x.op = "reset" /\ x.id \in Builtins)

LEMMA HoldsNow ==
  ASSUME Undisturbed, ~disturbed, NEW a \in Admins, \A b \in Admins : b # a => admin[b].pc = "idle"
  PROVE  OneHolds(admin[a])
  <1>1. FilesHold /\ TextsHold /\ Fresh /\ ChoicesHold /\ Removals
    BY DEF Undisturbed
  <1>2. \A id : /\ WritingAt(id) => admin[a].pc = "writing" /\ admin[a].id = id
                /\ ClearingAt(id) => admin[a].pc = "clear" /\ admin[a].id = id
    BY DEF WritingAt, ClearingAt
  <1>3. ToReload => admin[a].pc \in {"writing", "clear", "reload", "publish"}
    BY DEF ToReload
  <1>4. \A id : Stands(id) => Safe(admin[a], id)
    BY <1>2 DEF Stands, Safe
  <1>5. \A id \in Ids : saved[id] # {} =>
          \/ HasText(id) /\ saved[id] \subseteq files[id]
          \/ admin[a].pc = "writing" /\ admin[a].id = id
    BY <1>1, <1>2 DEF FilesHold
  <1>6. /\ \A d \in Devices : rows[d] # Nothing /\ rows[d].choice # Nothing => Safe(admin[a], rows[d].choice)
        /\ admin[a].pc = "assign" /\ admin[a].id # Nothing => Safe(admin[a], admin[a].id)
    BY <1>1, <1>4 DEF ChoicesHold
  <1>7. /\ admin[a].pc \in {"write", "writing"} /\ admin[a].op = "save" => saved[admin[a].id] \subseteq admin[a].content
        /\ published = Load(files) \/ admin[a].pc \in {"writing", "clear", "reload", "publish"}
        /\ admin[a].pc = "publish" => admin[a].loaded = Load(files)
        /\ admin[a].pc = "remove" => admin[a].op = "delete" \/ (admin[a].op = "reset" /\ admin[a].id \in Builtins)
    BY <1>1, <1>3 DEF TextsHold, Fresh, Removals
  <1>8. QED
    BY <1>5, <1>6, <1>7 DEF OneHolds

LEMMA HoldsNext ==
  ASSUME NEW a \in Admins, NEW x, AdminBecomes(a, x),
         \A b \in Admins : b # a => admin[b].pc = "idle", OneHolds(x)'
  PROVE  Undisturbed'
  <1>1. admin'[a] = x /\ \A b \in Admins : b # a => admin'[b].pc = "idle"
    BY DEF AdminBecomes
  <1>2. Alone'
    BY <1>1 DEF Alone
  <1>3. \A id : /\ x.pc = "writing" /\ x.id = id => WritingAt(id)'
                /\ x.pc = "clear" /\ x.id = id => ClearingAt(id)'
    BY <1>1 DEF WritingAt, ClearingAt
  <1>4. FilesHold' /\ TextsHold' /\ Removals'
    BY <1>1, <1>3 DEF OneHolds, FilesHold, TextsHold, Removals
  <1>5. Fresh'
    BY <1>1 DEF OneHolds, Fresh, ToReload
  <1>6. \A id : Safe(x, id)' => Stands(id)'
    BY <1>3 DEF Safe, Stands
  <1>7. ChoicesHold'
    BY <1>1, <1>6 DEF OneHolds, ChoicesHold
  <1>8. QED
    BY <1>2, <1>4, <1>5, <1>7 DEF Undisturbed

LEMMA BeginUndisturbed == \A a \in Admins : Types /\ Undisturbed /\ Begins(a) => Undisturbed'
  <1> SUFFICES ASSUME NEW a \in Admins, Types, Undisturbed, Begins(a), ~disturbed' PROVE Undisturbed'
    BY DEF Undisturbed
  <1>1. PICK pc, op, id, content, device :
          Fits(pc, op, id, content, device) /\ Begin(a, pc, op, id, content, device)
    BY BeginsFits
  <1>2. PICK x \in AdminRecords :
           /\ AdminBecomes(a, x) /\ x.pc = pc /\ x.op = op /\ x.id = id /\ x.content = content
           /\ x.device = device
           /\ admin[a].pc = "idle" /\ ops' \in 0 .. MaxOps
           /\ disturbed' = (disturbed \/ Disturbs(op, id))
           /\ UNCHANGED <<files, published, saved, rows, capture, request, clock, restarts>>
    BY <1>1, BeginFacts
  <1>3. ~disturbed /\ (\A b \in Admins : admin[b].pc = "idle") /\ (op = "reset" => id \in Builtins)
    BY <1>2 DEF Disturbs
  <1>4. OneHolds(admin[a])
    BY <1>3, HoldsNow
  <1>5. /\ \A i \in Ids : saved[i] # {} => HasText(i) /\ saved[i] \subseteq files[i]
        /\ published = Load(files)
        /\ \A d \in Devices : rows[d] # Nothing /\ rows[d].choice # Nothing
             => rows[d].choice \in Builtins \/ HasText(rows[d].choice)
    BY <1>3, <1>4 DEF OneHolds, Safe
  <1>6. x.pc \in {"write", "writing"} /\ x.op = "save" => saved[x.id] \subseteq x.content
    <2> SUFFICES ASSUME x.pc = "write", x.op = "save", saved[x.id] # {} PROVE saved[x.id] \subseteq x.content
      BY <1>1, <1>2 DEF Fits
    <2>1. x.id \in Ids /\ published[x.id] \subseteq x.content
      BY <1>1, <1>2 DEF Fits, Working
    <2>2. published[x.id] = files[x.id]
      BY <1>5, <2>1, TextFacts
    <2>3. QED
      BY <1>5, <2>1, <2>2
  <1>7. x.pc = "assign" /\ x.id # Nothing => x.id \in Builtins \/ HasText(x.id)
    BY <1>1, <1>2, <1>5, TextFacts DEF Fits
  <1>8. x.pc # "publish" /\ (x.pc = "remove" => x.op = "delete" \/ (x.op = "reset" /\ x.id \in Builtins))
    BY <1>1, <1>2, <1>3 DEF Fits
  <1>9. OneHolds(x)'
    BY <1>2, <1>5, <1>6, <1>7, <1>8 DEF OneHolds, Safe, HasText
  <1>10. QED
    BY <1>2, <1>3, <1>9, HoldsNext

\* The only handler at work goes on.
LEMMA WorkAlone ==
  ASSUME Types, Undisturbed, ~disturbed, NEW a \in Admins, admin[a].pc # "idle"
  PROVE  (\A b \in Admins : b # a => admin[b].pc = "idle") /\ OneHolds(admin[a])
  <1>1. \A b \in Admins : b # a => admin[b].pc = "idle"
    BY DEF Undisturbed, Alone
  <1>2. QED
    BY <1>1, HoldsNow

LEMMA WriteUndisturbed ==
  \A a \in Admins : Types /\ Undisturbed /\ ~disturbed /\ (WriteBegins(a) \/ WriteEnds(a)) => Undisturbed'
  <1> SUFFICES ASSUME NEW a \in Admins, Types, Undisturbed, ~disturbed, WriteBegins(a) \/ WriteEnds(a)
      PROVE  Undisturbed'
    OBVIOUS
  <1>1. admin[a].pc # "idle" /\ admin[a].id \in Ids
    BY WriteBeginsFacts, WriteEndsFacts
  <1>2. (\A b \in Admins : b # a => admin[b].pc = "idle") /\ OneHolds(admin[a])
    BY <1>1, WorkAlone
  <1>id. PICK i \in Ids : i = admin[a].id
    BY <1>1
  <1>3. CASE WriteBegins(a)
    <2>1. /\ admin[a].pc = "write" /\ files' = [files EXCEPT ![i] = Torn]
          /\ UNCHANGED <<published, saved, rows>>
      BY <1>id, <1>3, WriteBeginsFacts
    <2>2. PICK x \in AdminRecords :
            /\ AdminBecomes(a, x) /\ x.pc = "writing" /\ x.op = admin[a].op /\ x.id = i
            /\ x.content = admin[a].content
      BY <1>id, <1>3, WriteBeginsFacts
    <2>3. \A j \in Ids : j # i => files'[j] = files[j] /\ (HasText(j) => HasText(j)')
      BY <1>1, <2>1 DEF HasText, Types, FilesOK
    <2>4. \A j : Safe(admin[a], j) => Safe(x, j)'
      <3> SUFFICES ASSUME NEW j, Safe(admin[a], j), j \notin Builtins, j # i PROVE Safe(x, j)'
        BY <1>id, <2>2 DEF Safe
      <3>1. HasText(j)
        BY <2>1 DEF Safe
      <3>2. HasText(j)'
        BY <2>1, <3>1 DEF HasText, Types, FilesOK
      <3>3. QED
        BY <3>2 DEF Safe
    <2>5. OneHolds(x)'
      <3>1. \A j \in Ids : saved'[j] # {} =>
              (HasText(j)' /\ saved'[j] \subseteq files'[j]) \/ (x.pc = "writing" /\ x.id = j)
        BY <1>2, <1>id, <2>1, <2>2, <2>3 DEF OneHolds
      <3>2. x.pc = "writing" /\ (x.op = "save" => saved'[x.id] \subseteq x.content)
        BY <1>2, <1>id, <2>1, <2>2 DEF OneHolds
      <3>3. \A d \in Devices : (rows[d] # Nothing /\ rows[d].choice # Nothing => Safe(x, rows[d].choice))'
        BY <1>2, <2>1, <2>4 DEF OneHolds
      <3>4. QED
        BY <3>1, <3>2, <3>3 DEF OneHolds
    <2>6. QED
      BY <1>2, <2>2, <2>5, HoldsNext
  <1>4. CASE WriteEnds(a)
    <2>1. /\ admin[a].pc = "writing" /\ files' = [files EXCEPT ![i] = admin[a].content]
          /\ saved' = [saved EXCEPT ![i] =
                         IF admin[a].op = "save" THEN saved[i] \union admin[a].content ELSE {}]
          /\ UNCHANGED <<published, rows>> /\ admin[a].content \in SUBSET Edits
      BY <1>id, <1>4, WriteEndsFacts, AdminType
    <2>2. PICK x \in AdminRecords : AdminBecomes(a, x) /\ x.pc = "reload"
      BY <1>4, WriteEndsFacts
    <2>3. \A j \in Ids : j # i => files'[j] = files[j] /\ saved'[j] = saved[j] /\ (HasText(j) => HasText(j)')
      BY <1>1, <2>1 DEF HasText, Types, FilesOK
    <2>4. files'[i] = admin[a].content /\ HasText(i)'
      BY <1>1, <2>1, ProfilesAssumption DEF HasText, Types, FilesOK
    <2>5. saved'[i] \subseteq files'[i]
      BY <1>1, <1>2, <1>id, <2>1, <2>4 DEF OneHolds, Types, FilesOK
    <2>6. \A j : Safe(admin[a], j) => Safe(x, j)'
      <3> SUFFICES ASSUME NEW j, Safe(admin[a], j), j \notin Builtins PROVE HasText(j)'
        BY DEF Safe
      <3>1. CASE j = i
        BY <2>4, <3>1
      <3>2. CASE j # i
        BY <1>id, <2>1, <3>2 DEF HasText, Safe, Types, FilesOK
      <3>3. QED
        BY <3>1, <3>2
    <2>7. OneHolds(x)'
      <3>1. \A j \in Ids : saved'[j] # {} => HasText(j)' /\ saved'[j] \subseteq files'[j]
        BY <1>2, <1>id, <2>1, <2>3, <2>4, <2>5 DEF OneHolds
      <3>2. \A d \in Devices : (rows[d] # Nothing /\ rows[d].choice # Nothing => Safe(x, rows[d].choice))'
        BY <1>2, <2>1, <2>6 DEF OneHolds
      <3>3. QED
        BY <2>2, <3>1, <3>2 DEF OneHolds
    <2>8. QED
      BY <1>2, <2>2, <2>7, HoldsNext
  <1>5. QED
    BY <1>3, <1>4

LEMMA RemoveUndisturbed == \A a \in Admins : Types /\ Undisturbed /\ ~disturbed /\ RemoveFile(a) => Undisturbed'
  <1> SUFFICES ASSUME NEW a \in Admins, Types, Undisturbed, ~disturbed, RemoveFile(a) PROVE Undisturbed'
    OBVIOUS
  <1>1. PICK i \in Ids : i = admin[a].id
    BY RemoveFacts
  <1>2. /\ admin[a].pc = "remove" /\ files' = [files EXCEPT ![i] = Nothing]
        /\ saved' = [saved EXCEPT ![i] = {}] /\ UNCHANGED <<published, rows>>
    BY <1>1, RemoveFacts
  <1>3. PICK x \in AdminRecords :
          /\ AdminBecomes(a, x)
          /\ \/ x.pc = "reload" /\ admin[a].op = "reset"
             \/ x = IdleAdmin /\ files[i] = Nothing
             \/ x.pc = "clear" /\ x.id = i
    BY <1>1, RemoveFacts
  <1>4. (\A b \in Admins : b # a => admin[b].pc = "idle") /\ OneHolds(admin[a])
    BY <1>2, WorkAlone
  <1>5. /\ \A j \in Ids : saved[j] # {} => HasText(j) /\ saved[j] \subseteq files[j]
        /\ published = Load(files) /\ (admin[a].op = "delete" \/ i \in Builtins)
        /\ admin[a].op # "reset" \/ i \in Builtins
        /\ \A d \in Devices : rows[d] # Nothing /\ rows[d].choice # Nothing
             => rows[d].choice \in Builtins \/ HasText(rows[d].choice)
    BY <1>1, <1>2, <1>4 DEF OneHolds, Safe
  <1>6. x.pc \in {"reload", "clear", "idle"}
    BY <1>3, IdleTypes
  <1>7. \A j \in Ids : saved'[j] # {} => j # i /\ saved'[j] = saved[j] /\ files'[j] = files[j]
    BY <1>2 DEF Types, FilesOK
  <1>8. ASSUME NEW j, j \in Builtins \/ HasText(j) PROVE Safe(x, j)'
    <2>1. CASE j \in Builtins
      BY <2>1 DEF Safe
    <2>2. CASE j \notin Builtins /\ j # i
      <3>1. HasText(j)'
        BY <1>2, <1>8, <2>2 DEF HasText, Types, FilesOK
      <3>2. QED
        BY <3>1 DEF Safe
    <2>3. CASE j \notin Builtins /\ j = i
      <3>1. x.pc = "clear" /\ x.id = j
        BY <1>3, <1>5, <1>8, <2>3 DEF HasText
      <3>2. QED
        BY <3>1 DEF Safe
    <2>4. QED
      BY <2>1, <2>2, <2>3
  <1>9. published' = Load(files') \/ x.pc \in {"reload", "clear"}
    <2>1. CASE x = IdleAdmin /\ files[i] = Nothing
      BY <1>2, <1>5, <2>1 DEF Types, FilesOK
    <2>2. QED
      BY <1>3, <2>1
  <1>10. OneHolds(x)'
    <2>1. \A j \in Ids : saved'[j] # {} => HasText(j)' /\ saved'[j] \subseteq files'[j]
      BY <1>5, <1>7 DEF HasText
    <2>2. \A d \in Devices : (rows[d] # Nothing /\ rows[d].choice # Nothing => Safe(x, rows[d].choice))'
      BY <1>2, <1>5, <1>8
    <2>3. QED
      BY <1>6, <1>9, <2>1, <2>2 DEF OneHolds
  <1>11. QED
    BY <1>3, <1>4, <1>10, HoldsNext

LEMMA ClearUndisturbed == \A a \in Admins : Types /\ Undisturbed /\ ~disturbed /\ ClearChoices(a) => Undisturbed'
  <1> SUFFICES ASSUME NEW a \in Admins, Types, Undisturbed, ~disturbed, ClearChoices(a) PROVE Undisturbed'
    OBVIOUS
  <1>1. /\ admin[a].pc = "clear"
        /\ rows' = [d \in Devices |->
                      IF rows[d] # Nothing /\ rows[d].choice = admin[a].id
                      THEN [rows[d] EXCEPT !.choice = Nothing] ELSE rows[d]]
        /\ UNCHANGED <<files, published, saved>>
    BY ClearFacts
  <1>2. PICK x \in AdminRecords : AdminBecomes(a, x) /\ x.pc = "reload"
    BY ClearFacts
  <1>3. (\A b \in Admins : b # a => admin[b].pc = "idle") /\ OneHolds(admin[a])
    BY <1>1, WorkAlone
  <1>4. ASSUME NEW d \in Devices, rows'[d] # Nothing, rows'[d].choice # Nothing
        PROVE  rows[d] # Nothing /\ rows'[d].choice = rows[d].choice /\ rows[d].choice # admin[a].id
    <2>1. rows'[d] = IF rows[d] # Nothing /\ rows[d].choice = admin[a].id
                     THEN [rows[d] EXCEPT !.choice = Nothing] ELSE rows[d]
      BY <1>1
    <2>2. rows[d] # Nothing => rows[d] \in Rows
      BY DEF Types, DevicesOK
    <2>3. QED
      BY <1>4, <2>1, <2>2 DEF Rows
  <1>5. OneHolds(x)'
    <2>1. \A j \in Ids : saved'[j] # {} => HasText(j)' /\ saved'[j] \subseteq files'[j]
      BY <1>1, <1>3 DEF OneHolds, HasText
    <2>2. ASSUME NEW d \in Devices, rows'[d] # Nothing, rows'[d].choice # Nothing
          PROVE  rows'[d].choice \in Builtins \/ HasText(rows'[d].choice)
      BY <1>3, <1>4, <2>2 DEF OneHolds, Safe
    <2>3. \A d \in Devices : (rows[d] # Nothing /\ rows[d].choice # Nothing => Safe(x, rows[d].choice))'
      BY <1>1, <2>2 DEF Safe, HasText
    <2>4. QED
      BY <1>2, <2>1, <2>3 DEF OneHolds
  <1>6. QED
    BY <1>2, <1>3, <1>5, HoldsNext

LEMMA ReloadUndisturbed ==
  \A a \in Admins : Types /\ Undisturbed /\ ~disturbed /\ (ReloadReads(a) \/ ReloadPublishes(a)) => Undisturbed'
  <1> SUFFICES ASSUME NEW a \in Admins, Types, Undisturbed, ~disturbed, ReloadReads(a) \/ ReloadPublishes(a)
      PROVE  Undisturbed'
    OBVIOUS
  <1>1. admin[a].pc \in {"reload", "publish"} /\ UNCHANGED <<files, saved, rows>>
    BY ReloadReadsFacts, ReloadPublishesFacts
  <1>2. (\A b \in Admins : b # a => admin[b].pc = "idle") /\ OneHolds(admin[a])
    BY <1>1, WorkAlone
  <1>3. PICK x \in AdminRecords :
          /\ AdminBecomes(a, x)
          /\ \/ x.pc = "publish" /\ x.loaded = Load(files)
             \/ x.pc = "idle" /\ published' = Load(files)
    <2>1. CASE ReloadReads(a)
      BY <2>1, ReloadReadsFacts
    <2>2. CASE ReloadPublishes(a)
      BY <1>2, <2>2, ReloadPublishesFacts, IdleTypes DEF OneHolds
    <2>3. QED
      BY <2>1, <2>2
  <1>4. OneHolds(x)'
    <2>1. \A j \in Ids : saved'[j] # {} => HasText(j)' /\ saved'[j] \subseteq files'[j]
      BY <1>1, <1>2 DEF OneHolds, HasText
    <2>2. \A d \in Devices : (rows[d] # Nothing /\ rows[d].choice # Nothing => Safe(x, rows[d].choice))'
      BY <1>1, <1>2 DEF OneHolds, Safe, HasText
    <2>3. QED
      BY <1>1, <1>3, <2>1, <2>2 DEF OneHolds
  <1>5. QED
    BY <1>2, <1>3, <1>4, HoldsNext

\* Handlers about devices touch no profile.
LEMMA DeviceUndisturbed ==
  \A a \in Admins : Types /\ Undisturbed /\ ~disturbed /\ (Assign(a) \/ EraseDevice(a)) => Undisturbed'
  <1> SUFFICES ASSUME NEW a \in Admins, Types, Undisturbed, ~disturbed, Assign(a) \/ EraseDevice(a)
      PROVE  Undisturbed'
    OBVIOUS
  <1>1. admin[a].pc \in OnDevice /\ UNCHANGED <<files, published, saved>>
    BY AssignFacts, EraseFacts DEF OnDevice
  <1>2. (\A b \in Admins : b # a => admin[b].pc = "idle") /\ OneHolds(admin[a])
    BY <1>1, WorkAlone DEF OnDevice
  <1>3. \E x : AdminBecomes(a, x) /\ x.pc \in {"idle", "erase_live"}
    BY AssignFacts, EraseFacts, IdleTypes
  <1>4. PICK x : AdminBecomes(a, x) /\ x.pc \in {"idle", "erase_live"}
    BY <1>3
  <1>5. ASSUME NEW d \in Devices, rows'[d] # Nothing, rows'[d].choice # Nothing
        PROVE  \/ rows[d] # Nothing /\ rows[d].choice = rows'[d].choice
               \/ admin[a].pc = "assign" /\ admin[a].id # Nothing /\ rows'[d].choice = admin[a].id
    <2>1. CASE Assign(a)
      BY <1>5, <2>1, AssignFacts
    <2>2. CASE EraseDevice(a)
      BY <1>5, <2>2, EraseFacts DEF Types, DevicesOK
    <2>3. QED
      BY <2>1, <2>2
  <1>6. OneHolds(x)'
    <2>1. \A j \in Ids : saved'[j] # {} => HasText(j)' /\ saved'[j] \subseteq files'[j]
      BY <1>1, <1>2 DEF OneHolds, HasText, OnDevice
    <2>2. ASSUME NEW d \in Devices, rows'[d] # Nothing, rows'[d].choice # Nothing
          PROVE  rows'[d].choice \in Builtins \/ HasText(rows'[d].choice)
      BY <1>1, <1>2, <1>5, <2>2 DEF OneHolds, Safe, OnDevice
    <2>3. \A d \in Devices : (rows[d] # Nothing /\ rows[d].choice # Nothing => Safe(x, rows[d].choice))'
      BY <1>1, <2>2 DEF Safe, HasText
    <2>4. published' = Load(files')
      BY <1>1, <1>2 DEF OneHolds, OnDevice
    <2>5. QED
      BY <1>4, <2>1, <2>3, <2>4 DEF OneHolds
  <1>7. QED
    BY <1>2, <1>4, <1>6, HoldsNext

\* Nothing a handler works with changes, and no choice is new.
LEMMA UndisturbedFrame ==
  ASSUME Undisturbed, UNCHANGED <<files, published, saved, admin, disturbed>>,
         \A d \in Devices : rows'[d] # Nothing /\ rows'[d].choice # Nothing
           => rows[d] # Nothing /\ rows[d].choice = rows'[d].choice
  PROVE  Undisturbed'
  <1> SUFFICES ASSUME ~disturbed' PROVE Undisturbed'
    BY DEF Undisturbed
  <1>1. Alone /\ FilesHold /\ TextsHold /\ Fresh /\ ChoicesHold /\ Removals
    BY DEF Undisturbed
  <1>2. Alone' /\ FilesHold' /\ TextsHold' /\ Fresh' /\ Removals'
    BY <1>1 DEF Alone, FilesHold, TextsHold, Fresh, Removals, HasText, WritingAt, ToReload
  <1>3. \A id : Stands(id) => Stands(id)'
    BY DEF Stands, HasText, WritingAt, ClearingAt
  <1>4. \A d \in Devices : (rows[d] # Nothing /\ rows[d].choice # Nothing => Stands(rows[d].choice))'
    <2> SUFFICES ASSUME NEW d \in Devices, rows'[d] # Nothing, rows'[d].choice # Nothing
        PROVE  Stands(rows[d].choice)'
      OBVIOUS
    <2>1. PICK c : c = rows'[d].choice
      OBVIOUS
    <2>2. Stands(c)
      BY <1>1, <2>1 DEF ChoicesHold
    <2>3. Stands(c)'
      BY <1>3, <2>2
    <2>4. QED
      BY <2>1, <2>3 DEF Stands, HasText, WritingAt, ClearingAt
  <1>5. ChoicesHold'
    BY <1>1, <1>3, <1>4 DEF ChoicesHold, Stands, HasText, WritingAt, ClearingAt
  <1>6. QED
    BY <1>2, <1>5 DEF Undisturbed

LEMMA OtherUndisturbed ==
  ASSUME Types, Undisturbed, Tick \/ UNCHANGED vars \/ \E r \in Requests : RequestStep(r)
  PROVE  Undisturbed'
  <1>1. CASE Tick \/ UNCHANGED vars
    BY <1>1, UndisturbedFrame DEF Tick, vars, profiles, devices
  <1>2. ASSUME NEW r \in Requests, RequestStep(r) PROVE Undisturbed'
    <2>1. UNCHANGED <<files, published, saved, admin, disturbed>>
      BY <1>2, ReadChoiceFacts, IdentifyFacts, RecordFacts, SaveRowFacts DEF RequestStep
    <2>2. ASSUME NEW d \in Devices, rows'[d] # Nothing, rows'[d].choice # Nothing
          PROVE  rows[d] # Nothing /\ rows[d].choice = rows'[d].choice
      BY <1>2, <2>2, ReadChoiceFacts, IdentifyFacts, RecordFacts, SaveRowFacts DEF RequestStep
    <2>3. QED
      BY <2>1, <2>2, UndisturbedFrame
  <1>3. QED
    BY <1>1, <1>2

LEMMA RestartUndisturbed == Types /\ Undisturbed /\ Restart => Undisturbed'
  <1> SUFFICES ASSUME Types, Undisturbed, Restart, ~disturbed' PROVE Undisturbed'
    BY DEF Undisturbed
  <1>1. /\ published' = Load(files) /\ admin' = [a \in Admins |-> IdleAdmin]
        /\ disturbed' = (disturbed \/ \E a \in Admins : admin[a].pc # "idle")
        /\ UNCHANGED <<files, saved, rows>>
    BY RestartFacts
  <1>2. ~disturbed /\ \A a \in Admins : admin[a].pc = "idle" /\ admin'[a].pc = "idle"
    BY <1>1, IdleTypes
  <1>3. FilesHold /\ ChoicesHold
    BY <1>2 DEF Undisturbed
  <1>4. Alone' /\ TextsHold' /\ Fresh' /\ Removals'
    BY <1>1, <1>2 DEF Alone, TextsHold, Fresh, Removals
  <1>5. FilesHold'
    BY <1>1, <1>2, <1>3 DEF FilesHold, HasText, WritingAt
  <1>6. ChoicesHold'
    BY <1>1, <1>2, <1>3 DEF ChoicesHold, Stands, HasText, WritingAt, ClearingAt
  <1>7. QED
    BY <1>4, <1>5, <1>6 DEF Undisturbed

LEMMA UndisturbedStart == Init => Undisturbed
  <1> SUFFICES ASSUME Init PROVE Undisturbed
    OBVIOUS
  <1>1. \A a \in Admins : admin[a].pc = "idle"
    BY IdleTypes DEF Init
  <1>2. Alone /\ TextsHold /\ Fresh /\ Removals
    BY <1>1 DEF Init, Alone, TextsHold, Fresh, Removals
  <1>3. FilesHold /\ ChoicesHold
    BY <1>1 DEF Init, FilesHold, ChoicesHold
  <1>4. QED
    BY <1>2, <1>3 DEF Undisturbed

LEMMA UndisturbedStep == Types /\ Undisturbed /\ [Next]_vars => Undisturbed'
  <1> SUFFICES ASSUME Types, Undisturbed, [Next]_vars PROVE Undisturbed'
    OBVIOUS
  <1>1. ASSUME NEW a \in Admins, Works(a) PROVE Undisturbed'
    <2>1. disturbed' = disturbed
      BY <1>1, WriteBeginsFacts, WriteEndsFacts, RemoveFacts, ClearFacts, ReloadReadsFacts,
         ReloadPublishesFacts, AssignFacts, EraseFacts DEF Works
    <2>2. CASE disturbed
      BY <2>1, <2>2 DEF Undisturbed
    <2>3. CASE ~disturbed
      BY <1>1, <2>3, WriteUndisturbed, RemoveUndisturbed, ClearUndisturbed, ReloadUndisturbed,
         DeviceUndisturbed DEF Works
    <2>4. QED
      BY <2>2, <2>3
  <1>2. QED
    BY <1>1, StepKinds, BeginUndisturbed, OtherUndisturbed, RestartUndisturbed

LEMMA UndisturbedMeans == Types /\ Undisturbed => EditsAndChoicesStand
  <1> SUFFICES ASSUME Types, Undisturbed, Quiet PROVE EditsAndChoicesStand
    BY DEF EditsAndChoicesStand, SavedEditsSurvive, NoDanglingChoice
  <1>1. FilesHold /\ ChoicesHold /\ published = Load(files)
    BY DEF Quiet, Undisturbed, Fresh, ToReload
  <1>2. ASSUME NEW id \in Ids, saved[id] # {}
        PROVE  published[id] # Nothing /\ saved[id] \subseteq published[id]
    <2>1. HasText(id) /\ saved[id] \subseteq files[id]
      BY <1>1, <1>2 DEF FilesHold, WritingAt, Quiet
    <2>2. QED
      BY <1>1, <2>1, TextFacts
  <1>3. ASSUME NEW d \in Devices, rows[d] # Nothing, rows[d].choice # Nothing
        PROVE  Exists(rows[d].choice)
    <2>1. rows[d].choice \in Ids
      BY <1>3 DEF Types, DevicesOK, Rows
    <2>2. rows[d].choice \in Builtins \/ HasText(rows[d].choice)
      BY <1>1, <1>3 DEF ChoicesHold, Stands, WritingAt, ClearingAt, Quiet
    <2>3. QED
      BY <1>1, <2>1, <2>2, TextFacts DEF Exists
  <1>4. QED
    BY <1>2, <1>3 DEF EditsAndChoicesStand, SavedEditsSurvive, NoDanglingChoice

\* api_profile_save, api_profile_delete, reload_profiles: as long as handlers
\* do not overlap, an edit that was saved is in force until it is taken back,
\* and no device stays bound to a profile that does not exist.
THEOREM EditsStand == Spec => []EditsAndChoicesStand
  <1>1. Init => Undisturbed
    BY UndisturbedStart
  <1>2. Types /\ Undisturbed /\ [Next]_vars => Undisturbed'
    BY UndisturbedStep
  <1>3. Types /\ Undisturbed => EditsAndChoicesStand
    BY UndisturbedMeans
  <1>4. QED
    BY <1>1, <1>2, <1>3, TypesAlways, PTL DEF Spec

=============================================================================
