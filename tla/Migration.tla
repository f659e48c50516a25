------------------------------ MODULE Migration ------------------------------
(***************************************************************************)
(* Opening the database: Store::open and migrate of store/schema.rs, by    *)
(* the server at boot and by `rustiio posters` beside it.  Every statement *)
(* commits on its own, and user_version is written once, after the last.   *)
(* With synchronous = NORMAL a loss of power may take the latest commits   *)
(* with it, but never one before another that stays.                       *)
(***************************************************************************)
EXTENDS Integers, Sequences

CONSTANTS
    Openers,      \* the server and the command line
    FoundVersions, \* versions that the database was left at by older programs
    MaxOpens      \* bound on the processes that open it

ASSUME MigrationAssumption == FoundVersions \subseteq 0 .. 7 /\ MaxOpens \in Nat

VARIABLES
    oldVersion,     \* the version that the database was found with
    log,       \* what was committed since
    opener,    \* of each process: [phase, todo]
    opens,
    halfway,   \* a migration was ended after a statement and before the version (history)
    together   \* two processes migrated at once (history)

migrationVars == <<oldVersion, log, opener, opens, halfway, together>>

VERSION == 7

\* The statements of all steps, in order, and the version after them; CREATE ...
\* IF NOT EXISTS may be said again, ALTER TABLE ... ADD COLUMN may not.
Schema ==
    <<"tables", "items_fts", "items.poster", "items.poster_source", "title_ids",
      "devices.ip", "devices.headers", "items.video_pix_fmt", "items.video_profile",
      "devices.profile_choice", "items.subtitles", "user_version">>
Repeatable == {"tables", "items_fts", "title_ids", "user_version"}

\* A database of each version has the first so many of them.
Count == [v \in 0 .. VERSION |-> <<0, 2, 4, 5, 7, 9, 10, 11>>[v + 1]]
Columns(v) == {Schema[k] : k \in 1 .. Count[v]}
Committed == {log[k] : k \in 1 .. Len(log)}
There == Columns(oldVersion) \cup Committed
UserVersion == IF "user_version" \in Committed THEN VERSION ELSE oldVersion

StatementsVersionFirst(v) ==
    IF v >= VERSION THEN <<>>
    ELSE <<"user_version">> \o SubSeq(Schema, Count[v] + 1, Len(Schema) - 1)
Statements(v) ==
    IF v >= VERSION THEN <<>> ELSE SubSeq(Schema, Count[v] + 1, Len(Schema))

Down == [phase |-> "down", todo |-> <<>>]
MigrationInit ==
    /\ oldVersion \in FoundVersions /\ log = <<>> /\ opens = 0
    /\ opener = [o \in Openers |-> Down]
    /\ halfway = FALSE /\ together = FALSE

Opens(o) ==
    /\ opener[o].phase \in {"down", "failed"} /\ opens < MaxOpens
    /\ opens' = opens + 1
    /\ opener' = [opener EXCEPT ![o] = [phase |-> "migrate", todo |-> Statements(UserVersion)]]
    /\ together' = (together \/ \E p \in Openers \ {o} : opener[p].todo # <<>>)
    /\ UNCHANGED <<oldVersion, log, halfway>>

\* execute_batch ends at the first error, and with it the process.
Executes(o) ==
    /\ opener[o].phase = "migrate" /\ opener[o].todo # <<>>
    /\ LET s == Head(opener[o].todo)
       IN IF s \in There \ Repeatable
          THEN opener' = [opener EXCEPT ![o] = [Down EXCEPT !.phase = "failed"]] /\ UNCHANGED log
          ELSE /\ opener' = [opener EXCEPT ![o].todo = Tail(@)]
               /\ log' = IF s \in There THEN log ELSE Append(log, s)
    /\ UNCHANGED <<oldVersion, opens, halfway, together>>

Opened(o) ==
    /\ opener[o].phase = "migrate" /\ opener[o].todo = <<>>
    /\ opener' = [opener EXCEPT ![o].phase = "open"]
    /\ UNCHANGED <<oldVersion, log, opens, halfway, together>>

\* A column has been added and the version not yet written.
HalfDone == "user_version" \notin Committed /\ ~Committed \subseteq Repeatable

\* The process is killed or ends.
OpenerStops(o) ==
    /\ opener[o].phase \in {"migrate", "open"}
    /\ opener' = [opener EXCEPT ![o] = Down]
    /\ halfway' = (halfway \/ (opener[o].todo # <<>> /\ HalfDone))
    /\ UNCHANGED <<oldVersion, log, opens, together>>

PowerLost ==
    /\ \E n \in 0 .. Len(log) :
         /\ log' = SubSeq(log, 1, n)
         /\ halfway' = (halfway \/ HalfDone')
    /\ opener' = [o \in Openers |-> Down]
    /\ UNCHANGED <<oldVersion, opens, together>>

MigrationNext ==
    \/ \E o \in Openers : Opens(o) \/ Executes(o) \/ Opened(o) \/ OpenerStops(o)
    \/ PowerLost

MigrationSpec == MigrationInit /\ [][MigrationNext]_migrationVars

-----------------------------------------------------------------------------
\* The version never says that a column is there which is not, whatever was
\* ended where and whoever migrated beside: nothing would ever add it.
VersionTellsTheTruth == UserVersion = VERSION => Columns(VERSION) \subseteq There

\* Who has the database open finds every column in it.
OpenIsWhole == \A o \in Openers : opener[o].phase = "open" => Columns(VERSION) \subseteq There

\* A database of any version opens, unless a migration was ended half way or
\* another one ran beside.
OpensUnlessCut == (\E o \in Openers : opener[o].phase = "failed") => halfway \/ together

\* What store/schema.rs promises with "Idempotentno", as far as it holds.
MigrationInv == VersionTellsTheTruth /\ OpenIsWhole /\ OpensUnlessCut

=============================================================================
