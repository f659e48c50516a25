# A TLA+ development for Rustiio

Rustiio is a DLNA/UPnP media server written in Rust (nine crates under
`src/crates`, two applications under `src/apps`). It scans folders into a
SQLite index, announces itself on the network, answers Browse and Search
requests of televisions, and serves files as they are or through ffmpeg.

This directory specifies the parts of it in which something can go wrong that
a test hardly reaches: requests, background tasks and clients that interleave;
tasks that fail or are cut off by a restart; what was read once and used later;
messages that are lost; rules that decide from texts. The specifications are
checked with TLC on small instances, and the results that matter most are
proved with TLAPS for every value of the constants.

Contents: 1 inventory, 2 the modules and the code, 3 the runs, 4 fairness,
5 the proofs, 6 where code and documentation disagree, 7 what is not modelled,
8 what is left.

`PROJECT.json` holds the same facts for tools: components, runs, mutations of
the model for every property, the lines every definition stands for, findings,
hazards and theorems. File names below are relative to `src/crates` unless they
say otherwise.

---------------------------------------------------------------------------

## 1. Inventory

Each part: the state it keeps, its operations, what is hard about it, what
makes it correct, and the modules that model it.

### Serving

**Transcode sessions** (`rustiio-transcode/src/session.rs`, `serve_ffmpeg` in
`rustiio-server/src/routes.rs`). State: a semaphore of 1 to 16 permits, a
counter of ids, a map of active sessions, one ffmpeg process per session.
Operations: `start` (acquire, spawn, number, list) and `Drop for Session`
(kill, unlist, give the permit back). Requests run on different threads and
have no common lock. Correct when no slot is lost or made up, no more encoders
run than there are slots, and the dashboard lists exactly what runs.
*`Sessions`, `SlotPool`.*

**Playback decision and metadata cache** (`rustiio-transcode/src/decision.rs`,
`ffmpeg.rs`, `hwaccel.rs`; `rustiio-server/src/playback.rs`, `routes.rs`,
`library.rs`; `rustiio-library/src/mediainfo.rs`, `store/items.rs`). State: the
cache of ffprobe results, the media columns of the table `items`, the settings,
the profile of the television. A decision is made twice, in the offer and in
the answer, with whatever is known at each moment; three tasks and every
request write the same cache. Correct when a television gets what it can open
and what it was offered, and when nothing older than a rescan is believed.
*`Decision`, `Playback`.*

**HTTP ranges, time seek, duration probe** (`rustiio-http`,
`rustiio-library/src/probe.rs`, `serve_node`). No state but the cache of
durations. Off-by-one at both ends, empty files, a file that changes between
`metadata()` and `open()`. Correct when Content-Length is the number of bytes
sent and Content-Range names them. *`ByteRange`, `FileServing`.*

**Subtitles** (`rustiio-library/src/subtitles.rs`, `routes.rs`). Files beside
a film are attached by name; tracks inside are extracted to a temporary file
that requests share. Correct when a television gets the subtitle it asked for.
*`Subtitles`.*

**Play state** (`rustiio-library/src/store/play_state.rs`). Position and
played flag per device and item. Reports come in any order. Correct when a film
is neither forgotten nor resumed at its end. *`PlayState`.*

### Library

**Scan and synchronisation** (`rustiio-library/src/scan.rs`, `store/adopt.rs`,
`store/items.rs`, `AppState::rescan`). State: the disk, the tables `roots`,
`items`, `play_state`, the published catalog. REST, the watcher, the auto-scan
and the AC-3 worker rescan, and nothing serialises them. Correct when ids are
stable, positions stay with their films, and catalog and database name the same
files. *`LibrarySync`.*

**Names and grouping** (`naming.rs`, `series.rs`, `grouping.rs`, `scan.rs`).
Words of a name to series, season, episode, year; a tree of folders rearranged
under series and seasons. Correct when everything stands once, where its name
says. *`ReleaseNames`, `Shelves`.*

**Watcher and auto-scan** (`rustiio-library/src/watch.rs`, `boot.rs`,
`state.rs`). A debouncing callback, an unbounded channel, a loop that waits and
rescans, a timer that rescans. Correct when an announced change is published
and the catalog ends up showing the disk. *`Watcher`.*

**AC-3 preparation** (`rustiio-server/src/api/prepare.rs`). A queue, one worker
that is started on demand, a job that copies with ffmpeg and renames the
original. Correct when one worker runs, every job is taken, and no original is
lost. *`PrepareQueue`.*

**Schema migrations** (`store/schema.rs`). Statements without a transaction
around them, a version number written at the end. Correct when the version
tells what is there and a start after a stop can go on. *`Migration`.*

**Posters and metadata services** (`metadata/*.rs`, `store/titles.rs`,
`rustiio-server/src/art.rs`). Passes over the rows with a cursor, a cache of
pictures, records remembered for titles, a chain of services, two ways to ask
again. Correct when a picture is one of the film. *`PosterTitles`, `Posters`.*

### UPnP

**ContentDirectory** (`rustiio-cds`, `store/search.rs`, `api/browse.rs`).
Browse with paging and sorting, categories, search over the index. Correct when
pages neither repeat nor skip items, counts agree with lists and a search finds
what it says. *`ContentDirectory`.*

**GENA eventing** (`gena.rs`, `routes.rs`, `state.rs` of `rustiio-server`).
State: the registry of subscriptions, SystemUpdateID. NOTIFYs are sent with no
lock held; SEQ is advanced afterwards. Correct when no count is lost and no
subscriber keeps an old SystemUpdateID. *`Eventing`.*

**SSDP discovery** (`rustiio-ssdp`). Announcer, responder, byebye over UDP.
Correct when a control point keeps seeing a server that runs and forgets one
that stopped. *`Discovery`.*

**Protocol texts** (`rustiio-upnp`). XML in and out.

### Devices and settings

**Profiles and the register of devices** (`rustiio-profiles`,
`store/devices.rs`, `routes.rs`, `api/profiles.rs`, `state.rs`). Four stores:
profile files, the published set, the live register, the table `devices`. REST
handlers and requests of televisions go from one to the next. Correct when a
user's choice and a saved edit survive. *`Profiles`.*

**Recognition of devices** (`matcher.rs`, `capture.rs`, `builtin.rs`). Scores
over addresses and texts; a profile made from what a device said. Correct when
an address decides and a profile made from a device is given to it.
*`Recognition`.*

**Settings, hardware detection, transcode scan** (`api/settings.rs`,
`api/transcode.rs`, `rustiio-core/src/config.rs`, `tools.rs`, `hwaccel.rs`,
`scan.rs` of `rustiio-transcode`). The file, the snapshot of the start, the
running state, what the machine can do. Pages, the scan and boot read and write
the whole file. Correct when edits are kept, the UDN never changes and the
recommendation fits the machine. *`Hardware`, `Settings`.*

**Boot, shutdown, shared port** (`boot.rs`, `front.rs`); **logs, statistics,
file picker** (`api/*.rs`); **foundation** (`rustiio-core`); **command line,
desktop application** (`src/apps`); **web interface** (`src/web`).

### How the parts interact

```
 disk --notify--> Watcher --\
 timer ---------> auto-scan --> AppState::rescan --> LibrarySync --> catalog (Shelves)
 REST, AC-3 worker ---------/        |                                   |
                                     +--> forget and warm MediaProbe (Playback)
                                     +--> forget durations (FileServing)
                                     +--> notify_all (Eventing) --> televisions
 network <--> Discovery --> televisions
 television --Browse--> Recognition, Profiles --> ContentDirectory --> Decision --> URL
 television --GET /tr--> Decision --> Sessions --> ffmpeg --> body
 television --GET /res, /sub, /art--> FileServing, Subtitles, Posters
```

`rescan` is the meeting point; each module models the part of it that its
component sees, with the scan as one step where the component does not look
inside. `Eventing` knows of a rescan when it publishes, `Playback` when it
clears and warms the cache, `Watcher` when it reads the disk and when it
publishes, `LibrarySync` its transactions, `ContentDirectory` the index, the
swap and what a television pages through meanwhile.

---------------------------------------------------------------------------

## 2. The modules and the code

An action carries the name of the operation or of the statement it stands for;
`PROJECT.json` ("map") has the lines. The definitions that end in a plausible
mistake (`ReleaseTwice`, `NoCascade`, `BuiltinsWin`, `SumOfRules`, ...) belong
to no specification: each is put in place of its neighbour to see that a
property notices. Optional values are sets of at most one element.

### Serving

**Sessions.** One process per HTTP request; `pc` is its position in
`SessionManager::start` and in the destructor. Every access to the semaphore
(`permits`), the atomic counter (`counter`) and the map (`active`) is a step of
its own, since only those three are shared. `child` is the ffmpeg process: it
may exit on its own at any time (`EncoderExits`), and hyper may drop the body
at any time (`BodyDropped`). The clamp of the limit to 1..16 is `Limit`.

**SlotPool** is the contract: a grant only while a slot is free, a refusal only
when all are taken (or the encoder could not be started), an encoder only for a
holder. `Sessions!Pool` is the refinement mapping: holders are the requests
between `Acquire` and `ReleasePermit`.

**Decision.** The functions `video_supported`, `audio_supported`, `decide`,
`video_encoder`, `build_args`, `video_filters` and `ciljna_velicina`, and what
ffmpeg writes for the command.

**Playback.** `disk`, `cache`, `rows` are file, `MediaProbe` and media columns;
`warmer` and `filler` are `warm_media_cache` and `backfill_bit_depth`; `request`
is the handler that serves a television. ffprobe reads when it starts and its
result is written when it ends, so every task is split there. `answer` holds
what goes out in this step only. `settled` is history: films that were not
replaced since a rescan or a start, and of which no task holds an older
reading.

**ByteRange** has `parse_range`, the npt times, `byte_for_time` and the plans
of `serve_file` as functions of what a header says. **FileServing** is one
request through `serve_node` and `serve_file`, split at every read of the file
(`Metadata`, `Open`, `Body`), while `Write` changes the file and a rescan
forgets durations.

**Subtitles.** Functions for names, languages and marks, the order of tracks
and the names they are offered under; actions for a request from the lookup to
the temporary file, with ffmpeg filling it in two steps while another request
may look. Names are sequences of words.

**PlayState.** Reports are sent and written in any order, more than once or
never, with any whole second as their time: `Store::now()` is read before the
connection is waited for, so two writes may share a second and a later one may
bring an earlier second. `heard` is what each device last said.
`ContinueWatching` is a set of lists, because the order of rows of one second is
SQLite's; `ListFails` is the column that is read by number.

### Library

**LibrarySync.** `Rescans` are the tasks that run `rescan`; `task[t].pc` goes
from `Scan` (one look at the disk) over `UpsertRoot` and `SyncRoot` for every
root to `PruneRoots`, `RemapIds` and `Publish`. Tables are functions from paths
to rows; a new row gets an id above the largest, so an id of the last deleted
row comes back, which is what `INTEGER PRIMARY KEY` without `AUTOINCREMENT`
does. `Cascade` is the foreign key on `parent_id`. `StoreFails` is a
transaction that fails and rolls back; `SyncRefused` is a `sync` that its own
checks refuse. `Watched` and `Remembered` are what may get a position and what
a television bookmarks; `Setups` are the faults a behaviour may have.

**ReleaseNames** reads a name as words; **Shelves** scans a disk of named
entries and rearranges the nodes (`grouping.rs`), both as functions.
**ContentDirectory** holds them together: `disk`, `catalog`, the order in which
a hash map gives its nodes, the index `rows`, and a television that pages
(`tv`) while `rescan` writes the index and then swaps the catalog.

**Watcher.** `eventAge` and `loop.age` are the two debounce clocks, capped at
`Quiet`; `pending` is the channel; catalog and disk are counted in changes.
`FileEvent` is a change of the disk with the callback on it, `Receive` and
`WatchTick` the loop of `start_watch`, `StartRescan`/`FinishRescan` its rescan,
the `AutoScan...` actions the loop of `start_auto_scan`.

**PrepareQueue.** `CheckFiles`, `Refuse`/`Enqueue` and `StartWorker` are the POST
handler, whose look at the files comes before the lock; `TakeJob` to `Report`
the worker. `originals`, `copies` and `off` are the files beside each other;
`Restart` may come in the middle of a copy and leaves half a file.

**Migration.** `log` is what was committed, statement by statement; `opener` is
each process that opens the database, the server and the command line; a
process ends or the power goes after any statement.

**PosterTitles** guesses titles and chooses among hits; **Posters** runs the
passes of `run_pass` row by row (`Look`, `Resolve`, `ById`, `ByTitle`,
`WriteFound`, `WriteMissing`), with both kinds of refresh, rows that come and
go, and restarts. `api_metadata_refresh` chooses its rows (`RefreshSome`),
forgets one after the other (`ForgetItem`: the remembered record, the row and the
file of one id in one step) and last the record of the series (`ForgetScopes`).
What each picture was fetched for is history.

### UPnP

**Eventing.** `registry` maps a subscription to its SEQ and its expiry;
`initial[s]` is the task spawned by SUBSCRIBE; `task[r]` is `notify_all` at the
end of rescan r, with the list of subscriptions it cloned. `AwaitWriteLock`,
`PublishCatalog` and the update id are the lock of the catalog. `heard` and
`answered` are history: the values a client has received and how many NOTIFYs
it answered. A NOTIFY that is not answered may have been received.

**Discovery.** `server` is the announcer with the farewell, `socket` what the
responder has not answered yet, `entry` the time after which a control point
forgets. `Alive` sends one datagram for each target, all, some or none of which
arrive, and may break off half way. `missed` and `farewell` count losses.

### Devices and settings

**Profiles.** `files`, `published`, `capture`, `rows` are the four stores.
Handlers (`admin`) save, create, save from a device, reset, delete, reload,
assign and delete devices; requests identify, record and save the row. A reset
takes any id, as the handler does. A
profile is the set of edits it carries over the built-in text. Writing a file
is two steps, with `Torn` between them for whoever reads meanwhile.

**Recognition.** `Score` and `Identify` over any list of profiles; texts are
names with a length and a relation of what occurs in what. `Calls` is a request
and the record it leaves; pages make a profile from a record, copy one, bind
one to an address, remove one; every one of them reloads (`Loads`), where the
user's own profiles follow in any order.

**Hardware** has where tools are found, what a machine encodes, `Detect` and
the recommendation as functions; **Settings** the file with its empty state
between truncation and write, boot, GET, PUT and apply of several pages, and an
end of the process between any two steps. A caller of apply may give encoder and
threads itself (`Overruled`); the page sends only the mode
(`src/web/src/routes/TranscodeScan.svelte:41`), and `RecommendationSound` says
nothing of what was overruled. `hardware_decode` is no field of the model.

---------------------------------------------------------------------------

## 3. The runs

| run | instance | shows |
|---|---|---|
| `sessions` | 4 requests, 2 slots | slots, encoders and listing are consistent; a slot comes back after its body is gone; `Sessions` implements `SlotPool` |
| `library` | 2 roots, a folder with a film and an episode in one, a film in the other, 2 rescans: one after the other with 2 changes, a failing call and a restart, or at once with 2 changes | positions stay with films, rows are a tree of the disk, ids are stable, catalog and database agree, a bookmark outlives rescans |
| `library_cascade` | one rescan, one change | **violated**, see 6 |
| `network` | `Eventing`: one television, 2 rescans, SEQ modulo 3, one time-out; `Watcher`: quiet time 2, 4 changes, auto-scan on and off; `Discovery`: one control point, max-age of 2, 3 and 4 half minutes, 2 losses in a row, 2 starts | no SEQ count lost, no subscriber left with an old list, rescans end; an announced change is published, with auto-scan the catalog ends up right; a server is known while it runs and forgotten when it stops |
| `prepare` | 2 videos with their own stems, 2 clients, 3 jobs, 1 restart | one worker, no duplicates, honest status, no half copy, no original lost, every job taken |
| `prepare_originals` | 2 videos that share a stem | **violated**, see 6 |
| `profiles` | a built-in and a user profile, 1 device, 2 handlers, 2 requests, 3 operations, 1 restart | the user's choice and `first_seen` hold whatever overlaps; edits and choices when handlers do not |
| `playback` | 1 film, 1 television, 8 files, 3 profiles, 4 settings, 1 restart | a television gets what it can open and what it was offered; a rescan forgets; old rows are completed |
| `catalogue` | several disks with names as trackers write them, all orders of the nodes that matter, pages of 2, one change and one scan while a television pages | everything stands once and where its name says, counts agree, searches are right, pages of one UpdateID are one list |
| `house` | `FileServing`, `Subtitles`, `PlayState`, `Posters`, `Settings` with `Hardware`, `Migration`, `Recognition`, one of them at a time | bytes as promised, subtitles as named, films where they were left, pictures of the film, edits and identity kept, versions that tell the truth, devices recognised as saved |
| `subtitle_of_another_film` | 2 films with a track of one language, 2 televisions | **violated**, see 6 |
| `picture_of_another_film` | films that come and go, 2 changes | **violated**, see 6 |

`network` and `house` are compositions of components that share no state in the
model (in the code they share the process): a behaviour picks one component in
the variable `part`, and the others stay as they begin. That checks each as a
run of its own would, and keeps them in one instance; fairness of a part that
stays still is vacuous because none of its fair steps is enabled.

Several properties are conjunctions of named parts that belong together:
`Inv` of a module is its type invariant and what no interleaving may break;
`CatalogAndRowsAgree` is `CatalogNamesRows` and `IndexFollowsScan`;
`EditsAndChoicesStand` is `SavedEditsSurvive` and `NoDanglingChoice`;
`RequestsForgetNothing` is `ChoiceIsTheUsers` and `FirstSeenNeverLater`;
`DiscoveryInv` is `KnownWhileUp` and `GoneAfterStop`; `SettingsInv` is
`UdnKept`, `EditsKept`, `PendingIsTrue` and `RecommendationSound`;
`MigrationInv` is `VersionTellsTheTruth`, `OpenIsWhole` and `OpensUnlessCut`;
`PostersInv` is `SoughtForIt`, `OneSeriesOnePoster`, `ToldIsThere`,
`RefreshIsFresh` and `RememberedMatches`; `RecognitionInv` is `AddressWins` and
`OwnTextWins`. `PROJECT.json` has more than one mutation for the larger ones.

Why these bounds are enough to meet the interesting cases:

* *sessions*: both slots busy, a third request refused while a fourth takes a
  slot that comes back; the invariants and the refinement are proved for all
  sizes besides.
* *library*: an id is reused as soon as the row with the largest id goes and
  another comes, which takes two changes; a race between two rescans needs two
  of them. A third would meet the same transactions. Folders nest one level and
  the rule that moves episodes applies to one folder: the code treats levels
  alike. Safety is proved for any library and any number of rescans.
* *network*: the initial NOTIFY and two notifications overlap; SEQ wraps at 3,
  so the wrap to 0 after the largest value is met (`wrapping_add`; the protocol
  asks for 1 there); half an hour passes once.
  Subscriptions do not interact: every action reads and writes the entry of one
  television. A quiet time of 2 ticks distinguishes an event just before, within
  and after it; 4 changes are one announced, one suppressed, one during the
  wait and one after the scan. A max-age of 2 half minutes is where no loss is
  needed to expire, 4 where one is, 3 where the division rounds; 2 losses in a
  row exceed both; a second start meets what the first left behind. The safety
  of `Watcher` and `Discovery` is proved for all of these numbers.
* *prepare*: two clients both pass the look at the files before either has the
  lock; three jobs are one taken, one waiting and a retry.
* *profiles*: any two of the handlers overlap at every store, with two requests
  of the same device and a restart anywhere.
* *playback*: the files and profiles make every branch of the decision occur,
  among them 10-bit HEVC, a bit rate above the limit, a portrait picture, VP9
  in WebM, HEVC in MOV, a file ffprobe cannot read, and two that differ in their
  bit rate only; one film suffices, since no step reads the metadata of another.
* *catalogue*: one series under four names, one of them told only by its
  folder; seasons in folders; films, two of one title; music beside a film;
  empty and hidden folders, a folder deeper than the scan goes; two roots.
* *house*: files of 0, 1, 3 and 4 bytes, with ranges before, at and after each
  end; positions before, between and after the limits of `play_state.rs`,
  two reports in one second or in two; an encoder and a thread count a caller
  gives itself; one refresh, one row that comes or goes and one restart over a film, a namesake
  and two episodes (an id that is given out again takes two such changes, which
  is `picture_of_another_film`); two pages and three starts of the settings;
  databases of every version with three processes that open them; a television
  with weak and strong rules, one with a short name, one on the host itself.

Deadlock is not an error where bounds are used up or all clients are done
(`sessions`, `library`, `network`, `prepare`, `profiles`, `house`); `playback`
and `catalogue` never stop, since a television may browse again.

Bounds in guards: `MaxChanges`, `MaxRestarts`, `MaxUpdates`, `MaxTime`,
`MaxRenewals`, `MaxJobs`, `MaxOps`, `MaxClock`, `MaxQueue`, `MaxLost`,
`MaxStarts`, `MaxScans`, `MaxWrites`, `MaxRefreshes`, `MaxSaves`, `MaxBoots`,
`MaxOpens`, `MaxProfileSaves` and the fields of a `Setup`; `SeqModulus` stands
for the 2^32 of SEQ. `MaxConcurrent`, `RecentLimit` and `MaxResults`
are limits of the code, smaller here; `Seconds` and `Limits` are what a clock and
a caller may say.

Symmetry is used in `library` and `profiles` only, which check safety; the
sets permuted there (tasks, handlers, requests) are interchangeable in the
module, and no property names an element.

---------------------------------------------------------------------------

## 4. Fairness

* `Sessions!FairSpec`: the steps of `start` and of the destructor. They run on a
  runtime thread and never wait for a client. Nothing is assumed of clients or
  of ffmpeg; `SlotComesBack` holds also when ffmpeg has died.
* `Eventing!Fairness`: the spawned initial NOTIFY and `notify_all`. A NOTIFY ends
  at its time-out at the latest, so an unreachable television is a step, not a
  block. Nothing is assumed of television or user.
* `Watcher!WatchFairness`: both loops and time. Each loop is a spawned task with
  no exit while the server runs; a scan reads a finite disk. `Prompt` says that a
  loop that waits takes an announcement before the next unit of time begins.
* `Discovery!DiscoveryFairness`: announcer, responder, farewell and time. A
  control point loses at most `MaxLost` announcements in a row; that is an
  assumption about the network, and `FoundAgain` rests on it. Time does not pass
  an announcement that is due, since sending takes milliseconds.
* `PrepareQueue!FairSpec`: the worker, which is a spawned task; ffmpeg on a
  finite file ends. A handler that pushed a job starts the worker in the same
  function; all other steps of clients are unfair.
* `Playback!Spec`: the thread of `backfill_bit_depth` and the second half of
  `rescan`. ffprobe ends.
* All other modules have safety properties only.

---------------------------------------------------------------------------

## 5. The proofs

Eight modules hold theorems, for every value of the constants under the
assumptions that the modules declare. `LibraryProofs` is about `LibrarySync`;
`EventingProofs`, `PrepareQueueProofs`, `ProfilesProofs` and `PlaybackProofs` are
about the module named before `Proofs`; `TasksProofs` is about `Sessions`,
`Watcher` and `Discovery`, `CatalogueProofs` about `ContentDirectory` with
`Shelves` and `ReleaseNames`, `HouseProofs` about `FileServing`, `PlayState`,
`Recognition`, `Migration`, `Settings` with `Hardware`, `Posters` and `Subtitles`.
Assumptions that name a fact of the code, or of what it is given, are said below;
the others give constants their types.

**`TasksProofs`**, three components.

`Sessions` (any finite set of requests, any configured limit): `TypeOK`,
`SlotsConserved`, `EncodersWithinLimit`, `ListingExact`, and that `Sessions`
implements `SlotPool`. None of the invariants is inductive alone:
`ListingExact` needs that no two listed requests have one id, and that ids are
below the counter (`IdsDistinct`); `EncodersWithinLimit` needs to know at which
positions an encoder can run (`EncoderPc`). The inductive invariant is
`TypeOK /\ SlotsConserved /\ EncoderPc /\ IdsDistinct /\ ListingExact`. The count
of holders is carried by three lemmas (a step enters, leaves or keeps
`Holders`). The refinement then maps every action to one of the pool or to a
stutter; a refusal is justified by `SlotsConserved`, because no permit left
means that as many requests hold one as there are slots.

`Watcher` (any quiet time, interval and bounds): `WatchInv`. What is announced is on its way is not inductive: a catalog that
already shows the announced change may be replaced by the result of a rescan.
`ScanSawOrMore` says why that is harmless: the loop takes no announcement while
it scans.

`Discovery` (any max-age the settings allow, any number of control
points and targets): `DiscoveryInv`. `KnownWhileUp` needs the distance between
the expiry of an entry and the next announcement (`OutlastsThePeriod`),
`GoneAfterStop` what was lost after each single byebye (`GoneAfterByes`).

**`LibraryProofs`** (any finite set of paths, any number of rescans at once, any
failures and restarts): `Inv` and `IdStable`. That a position stays with its
film although ids are given out again needs that ids are unique, that every
position belongs to a row (`WatchFits`), and that no row hangs on one that is
gone. So first: `MaxRowId` is above every id (the largest of a finite set, by a
minimal counterexample), hence new ids are new; a DELETE with two rounds of
cascades leaves no child without parent, since folders nest one level; then
one lemma per action.

`CatalogAndRowsAgree` and `BookmarkOutlivesRescans` speak of rescans that neither
overlap nor fail and of disks that drop no folder. For them `CalmInv` says what
has been written at each step of the one rescan under way of what it saw
(`Written`: of the roots behind it there is a row for each path it saw and for
no other), that whatever lies on the disk hangs
together with its folder, and that a remembered id is that of its path. Assumed
besides: roots, folders and files are different paths, and the first disk holds
the folder of every file on it.

**`EventingProofs`** (any subscriptions, rescans, modulus, time and renewals):
`Inv` and `NobodyKeepsAnOldList`. `Structure` says what the tasks are: one answer
is counted at a time, and a task that has not begun has nothing. Counting the
NOTIFYs is not inductive modulo the width; `CountsKept` carries the number of
rounds: what was answered is the SEQ, what is about to be counted (the
cardinality of the tasks at `bump`, `Counters`) and a multiple of the modulus. A
step moves one task in or out of that set, and `RemainderOfSum` and
`NextRemainder` give the remainder. The second theorem follows the value of
every subscriber through `NewsInv`: whoever has not been told the published
update id is on the list of a rescan that will tell it, or a publication is to
come, or its initial NOTIFY is, or it was past its time once (`lapsed`); a registry entry past its
time is in that set.

**`PrepareQueueProofs`** (any videos, clients and failures): `Inv`, and
`OriginalStaysOnDisk` where no two videos share a stem. One worker needs that a
flag is set exactly while one exists (`WorkerKnown`); that no half copy is left
needs that the copy of a job at work is its own (`CopyThere`). The place of an
entry is the least index with its id, which exists by well-foundedness. The
theorem on originals assumes that `StemOf` is injective, and
`prepare_originals` shows that it must. `StatusTellsTheTruth` needs that the job
at work has an entry (`WorkHasEntry`), since a report looks for it by its id.

**`ProfilesProofs`** (any profiles, devices, handlers, requests and restarts):
`Inv`, `RequestsForgetNothing` and `EditsAndChoicesStand`. The second is a
property of steps: of all that write a row, only an assignment, a deletion of
the device and the clearing of a profile take a choice. The third holds while
handlers do not overlap, and its strengthening `Undisturbed` follows the one
handler at work: what a file has to hold before, during and after its write
(`FilesHold`, `TextsHold`), that the published list is that of the files unless
a reload is due (`Fresh`), that a choice names a profile with a text or one that
is just being cleared (`ChoicesHold`), and how far a deletion has come
(`Removals`). Besides overlapping handlers the property leaves out a reset of a
profile without built-in text (`Disturbs`): the handler takes any id and leaves the
choices of such a profile behind, the page offers the reset of built-in ones only
(`src/web/src/routes/Devices.svelte:622`).

**`PlaybackProofs`** (any films, televisions, files, profiles and settings):
`SentIsPlayable`. Assumptions: a file gives at most one reading, in which both
sizes of a picture are known or none is; a screen is at least 2x2 and a target
has at most one height. The argument has three layers.
1. Scaling: a rounded quotient stays below the limit that the dividend respects
   (`QuotientBound`, `EvenBound`), hence `ciljna_velicina` stays within both
   limits (`TargetSizeFits`), hence the filters stay within the screen, if the
   height is limited by the target or by the encoder's level (`FilteredFits`).
2. The decision as a function: what is copied, the device supports
   (`ModeLeavesTheSupported`), what is encoded has the target's codec
   (`EncoderCodec`), and a decision made from a reading may be carried out on a
   file with the same row (`SameTracks`, `StreamIsPlayable`): the missing bit
   rate does not matter.
3. The steps: whatever cache, rows and tasks hold is a reading (`Typed`, one
   lemma per action), and only `Answer` sends anything (`StepPlayable`).

The invariant of the cache (`Inv`) adds where readings come from: of a film that
was not replaced since a rescan or a start, the cache, and the hand of every
task that will write to it, has the reading of the file or of its row (`Held`),
and a rescan that has cleared has no backfill at work. `OfferKept` follows an
offer to its answer: an offer that is sound is the one made from some reading of
the file that lies there (`OffersTrue`; sound implies that it was read from that
file, and the run has two files that differ in bit rate only, where it matters),
and the handler of a URL serves the offer of its television (`RequestsTrue`).
Assumed besides: ffprobe is used whenever transcoding is on (`ConfigsAssumption`).

**`CatalogueProofs`** (any folders, names, orders of the nodes, pages and
televisions): `CdsInv`, `PagesOfOneUpdate`, `CountsAndListsAgree`,
`SearchMeansWhatItSays`, `FoundWhereItBelongs`. The catalogue is the value of long
definitions, so most of the module is lemmas about them, in five layers.
1. Lists. What `At`, `Among`, `Reverse` and `\o` make of lists is a list, with which
   elements, each how often; `StableSort` gives every element a place of its own if
   the comparison is a weak order (`SortedPlaces`, by counting those before), and
   so is the alphabetical order of titles (`BeforeIsWeak`, `BeforeIsLinear`).
2. Trees. `Reach` is the least closed set around its start (`ReachFacts`,
   `ReachedIsListed`), by well-foundedness and without induction over data.
3. Names. Whatever the words are, a parsed title is of words of the name and
   numbers are numbers (`ParseFacts`), so ids of shelves differ from each other and
   from those of the disk (`ShelvesApart`, `WordFacts`).
4. One root. What is read of a folder is a tree (`TreeIsTree`). Moving episodes up
   leaves them below their series and nothing else lost (`Moved`); removing folders
   without a video loses none, since a folder that has one is not removed
   (`PrunedReach`); the new list of the root has each of its children once
   (`TopList`).
5. Root after root. `Sound` is what holds of the catalog after each root, by a
   least counterexample among the roots (`AfterIsSound`), and `Whole` of the catalog
   with its top.

The invariant of the steps is `Scans` (every catalog, shown or waiting, is what a
scan made of some folders) and `Pages` (what a television has seen under one
UpdateID is how the list begins).

`FoundWhereItBelongs` follows from one thing more that every step of the
arrangement keeps, in this root and in those before it: each node is filed as its
name means and is of the entry its id names (`Filing`). Where a video belongs
depends on the tree of its own root, whatever else has been read (`AboveAgree`,
`PlaceAgrees`); each video of the tree is looked at (`AllBelow`); and the rows of
the index are those of the catalog that is shown or of the one that comes next
(`Matched`). It is proved under `NamesSayWhatIsMeant`: what a name is meant to tell
is what the parser reads from it and from the folders above. That is a matter of the
words, on which the run tries it with names as trackers write them; the theorem
says that what the parser reads is where the episode ends up.

The assumptions are about what is on the disk and what televisions ask: ids are
different numbers, names are words without a colon (`DisksAssumption`), a series
lies below one root (`SeriesAssumption`, the finding on series of one name in
section 6), a hash map gives each node once (`OrdersAssumption`), and criteria name
at most one class and look into titles (`CriteriaAssumption`).

**`HouseProofs`**, seven components.

`Recognition` (any built-in profiles, texts, lengths and addresses):
`RecognitionInv`. A field of a profile is worth its strongest rule and one to
three points (`RuleScore`); all texts together cannot reach what an address is
worth (`ScoreBounds`: 97 against 100); a profile that finds less in a text, by
the margin the property names, scores less than one that has the text itself
(`BelowOwn`, `FarScoresLess`); the identified profile is a best one
(`IdentifiedIsBest`, which takes the largest score and its first place). The
inductive invariant ties the list to the files: every file is listed, and a
listed profile with a file is that file (`FilesListed`, `FilesWin`, kept by
`LoadsGood` whatever the order of the directory), and what was saved from a
device is still in its file (`SavedStand`).

`FileServing` (any sizes, durations and headers): `BytesAsPromised`.
Assumptions: a header is there at most once, names at most one first and one
last byte or one start and one end, and ffprobe tells at most one duration.
`ParseRangeFacts` and `SeekPlanFacts` are about the functions of a request: the
range inside the file, equal to what the header names, or around every byte that
plays in the time (`ByteForTimeBounds`, on the rounding of `ms * total \div
duration`). The state adds that there is one plan (`OnePlan`), that nothing is
worked out before the size is read (`EarlyIsEmpty`), and `ShrunkIsSeen`: a file
smaller than its announced size has lost bytes since, so a body that ends at the
end of the file either is complete or may be short.

`PlayState` (any devices, films, positions and times): `PlayInv`, for every list
that is in an order consistent with the seconds of its rows. That the list has
what was last heard, at the place and second it was heard, needs the same of the
table (`HeardIsKept`); that it has as many entries as films were left, that
entries of different films differ.

`Migration` (any number of processes, any version found): `MigrationInv`. What
survives a loss of power is a prefix of what was said, so it does not suffice
that the columns are there when the version is written: every place of the log
that has the version has the columns before it (`VersionComesLast`), which a
process that migrates keeps because what is behind it is there
(`BehindIsThere`). That nothing fails as long as no migration was cut off or ran
beside another is `Undivided`: what is still to be said is not there yet or may
be said again.

`Settings` with `Hardware` (any machines, measurements, pages, saves and boots):
`SettingsInv`. Of any measurement one encoder is the fastest that comes last in
the list (`FastestIsOne`, on the number of those ahead of it); `RecommendFacts`
goes through what `recommend` may choose, and `BestToolIsResolved` says that the
ffmpeg that was measured is the one the next boot finds. The file is followed by
three parts. `FileOfBoot`: what runs is what the file said at the boot, until the
first save. `CopiesKnown`: while a page writes, no copy counts as one of all
saves, so that saves of copies that are not stale come one at a time.
`Orderly`: as long as no save was cut off or of a stale copy, the file is whole
unless the boot or one page writes it, and the file and every copy that is not
stale carry the announced UDN and the edits that were confirmed. Assumed: ffmpeg
names an encoder once (`encoder_list` keeps the first), and there is at least one
thread.

`Posters` (any library, answers of the services, passes and sizes of a batch):
`PostersInv`, of behaviours in which rows go right (`RowsGoRight`): a new row has an
id that no row, picture or pass has, and an episode goes only when no pass runs. The
first is what the code does not ensure, as `picture_of_another_film` shows; of the
second, a pass that has seen an episode counts on it to give its series a picture.
Four things hold together. `Shape` says what passes and rows are. `Meaning`: an id
means one film, in the row, in the cache and in every queue, so a picture that is
stored is stored for the film that has the id, and a file that a row names is of
the film or of its series. `CalmState`, while no two passes overlapped and none was
cut off: a row that waits has no old picture unless it is just being written or
removed; a row that names a picture has it, or another episode of its series that
still waits, ahead of the pass, will store it (`ToldOrMended`); none is older than
the refresh that asked for it. `RememberedMatches` is about the records kept for
titles.

`Subtitles` (any films, files, tracks and televisions): `SubtitlesAsNamed`, for names
that tell whose a file is (`FilesOfTheirFilm`, which is about what is in the folder).
A name gives back what it was made of: the words before the extension those of
the file, the word behind the name of the film the language of the track, and the
last one the mark; so whatever is found under a name was called that because it
speaks the language that was offered (`FoundSuits`: among files, the first of the
same words; a file before a track; and no track that is called like a file unless
the file says the same). The invariant: tracks are those inside the films but for
languages that were guessed (`TracksKnown`), a temporary file holds what a track of
its name speaks, of whichever film (`TempSays`), and a request means a track that
was offered (`WantsAreMeant`). Assumed (`SubtitlesAssumption`): the first code of a
language stands for it, and no track inside is called by a word that is read as a
mark or a quality, which leaves out the code `hi` (section 6).

**What stays with TLC**:
* liveness and everything that rests on fairness (`SlotComesBack`, `RescanEnds`,
  `AnnouncedIsPublished`, `AutoScanRepairs`, `FoundAgain`, `EveryJobIsTaken`,
  `OldRowsAreCompleted`), which TLAPS does not prove here;
* `NamesSayWhatIsMeant`, the part of `FoundWhereItBelongs` that is about words: which
  series, season and number a name tells depends on how a tracker wrote it;
* what the theorems assume of the names and numbers given, which TLC evaluates on
  the instances.

No module that is proved about declares or reaches a recursive operator.

---------------------------------------------------------------------------

## 6. Where code and documentation disagree

Four runs end in a counterexample to what a comment of the code says:

1. `library_cascade`: a folder of films and episodes whose last film is deleted.
   `prune_empty` drops the folder from the catalog, `sync` still hangs the
   episode on the folder's row, and deleting that row at the end of the same
   transaction takes the episode and its position along
   (`rustiio-library/src/store/items.rs:186`; the comment at line 147 says that
   existing rows are updated). The next rescan adds it anew, without position.
2. `prepare_originals`: names are made from the stem, so `film.mkv` and
   `film.avi` share a copy and an `.off` file, and the second job overwrites the
   first original (`rustiio-server/src/api/prepare.rs:238`, line 8 says that the
   original stays on the disk).
3. `subtitle_of_another_film`: the temporary file of an extracted subtitle is
   named after language and track, not after the video (`routes.rs:493`); the
   second film with such a track is served the text of the first.
4. `picture_of_another_film`: the id of a removed row goes to the next film
   (`schema.rs:53`), the file `art/<id>.jpg` stays, and `poster_local` takes it
   for the new film; `items.rs:277` says that the ids will not appear again.

Preconditions of the properties name other places where the code does less than
one would wish. They were met while modelling; each is a precondition, a branch
of an action or a note in the list of hazards.

*Library and watcher.* An id of a deleted row is used again. A root that is not
mounted is pruned like one that was taken out of the settings, which is the case
`items.rs:249` speaks of. Every event restarts the quiet time and only the
first after it is announced, so a file that arrives after the rescan read the
disk and within 5 s of the one before is not announced (`watch.rs:44`); without
auto-scan it stays unseen until the next event.

*Catalogue.* Series of one name in two roots overwrite each other
(`grouping.rs:147-172`). Audio left in a folder without video keeps a removed
parent, so some counts differ from what is listed (`CountsAndListsAgree` leaves
those categories out). `childCount` of the top leaves out the categories. A
series takes the longest parsed name as its title. A season pack with `DDP5.1`
or `H.264` in its name is read as an episode; a short last word after a dot is
taken for an extension; series and films whose title is a number (`24`, `1917`)
lose it; the list of junk words holds `max`, `now`, `stan`, `ts`, and entries of
several words that never match. Images are classified but never scanned.
"Recently added" is sorted by title again. Search ignores the container, takes
`doesNotContain` for `contains`, counts rows the catalog does not have, and sees
the new rows before the new catalog. UpdateID restarts at 1.

*Eventing and discovery.* The registry keeps a subscription 1800 s, the TIMEOUT
header grants up to 3600 s (`gena.rs:77`, `gena.rs:172`); a renewal after the
time is over is accepted and still left out by the list of a notification
(`lapsed`); the initial event says 0 instead of the published number while a
rescan holds the lock of the catalog or waits for it (`state.rs:218`); SEQ wraps
to 0, where the protocol asks for 1; a television whose answer is late is
unsubscribed. Two periods are the whole max-age, so one lost announcement
lets an entry expire, and below a minute none is needed. The stop aborts
announcer and responder only after the last byebye, so an announcement may come
after it. The responder answers one search at a time with up to 80 ms each and
ignores MX, against "odgovor unutar MX sekundi". An error half way through
`send_all` leaves the later targets unannounced.

*Playback and files.* A portrait film leaves the software encoder taller than
the screen, since the height of the profile is not looked at
(`ffmpeg.rs:153`; line 150 says that both dimensions are cut), which is why
`SentIsPlayable` asks for a limited height. The setting `what` changes the mode
but not the encoders (`playback.rs:93`); a target container `mkv` is muxed as
MPEG-TS (`SoundTarget`); an unknown codec becomes h264; HEVC from MP4 gets the
bit stream filter of h264 (`WrongBitstreamFilter`); `/tr` starts ffmpeg when transcoding is off; Search decides before it probes what it lists (the
probe comes with the subtitles, after the offer); the table keeps no
bit rate of the picture, so a decision that rests on it changes after a rescan
(`RowTells`); a film replaced under its name keeps the metadata of its row. A
time seek past the end answers a range whose start is after its end; a file that
shrinks between `metadata()` and `open()` cuts the body short.

*Subtitles and play state.* The exit status of ffmpeg is not looked at, a half
written file is served, two requests run it twice. `Film.2.hrv.srt` attaches to
`Film.mkv` too. Two tracks of one language, one of them a picture, can give a
name that answers 404. `Film.hi.srt` beside the film is read as marked and of no
language (`subtitles.rs:121`), and a Hindi track inside has the same name, so
whoever asks for the track may get the file. A Browse during the write of a rescan leaves subtitles
and pictures out. `continue_watching` reads its columns by number and takes the
flag from the position and the time from the duration, so a stored position
without a duration fails the whole list (`play_state.rs:123`). Setting a
position names its device in the body, clearing it takes the sender's.

*Posters.* `resolve_title` refuses a hit that does not match, but
`poster_for_query` takes its picture unchecked (`enrich.rs:83`,
`mod.rs:138`). Overlapping passes and refreshes leave rows that name a missing
file or keep an old picture (`calm`). A stop between storing a picture and
updating its row makes the next refresh keep the old one. `pacing.rs` speaks of
one worker; the boot pass, pages and the command line run at once. Words that
end in `am` or `mx` are dropped from titles.

*PrepareQueue.* A video queued again after a failure leaves its newer entry at
`radi` for ever, because the result goes to the first entry with its id; after
a restart half a copy stays on the disk (`restarts = 0`).

*Settings and migration.* A PUT during a scan is overwritten by the apply, and
two pages by each other (`ordered`). A stop between truncation and write leaves
an empty file that reads as the defaults, with a new identity (`cut`); an apply
that reads the file at that moment writes the defaults without any stop; two
saves of different length may leave a file that does not parse. Mode `auto`
becomes `gpu` or `cpu` with the first apply. The scan overwrites an explicit
ffmpeg path with the bundled one, against `tools.rs` ("Eksplicitna putanja ...
uvijek pobjeđuje"), looks for it in one place where `tools.rs` has three, and
skips a copy that does not start, which boot takes (`BundleIsSound`,
`BundleStarts`). GET lists the language as waiting for a restart although it
does not. A migration that is stopped after an ALTER, or that runs in two
processes at once, fails at a duplicate column on every later start, against
"Idempotentno" (`schema.rs:151`).

*Profiles and recognition.* When two handlers overlap, an edit can be lost to a
reload and a choice can name a deleted profile (`Quiet`); a request under way
brings a deleted device back. An unknown device gets `Profile::default` and not
the profile `generic` of the list, so what a user saves there never reaches it
(`matcher.rs:70`; `builtin.rs:14` calls the first one the fallback). A profile
made from a device with a short name (`Kodi/21`) ties with or loses to the
built-in one, which comes first, although a test in `capture.rs` says that the
new profile must recognise the same device; `OwnTextWins` names the distance
from which on it does. Three weak rules do beat a strong one that is less than
twelve characters longer. Ties among the user's own profiles depend on the
order of the directory and may flip at a reload. A request without User-Agent
turns the record of a television to `generic`, which a profile saved from it
then starts from. The port is cut off an address at its first colon, so IPv6
devices may share a key.

---------------------------------------------------------------------------

## 7. What is not modelled

* Text and I/O: XML, HTML, logs, HTTP details, how a name is cut into words,
  capitals, the byte that tells TLS from HTTP. Nothing in them interleaves.
* ffmpeg, ffprobe, SQLite, the file system, the picture services and the
  televisions are modelled only as far as the code uses them; those definitions
  are marked external in `PROJECT.json`.
* Boot and shutdown as a whole (their parts are in `Watcher`, `Playback`,
  `Settings`, `Migration`), protocol texts, logs, statistics and the file
  picker, addresses and dates, the command line and the desktop application,
  the web interface. They keep no state that others read, or start the same
  server.
* In the modelled parts: overlapping roots and folders in folders
  (`LibrarySync`), bit rates of the output, burnt-in subtitles, hardware
  decoding, the limit of 50 000 cache entries, several backfills at once
  (`Playback`), the guess of a language from the words of a text
  (`Subtitles`), details, backdrops, folder pictures and collages (`Posters`),
  copying of subtitles (`PrepareQueue`), the counters and streams of a device
  (`Profiles`), edits of a page other than an address (`Recognition`),
  validation of ports and folders (`Settings`).

---------------------------------------------------------------------------

## 8. What is left

* The two compositions over shared state that would say more than their parts:
  `Watcher` with `Eventing` (a change on the disk is at last told to a subscriber)
  and `Recognition` in the place of the constant function in `Profiles`.
* An abstract register of devices that `Profiles` implements while handlers do
  not overlap.
* Theorems whose hypotheses are facts of the code and not of the library: ids that
  are not given out again would remove the first half of `RowsGoRight`, and
  temporary files named after the film the finding on subtitles.
