---------------------------- MODULE LibrarySync ----------------------------
(***************************************************************************)
(* Rescan of the library: AppState::rescan (rustiio-server/src/state.rs),  *)
(* scan (rustiio-library/src/scan.rs with grouping.rs), adopt_catalog      *)
(* (store/adopt.rs) and the transactions of store/items.rs.                *)
(*                                                                         *)
(* A rescan reads the disk, writes each mounted root to the database in a  *)
(* transaction of its own, prunes the roots it did not write, reads the    *)
(* ids back, renames the nodes of its catalog to them and publishes it.    *)
(* Nothing serialises two rescans (REST, the auto-scan loop, the watcher   *)
(* and the AC3 worker all call rescan): they interleave at every lock of   *)
(* the database and of the catalog.                                        *)
(*                                                                         *)
(* Abstractions: a scan reads the tree in one step; folders nest one level *)
(* below a root; roots do not overlap; every file is a video.              *)
(***************************************************************************)
EXTENDS Naturals, FiniteSets, FiniteSetsExt, Functions

CONSTANTS
  Roots,        \* the configured roots (config.library.roots)
  Folders,      \* folders directly below a root
  Films,        \* video files that the grouping leaves in place
  Episodes,     \* video files that the grouping moves under a series
  DirOf,        \* folder or file -> the folder or root it lies in
  ScanRank,     \* path -> its place in the scanner's traversal
  InitialDisk,  \* what lies on the disk at first
  Watched,      \* the files whose position a device may store
  Remembered,   \* the files a TV may put into its own playlist
  Rescans,      \* the tasks that may be inside rescan at the same time
  None,
  Setups        \* what is configured and how much may happen: see Setup

Files == Films \union Episodes
Paths == Roots \union Folders \union Files

RootOf(p) ==
  IF p \in Roots THEN p
  ELSE IF DirOf[p] \in Roots THEN DirOf[p] ELSE DirOf[DirOf[p]]

\* path.components().count() below the root
Depth(p) == IF p \in Roots THEN 0 ELSE IF DirOf[p] \in Roots THEN 1 ELSE 2

ASSUME StructureAssumption ==
  /\ IsFiniteSet(Paths)
  /\ DirOf \in [Folders \union Files -> Roots \union Folders]
  /\ Roots \intersect (Folders \union Files) = {} /\ Folders \intersect Files = {}
  /\ \A d \in Folders : DirOf[d] \in Roots
  /\ ScanRank \in [Paths -> Nat] /\ IsInjective(ScanRank)
  /\ InitialDisk \subseteq Folders \union Files /\ Watched \subseteq Files
  /\ \A p \in InitialDisk : DirOf[p] \in Roots \union InitialDisk
  /\ None \notin Paths

(***************************************************************************)
(* A setup: the roots of kind Video, where folders without a video are     *)
(* dropped, and the bounds on changes of the disk, failed transactions,    *)
(* restarts, and rescans that start while another one runs.                *)
(***************************************************************************)
Setup == [videoRoots : SUBSET Roots, changes : Nat, failures : Nat,
          restarts : Nat, overlaps : Nat]

ASSUME SetupAssumption == Setups \subseteq Setup

VARIABLES
  disk,      \* the folders and files that exist
  mounted,   \* the roots whose path is a directory
  options,   \* scan_options.roots: those that were a directory at boot
  rootIds,   \* table roots: root -> id
  rows,      \* table items: path -> [id, root, parent]
  watch,     \* table play_state: item id -> the path of the row it was stored for
  catalog,   \* the published catalog: object id -> path
  task,      \* the state of every rescan task
  bookmark,  \* an object id a TV remembers, with the film it meant
  setup,     \* the setup, with what its bounds still allow
  happened   \* history: failures, overlaps of rescans, folders dropped

vars == <<disk, mounted, options, rootIds, rows, watch, catalog, task, bookmark, setup, happened>>

Idle == [pc |-> "idle", seen |-> {}, todo |-> {}, root |-> None, rid |-> 0,
         keep |-> {}, ids |-> << >>]

Init ==
  /\ disk = InitialDisk
  /\ mounted = Roots
  /\ options = Roots
  /\ rootIds = << >>
  /\ rows = << >>
  /\ watch = << >>
  /\ catalog = << >>
  /\ task = [t \in Rescans |-> Idle]
  /\ bookmark = None
  /\ setup \in Setups
  /\ happened = {}

-----------------------------------------------------------------------------
(***************************************************************************)
(* The disk                                                                *)
(***************************************************************************)

Spend(what) ==
  /\ setup[what] > 0
  /\ setup' = [setup EXCEPT ![what] = @ - 1]

\* What the scanner meets, in mounted roots only (scan, scan_dir).  A root
\* that was missing at boot stays out until the next restart (existing_roots).
Visited == {p \in mounted \union disk : RootOf(p) \in mounted \intersect options}

\* kept: the remembered film has not left the disk since.
StillThere ==
  IF bookmark = None THEN bookmark
  ELSE [bookmark EXCEPT !.kept = @ /\ bookmark.path \in Visited']

ChangeDisk ==
  /\ Spend("changes")
  /\ \/ /\ \E p \in (Folders \union Files) \ disk :
             /\ DirOf[p] \in Roots \union disk
             /\ disk' = disk \union {p}
        /\ UNCHANGED mounted
     \/ /\ \E p \in disk : disk' = disk \ {q \in disk : q = p \/ DirOf[q] = p}
        /\ UNCHANGED mounted
     \/ /\ \E r \in Roots :
             mounted' = IF r \in mounted THEN mounted \ {r} ELSE mounted \union {r}
        /\ UNCHANGED disk
  /\ UNCHANGED <<options, rootIds, rows, watch, catalog, task, happened>>
  /\ bookmark' = StillThere

\* prune_empty: in a video root a folder stays only while it holds a video
\* that the grouping did not move away.
KeptFolder(d) ==
  RootOf(d) \in setup.videoRoots => \E f \in Films \intersect disk : DirOf[f] = d

\* The nodes of a fresh catalog that lie on the disk.
Scanned == {p \in Visited : p \in Folders => KeptFolder(p)}

\* next_id of the scanner: pruned folders have used a number too.
ScanId(p, visited) == Cardinality({q \in visited : ScanRank[q] <= ScanRank[p]})

-----------------------------------------------------------------------------
(***************************************************************************)
(* The database                                                            *)
(***************************************************************************)

RowIds(table) == {table[p].id : p \in DOMAIN table}

\* INTEGER PRIMARY KEY without AUTOINCREMENT: one above the largest in use.
MaxRowId(ids) == IF ids = {} THEN 0 ELSE Max(ids)

ChildrenOf(table, gone) ==
  {p \in DOMAIN table : \E q \in gone : table[p].parent = table[q].id}

NoCascade(table, gone) == gone

\* parent_id ... ON DELETE CASCADE, two levels deep like the tree.
Cascade(table, gone) ==
  LET children == gone \union ChildrenOf(table, gone)
  IN  children \union ChildrenOf(table, children)

Without(table, gone) == Restrict(table, DOMAIN table \ gone)

WatchKeptForever(table) == watch

\* play_state.item_id ... ON DELETE CASCADE
WatchOf(table) == Restrict(watch, DOMAIN watch \intersect RowIds(table))

\* INSERT gives new rows the next ids, shallow paths first; the order among
\* paths of one depth is that of a hash map.
NewIds(new) ==
  LET top == MaxRowId(RowIds(rows))
      Place(p) == Cardinality({q \in new : \/ Depth(q) < Depth(p)
                                           \/ /\ Depth(q) = Depth(p)
                                              /\ ScanRank[q] <= ScanRank[p]})
  IN  {[p \in new |-> top + Place(order[p])] :
         order \in {o \in Bijection(new, new) : \A p \in new : Depth(o[p]) = Depth(p)}}

\* The upserts of one transaction.  parent_id is the row of the directory on
\* the disk, if there is one by then.
Upserted(batch, rid, newId) ==
  LET known == DOMAIN rows \union batch
      IdOf(p) == IF p \in DOMAIN rows THEN rows[p].id ELSE newId[p]
  IN  [p \in known |->
         IF p \notin batch THEN rows[p]
         ELSE [id |-> IdOf(p), root |-> rid,
               parent |-> IF p \notin Roots /\ DirOf[p] \in known
                          THEN IdOf(DirOf[p]) ELSE 0]]

-----------------------------------------------------------------------------
(***************************************************************************)
(* One rescan                                                              *)
(***************************************************************************)

At(t, pc) == task[t].pc = pc

Overlapping == \E t \in Rescans : ~At(t, "idle")

Scan(t) ==
  /\ At(t, "idle")
  /\ task' = [task EXCEPT ![t] =
       [Idle EXCEPT !.pc = "root", !.seen = Scanned, !.todo = mounted \intersect options,
                    !.ids = [p \in Scanned |-> ScanId(p, Visited)]]]
  /\ IF Overlapping THEN Spend("overlaps") ELSE UNCHANGED setup
  /\ happened' = happened \union (IF Overlapping THEN {"overlap"} ELSE {})
                         \union (IF Scanned = Visited THEN {} ELSE {"dropped"})
  /\ UNCHANGED <<disk, mounted, options, rootIds, rows, watch, catalog, bookmark>>

\* upsert_root
UpsertRoot(t) ==
  /\ At(t, "root")
  /\ \E r \in task[t].todo :
       /\ \A q \in task[t].todo : ScanRank[r] <= ScanRank[q]
       /\ rootIds' = IF r \in DOMAIN rootIds THEN rootIds
                     ELSE [q \in DOMAIN rootIds \union {r} |->
                             IF q = r THEN MaxRowId(Range(rootIds)) + 1 ELSE rootIds[q]]
       /\ task' = [task EXCEPT ![t] =
            [task[t] EXCEPT !.pc = "sync", !.root = r, !.rid = rootIds'[r],
                            !.todo = task[t].todo \ {r}]]
  /\ UNCHANGED <<disk, mounted, options, rows, watch, catalog, bookmark, setup, happened>>

Batch(t) == {p \in task[t].seen : RootOf(p) = task[t].root}

SyncReplacingRows(t) ==
  /\ At(t, "sync")
  /\ task[t].rid \in Range(rootIds)
  /\ \E newId \in NewIds(Batch(t)) :
       LET old == Without(rows, Batch(t))
           table == [p \in DOMAIN old \union Batch(t) |->
                       IF p \in DOMAIN old THEN old[p]
                       ELSE [id |-> newId[p], root |-> task[t].rid, parent |-> 0]]
           gone == {p \in DOMAIN table : table[p].root = task[t].rid /\ p \notin Batch(t)}
       IN  /\ rows' = Without(table, Cascade(table, gone))
           /\ watch' = WatchOf(rows')
  /\ task' = [task EXCEPT ![t] =
       [task[t] EXCEPT !.pc = "root", !.keep = task[t].keep \union {task[t].rid}]]
  /\ UNCHANGED <<disk, mounted, options, rootIds, catalog, bookmark, setup, happened>>

SyncWithoutDeleting(t) ==
  /\ At(t, "sync")
  /\ task[t].rid \in Range(rootIds)
  /\ \E newId \in NewIds(Batch(t) \ DOMAIN rows) :
       LET table == Upserted(Batch(t), task[t].rid, newId)
       IN  /\ rows' = table
           /\ watch' = WatchOf(rows')
  /\ task' = [task EXCEPT ![t] =
       [task[t] EXCEPT !.pc = "root", !.keep = task[t].keep \union {task[t].rid}]]
  /\ UNCHANGED <<disk, mounted, options, rootIds, catalog, bookmark, setup, happened>>

\* items::sync: upsert what the scan saw, then delete what it did not see.
SyncRoot(t) ==
  /\ At(t, "sync")
  /\ task[t].rid \in Range(rootIds)
  /\ \E newId \in NewIds(Batch(t) \ DOMAIN rows) :
       LET table == Upserted(Batch(t), task[t].rid, newId)
           gone == {p \in DOMAIN table : table[p].root = task[t].rid /\ p \notin Batch(t)}
       IN  /\ rows' = Without(table, Cascade(table, gone))
           /\ watch' = WatchOf(rows')
  /\ task' = [task EXCEPT ![t] =
       [task[t] EXCEPT !.pc = "root", !.keep = task[t].keep \union {task[t].rid}]]
  /\ UNCHANGED <<disk, mounted, options, rootIds, catalog, bookmark, setup, happened>>

\* Another rescan pruned the row of the root meanwhile: the foreign key of
\* items.root_id fails and the transaction rolls back.  The root is not among
\* those to keep.
SyncRefused(t) ==
  /\ At(t, "sync")
  /\ task[t].rid \notin Range(rootIds)
  /\ task' = [task EXCEPT ![t].pc = "root"]
  /\ UNCHANGED <<disk, mounted, options, rootIds, rows, watch, catalog, bookmark, setup, happened>>

\* The database is busy or full at any of the four calls; each logs a
\* warning and adopt_catalog goes on without it.
StoreFails(t) ==
  /\ Spend("failures")
  /\ \/ /\ At(t, "root")
        /\ \E r \in task[t].todo :
             /\ \A q \in task[t].todo : ScanRank[r] <= ScanRank[q]
             /\ task' = [task EXCEPT ![t].todo = @ \ {r}]
     \/ At(t, "sync") /\ task' = [task EXCEPT ![t].pc = "root"]
     \/ At(t, "root") /\ task[t].todo = {} /\ task' = [task EXCEPT ![t].pc = "pruned"]
     \/ At(t, "pruned") /\ task' = [task EXCEPT ![t].pc = "remapped"]
  /\ happened' = happened \union {"failure"}
  /\ UNCHANGED <<disk, mounted, options, rootIds, rows, watch, catalog, bookmark>>

\* prune_roots: an empty keep deletes nothing.
PruneRoots(t) ==
  /\ At(t, "root")
  /\ task[t].todo = {}
  /\ IF task[t].keep = {}
     THEN UNCHANGED <<rootIds, rows, watch>>
     ELSE LET gone == {p \in DOMAIN rows : rows[p].root \notin task[t].keep}
          IN  /\ rows' = Without(rows, Cascade(rows, gone))
              /\ watch' = WatchOf(rows')
              /\ rootIds' = Restrict(rootIds,
                              {r \in DOMAIN rootIds : rootIds[r] \in task[t].keep})
  /\ task' = [task EXCEPT ![t].pc = "pruned"]
  /\ UNCHANGED <<disk, mounted, options, catalog, bookmark, setup, happened>>

\* ids_by_path and remap_ids: a node without a row keeps its scan number.
RemapIds(t) ==
  /\ At(t, "pruned")
  /\ task' = [task EXCEPT ![t] =
       [task[t] EXCEPT !.pc = "remapped",
                       !.ids = [p \in task[t].seen |->
                                  IF p \in DOMAIN rows THEN rows[p].id ELSE task[t].ids[p]]]]
  /\ UNCHANGED <<disk, mounted, options, rootIds, rows, watch, catalog, bookmark, setup, happened>>

PublishScanIds(t) ==
  /\ At(t, "remapped")
  /\ catalog' = [i \in {ScanId(p, task[t].seen) : p \in task[t].seen} |->
                   CHOOSE p \in task[t].seen : ScanId(p, task[t].seen) = i]
  /\ task' = [task EXCEPT ![t] = Idle]
  /\ UNCHANGED <<disk, mounted, options, rootIds, rows, watch, bookmark, setup, happened>>

\* *catalog = fresh.  Of two nodes with the same id the map holds the one
\* that was inserted last, which no order of the code determines.
Publish(t) ==
  /\ At(t, "remapped")
  /\ \E winners \in SUBSET task[t].seen :
       LET named == Restrict(task[t].ids, winners)
       IN  /\ IsInjective(named)
           /\ Range(named) = Range(task[t].ids)
           /\ catalog' = AntiFunction(named)
  /\ task' = [task EXCEPT ![t] = Idle]
  /\ UNCHANGED <<disk, mounted, options, rootIds, rows, watch, bookmark, setup, happened>>

-----------------------------------------------------------------------------
(***************************************************************************)
(* Clients and restarts                                                    *)
(***************************************************************************)

\* play_state::set: the foreign key refuses an id without a row.
RecordPosition ==
  /\ \E p \in DOMAIN rows :
       /\ rows[p].id \notin DOMAIN watch
       /\ p \in Watched
       /\ watch' = [i \in DOMAIN watch \union {rows[p].id} |->
                      IF i = rows[p].id THEN p ELSE watch[i]]
  /\ UNCHANGED <<disk, mounted, options, rootIds, rows, catalog, task, bookmark, setup, happened>>

\* A TV puts an object of the published catalog into its own playlist.
Remember ==
  /\ bookmark = None
  /\ \E i \in DOMAIN catalog :
       /\ catalog[i] \in Remembered
       /\ bookmark' = [id |-> i, path |-> catalog[i],
                       kept |-> /\ catalog[i] \in Visited
                                /\ \A t \in Rescans : At(t, "idle")]
  /\ UNCHANGED <<disk, mounted, options, rootIds, rows, watch, catalog, task, setup, happened>>

\* The process ends; the database and the TVs remember.  Boot publishes
\* nothing before its own scan went through the database.
Restart ==
  /\ Spend("restarts")
  /\ task' = [t \in Rescans |-> Idle]
  /\ catalog' = << >>
  /\ options' = mounted
  /\ UNCHANGED <<disk, mounted, rootIds, rows, watch, bookmark, happened>>

RescanStep(t) ==
  \/ Scan(t)
  \/ UpsertRoot(t)
  \/ SyncRoot(t)
  \/ SyncRefused(t)
  \/ StoreFails(t)
  \/ PruneRoots(t)
  \/ RemapIds(t)
  \/ Publish(t)

Next ==
  \/ ChangeDisk
  \/ RecordPosition
  \/ Remember
  \/ Restart
  \/ \E t \in Rescans : RescanStep(t)

Spec == Init /\ [][Next]_vars

-----------------------------------------------------------------------------
(***************************************************************************)
(* Properties                                                              *)
(***************************************************************************)

Row == [id : Nat \ {0}, root : Nat \ {0}, parent : Nat]

TypeOK ==
  /\ disk \subseteq Folders \union Files
  /\ mounted \subseteq Roots /\ options \subseteq Roots
  /\ DOMAIN rootIds \subseteq Roots /\ IsInjective(rootIds)
  /\ DOMAIN rows \subseteq Paths /\ Range(rows) \subseteq Row
  /\ Cardinality(RowIds(rows)) = Cardinality(DOMAIN rows)
  /\ Range(watch) \subseteq Files
  /\ Range(catalog) \subseteq Paths
  /\ setup \in Setup
  /\ happened \subseteq {"failure", "overlap", "dropped"}
  /\ \A t \in Rescans :
       /\ task[t].pc \in {"idle", "root", "sync", "pruned", "remapped"}
       /\ task[t].seen \subseteq Paths
       /\ task[t].todo \subseteq Roots
       /\ DOMAIN task[t].ids = task[t].seen

\* The database never holds an item of a root it does not know, nor an item
\* whose parent_id is the row of anything but its own directory, although ids
\* are reused and rescans interleave.
ParentIsTheDirectory ==
  \A p \in DOMAIN rows :
    /\ rows[p].root \in Range(rootIds)
    /\ rows[p].parent # 0 =>
         DirOf[p] \in DOMAIN rows /\ rows[DirOf[p]].id = rows[p].parent

\* A stored position belongs to the film it was stored for: the row it hangs
\* on goes away with its positions before the id can mean another file.
WatchStaysWithFilm ==
  \A i \in DOMAIN watch : watch[i] \in DOMAIN rows /\ rows[watch[i]].id = i

\* Whatever overlaps and fails, the tables are well formed, the rows are a part
\* of the tree on the disk and positions stay with their films (schema.rs, items.rs).
Inv == TypeOK /\ ParentIsTheDirectory /\ WatchStaysWithFilm

\* As long as a path has a row, no rescan gives it another id.
IdStable ==
  [][\A p \in DOMAIN rows \intersect DOMAIN rows' : rows'[p].id = rows[p].id]_rows

\* No call of the database has failed, no two rescans have overlapped, and
\* prune_empty has dropped no folder.
Undisturbed == happened = {}

\* No node of the scan is lost when the catalog is published: renaming never
\* puts two nodes under one id.  And while no rescan runs, every object id of
\* the published catalog is the id of that path in the database, so search,
\* positions and posters, which use the database, mean the same film as Browse.
CatalogNamesRows ==
  Undisturbed =>
    /\ \A t \in Rescans : At(t, "remapped") => IsInjective(task[t].ids)
    /\ (\A t \in Rescans : At(t, "idle")) =>
         \A i \in DOMAIN catalog :
           catalog[i] \in DOMAIN rows /\ rows[catalog[i]].id = i

\* A rescan that could write at least one root leaves exactly what it saw.
IndexFollowsScan ==
  \A t \in Rescans :
    Undisturbed /\ At(t, "pruned") /\ task[t].keep # {} => DOMAIN rows = task[t].seen

\* Browse, search and the stored positions speak of the same films (adopt.rs,
\* state.rs rescan).
CatalogAndRowsAgree == CatalogNamesRows /\ IndexFollowsScan

\* The ObjectID a TV remembers means the same film after every rescan and
\* every restart, as long as the film stays on the disk from a moment on at
\* which no rescan was under way.
BookmarkOutlivesRescans ==
  Undisturbed /\ bookmark # None /\ bookmark.kept /\ catalog # << >> =>
    bookmark.id \in DOMAIN catalog /\ catalog[bookmark.id] = bookmark.path

-----------------------------------------------------------------------------
(***************************************************************************)
(* What a comment of the code says and the code does not do                *)
(***************************************************************************)

\* items.rs, sync: existing rows are updated and what vanished from the disk
\* is deleted, so a row the scan saw survives its own transaction.
SyncKeepsWhatItSaw ==
  [][\A t \in Rescans :
       At(t, "sync") /\ task'[t].keep # task[t].keep => Batch(t) \subseteq DOMAIN rows']_vars
=============================================================================
