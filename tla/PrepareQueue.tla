---------------------------- MODULE PrepareQueue ----------------------------
(***************************************************************************)
(* The queue that prepares videos with AC-3 sound                          *)
(* (rustiio-server/src/api/prepare.rs): the POST handler, the one worker   *)
(* of the process, and what a job does to the files.                       *)
(*                                                                         *)
(* A job copies a video to <stem>.AC3.mkv and renames the original to      *)
(* <stem>.off, which the library does not list.  The handler checks files  *)
(* first and takes the lock of the queue later; the worker writes a result *)
(* to the first entry that has the id.                                     *)
(***************************************************************************)
EXTENDS Naturals, Sequences, FiniteSets

CONSTANTS
  Videos,       \* videos that can be prepared; an id stands for its path
  Stems,        \* folder and file name without the extension
  StemOf,       \* video -> its stem
  Clients,      \* handlers that may run at the same time
  Nothing,
  MaxJobs,      \* bound on the entries of the queue, which is never trimmed
  MaxRestarts   \* bound on restarts of the server

ASSUME PrepareAssumption ==
  /\ IsFiniteSet(Videos) /\ IsFiniteSet(Clients)
  /\ StemOf \in [Videos -> Stems]
  /\ Nothing \notin Videos
  /\ MaxJobs \in Nat /\ MaxRestarts \in Nat

VARIABLES
  originals,  \* the videos that lie under their own name
  copies,     \* stem -> the file <stem>.AC3.mkv: [of, whole] or Nothing
  off,        \* stem -> the video that <stem>.off holds, or Nothing
  catalog,    \* the videos the published catalog lists
  scan,       \* a rescan of someone else: [busy, seen]
  queue,      \* red(): sequence of [id, state]
  client,     \* handler -> [pc, id]
  alive,      \* RADNIK_ZIV
  worker,     \* the worker's place in its loop: [pc, id]
  workers,    \* how many workers were started since the process began
  restarts    \* restarts so far

vars == <<originals, copies, off, catalog, scan, queue, client, alive, worker,
          workers, restarts>>

files == <<originals, copies, off>>

Init ==
  /\ originals = Videos
  /\ copies = [s \in Stems |-> Nothing]
  /\ off = [s \in Stems |-> Nothing]
  /\ catalog = Videos
  /\ scan = [busy |-> FALSE, seen |-> {}]
  /\ queue = << >>
  /\ client = [c \in Clients |-> [pc |-> "start", id |-> Nothing]]
  /\ alive = FALSE
  /\ worker = [pc |-> "none", id |-> Nothing]
  /\ workers = 0
  /\ restarts = 0

-----------------------------------------------------------------------------
(***************************************************************************)
(* POST /api/prepare/ac3                                                   *)
(***************************************************************************)

\* The object is in the catalog, its file is there, and no copy is.
CheckFiles(c) ==
  /\ client[c].pc = "start"
  /\ \E v \in catalog \intersect originals :
       /\ copies[StemOf[v]] = Nothing
       /\ client' = [client EXCEPT ![c] = [pc |-> "checked", id |-> v]]
  /\ UNCHANGED <<files, catalog, scan, queue, alive, worker, workers, restarts>>

Waiting(id) == \E i \in DOMAIN queue : queue[i].id = id /\ queue[i].state = "ceka"

\* An entry of the same id waits or is being worked on.
Queued(id) == \E i \in DOMAIN queue : queue[i].id = id /\ queue[i].state \in {"ceka", "radi"}

Refuse(c) ==
  /\ client[c].pc = "checked"
  /\ Queued(client[c].id)
  /\ client' = [client EXCEPT ![c].pc = "start"]
  /\ UNCHANGED <<files, catalog, scan, queue, alive, worker, workers, restarts>>

Enqueue(c) ==
  /\ client[c].pc = "checked"
  /\ ~Queued(client[c].id)
  /\ Len(queue) < MaxJobs
  /\ queue' = Append(queue, [id |-> client[c].id, state |-> "ceka"])
  /\ client' = [client EXCEPT ![c].pc = "pushed"]
  /\ UNCHANGED <<files, catalog, scan, alive, worker, workers, restarts>>

\* pokreni_radnika: RADNIK_ZIV.swap(true) lets one worker start.
StartWorker(c) ==
  /\ client[c].pc = "pushed"
  /\ alive' = TRUE
  /\ IF alive
     THEN UNCHANGED <<worker, workers>>
     ELSE worker' = [pc |-> "loop", id |-> Nothing] /\ workers' = workers + 1
  /\ client' = [client EXCEPT ![c].pc = "start"]
  /\ UNCHANGED <<files, catalog, scan, queue, restarts>>

-----------------------------------------------------------------------------
(***************************************************************************)
(* The worker                                                              *)
(***************************************************************************)

Goto(pc) == worker' = [worker EXCEPT !.pc = pc]

\* The position of the first entry that satisfies Test.
First(Test(_)) ==
  CHOOSE i \in DOMAIN queue : Test(queue[i]) /\ \A j \in 1 .. i - 1 : ~Test(queue[j])

IsWaiting(entry) == entry.state = "ceka"

\* The first waiting entry is marked and taken; without one the worker naps.
TakeJob ==
  /\ worker.pc = "loop"
  /\ \E i \in DOMAIN queue : IsWaiting(queue[i])
  /\ LET i == First(IsWaiting)
     IN  /\ queue' = [queue EXCEPT ![i].state = "radi"]
         /\ worker' = [pc |-> "lookup", id |-> queue[i].id]
  /\ UNCHANGED <<files, catalog, scan, client, alive, workers, restarts>>

\* obradi: the object must still be in the catalog.
LookUp ==
  /\ worker.pc = "lookup"
  /\ Goto(IF worker.id \in catalog THEN "ffmpeg" ELSE "failed")
  /\ UNCHANGED <<files, catalog, scan, queue, client, alive, workers, restarts>>

Stem == StemOf[worker.id]

\* ffmpeg -y opens its input first, then truncates the output.
FfmpegStarts ==
  /\ worker.pc = "ffmpeg"
  /\ worker.id \in originals
  /\ copies' = [copies EXCEPT ![Stem] = [of |-> worker.id, whole |-> FALSE]]
  /\ Goto("copying")
  /\ UNCHANGED <<originals, off, catalog, scan, queue, client, alive, workers, restarts>>

\* It could not be started at all: nothing is removed.
FfmpegMissing ==
  /\ worker.pc = "ffmpeg"
  /\ Goto("failed")
  /\ UNCHANGED <<files, catalog, scan, queue, client, alive, workers, restarts>>

FfmpegLeavesHalf ==
  /\ \/ worker.pc = "ffmpeg" /\ worker.id \notin originals
     \/ worker.pc = "copying"
  /\ Goto("failed")
  /\ UNCHANGED <<files, catalog, scan, queue, client, alive, workers, restarts>>

\* It ended with an error: the output is removed, whoever wrote it.
FfmpegFails ==
  /\ \/ worker.pc = "ffmpeg" /\ worker.id \notin originals
     \/ worker.pc = "copying"
  /\ copies' = [copies EXCEPT ![Stem] = Nothing]
  /\ Goto("failed")
  /\ UNCHANGED <<originals, off, catalog, scan, queue, client, alive, workers, restarts>>

FfmpegSucceeds ==
  /\ worker.pc = "copying"
  /\ copies' = [copies EXCEPT ![Stem].whole = TRUE]
  /\ Goto("copied")
  /\ UNCHANGED <<originals, off, catalog, scan, queue, client, alive, workers, restarts>>

RemoveOriginal ==
  /\ worker.pc = "copied"
  /\ originals' = originals \ {worker.id}
  /\ Goto("done")
  /\ UNCHANGED <<copies, off, catalog, scan, queue, client, alive, workers, restarts>>

\* rename to <stem>.off, over what may lie there; its result is ignored.
SwitchOffOriginal ==
  /\ worker.pc = "copied"
  /\ \/ /\ worker.id \in originals
        /\ originals' = originals \ {worker.id}
        /\ off' = [off EXCEPT ![Stem] = worker.id]
     \/ UNCHANGED <<originals, off>>
  /\ Goto("done")
  /\ UNCHANGED <<copies, catalog, scan, queue, client, alive, workers, restarts>>

ReportToFront ==
  /\ worker.pc \in {"done", "failed"}
  /\ queue' = [queue EXCEPT ![1].state = IF worker.pc = "done" THEN "gotovo" ELSE "greska"]
  /\ Goto("rescan")
  /\ UNCHANGED <<files, catalog, scan, client, alive, workers, restarts>>

\* The result goes to the first entry of that id.
Report ==
  /\ worker.pc \in {"done", "failed"}
  /\ LET SameId(entry) == entry.id = worker.id
     IN  queue' = [queue EXCEPT ![First(SameId)].state =
                     IF worker.pc = "done" THEN "gotovo" ELSE "greska"]
  /\ Goto("rescan")
  /\ UNCHANGED <<files, catalog, scan, client, alive, workers, restarts>>

WorkerStopsAfterAJob ==
  /\ worker.pc = "rescan"
  /\ catalog' = originals
  /\ worker' = [pc |-> "none", id |-> Nothing]
  /\ UNCHANGED <<files, scan, queue, client, alive, workers, restarts>>

\* state.rescan().await before the next job
RescanAfterJob ==
  /\ worker.pc = "rescan"
  /\ catalog' = originals
  /\ worker' = [pc |-> "loop", id |-> Nothing]
  /\ UNCHANGED <<files, scan, queue, client, alive, workers, restarts>>

-----------------------------------------------------------------------------
(***************************************************************************)
(* Others                                                                  *)
(***************************************************************************)

\* The rescan of the watcher or of a client: what it read may be old when it
\* publishes.
OtherRescanReads ==
  /\ ~scan.busy
  /\ scan' = [busy |-> TRUE, seen |-> originals]
  /\ UNCHANGED <<files, catalog, queue, client, alive, worker, workers, restarts>>

OtherRescanPublishes ==
  /\ scan.busy
  /\ catalog' = scan.seen
  /\ scan' = [busy |-> FALSE, seen |-> {}]
  /\ UNCHANGED <<files, queue, client, alive, worker, workers, restarts>>

\* The process ends; an ffmpeg it had started may still finish its file.
Restart ==
  /\ restarts < MaxRestarts
  /\ restarts' = restarts + 1
  /\ \/ UNCHANGED copies
     \/ /\ worker.pc = "copying"
        /\ copies' = [copies EXCEPT ![Stem].whole = TRUE]
  /\ catalog' = originals
  /\ scan' = [busy |-> FALSE, seen |-> {}]
  /\ queue' = << >>
  /\ client' = [c \in Clients |-> [pc |-> "start", id |-> Nothing]]
  /\ alive' = FALSE
  /\ worker' = [pc |-> "none", id |-> Nothing]
  /\ workers' = 0
  /\ UNCHANGED <<originals, off>>

ClientStep(c) == CheckFiles(c) \/ Refuse(c) \/ Enqueue(c) \/ StartWorker(c)

WorkerStep ==
  \/ TakeJob
  \/ LookUp
  \/ FfmpegStarts
  \/ FfmpegMissing
  \/ FfmpegFails
  \/ FfmpegSucceeds
  \/ SwitchOffOriginal
  \/ Report
  \/ RescanAfterJob

Next ==
  \/ \E c \in Clients : ClientStep(c)
  \/ WorkerStep
  \/ OtherRescanReads
  \/ OtherRescanPublishes
  \/ Restart

Spec == Init /\ [][Next]_vars

\* The runtime runs the worker, and ffmpeg ends; a handler that pushed a job
\* goes on to start the worker.
FairSpec ==
  Spec /\ WF_vars(WorkerStep) /\ \A c \in Clients : WF_vars(StartWorker(c))

-----------------------------------------------------------------------------
(***************************************************************************)
(* Properties                                                              *)
(***************************************************************************)

Copy == [of : Videos, whole : BOOLEAN]

TypeOK ==
  /\ originals \subseteq Videos
  /\ \A s \in Stems : copies[s] \in Copy \union {Nothing} /\ off[s] \in Videos \union {Nothing}
  /\ catalog \subseteq Videos
  /\ \A i \in DOMAIN queue :
       queue[i] \in [id : Videos, state : {"ceka", "radi", "gotovo", "greska"}]
  /\ alive = (workers > 0)
  /\ worker.pc = "none" <=> ~alive
  /\ worker.pc \in {"copying", "copied", "done", "failed"} => worker.id \in Videos

\* prepare.rs: jobs run one at a time.  However many handlers start the
\* worker at once, the process has one.
OneWorker == workers <= 1

\* A video is never queued twice at the same time, although the handler looks
\* at the files before it has the lock and a client may click twice.
NoDuplicateJobs ==
  \A i, j \in DOMAIN queue :
    queue[i].state \in {"ceka", "radi"} /\ queue[j].state \in {"ceka", "radi"}
      /\ queue[i].id = queue[j].id => i = j

\* The status page: a video that was queued once is shown as being worked on
\* exactly while the worker has it.  (Of a video queued again after a failure
\* the older entry gets the result, and the newer one stays.)
StatusTellsTheTruth ==
  \A i \in DOMAIN queue :
    (\A j \in DOMAIN queue : queue[j].id = queue[i].id => j = i) =>
      (queue[i].state = "radi" <=>
         worker.id = queue[i].id /\ worker.pc \notin {"none", "loop", "rescan"})

\* A half-written copy lies on the disk only while its job is at work, so the
\* library never lists one for good.
NoHalfCopyLeft ==
  restarts = 0 =>
    \A s \in Stems :
      copies[s] # Nothing /\ ~copies[s].whole => worker.pc = "copying" /\ Stem = s

\* Files and queue are well formed, one worker serves it, no video waits or is
\* worked on twice, and no half copy stays (prepare.rs).
Inv == TypeOK /\ OneWorker /\ NoDuplicateJobs /\ NoHalfCopyLeft

\* Every job that waits is taken, whatever became of the jobs before it.
EveryJobIsTaken ==
  \A n \in 1 .. MaxJobs :
    Len(queue) >= n /\ queue[n].state = "ceka"
      ~> restarts > 0 \/ (Len(queue) >= n /\ queue[n].state # "ceka")

\* prepare.rs: the original goes to .off and stays on the disk.  The content
\* of every video lies in some file at all times, also after a restart in the
\* middle of a job.
OriginalStaysOnDisk ==
  \A v \in Videos : v \in originals \/ off[StemOf[v]] = v
=============================================================================
