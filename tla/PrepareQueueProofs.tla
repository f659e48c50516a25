-------------------------- MODULE PrepareQueueProofs --------------------------
(***************************************************************************)
(* Proofs about PrepareQueue: one worker, no video queued twice at once,   *)
(* no half copy left behind, a status page that says what the worker does, *)
(* and that the original stays on the disk where no two videos share a     *)
(* stem.                                                                   *)
(***************************************************************************)
EXTENDS PrepareQueue, WellFoundedInduction, TLAPS

Entry == [id : Videos, state : {"ceka", "radi", "gotovo", "greska"}]

AtWork == {"lookup", "ffmpeg", "copying", "copied", "done", "failed"}

Types ==
  /\ originals \subseteq Videos
  /\ copies \in [Stems -> Copy \union {Nothing}]
  /\ off \in [Stems -> Videos \union {Nothing}]
  /\ catalog \subseteq Videos
  /\ scan.seen \subseteq Videos
  /\ queue \in Seq(Entry)
  /\ client \in [Clients -> [pc : {"start", "checked", "pushed"}, id : Videos \union {Nothing}]]
  /\ \A c \in Clients : client[c].pc = "checked" => client[c].id \in Videos
  /\ restarts \in Nat

\* The flag, the worker and the number of workers say the same.
WorkerKnown ==
  /\ \/ ~alive /\ workers = 0 /\ worker.pc = "none"
     \/ alive /\ workers = 1 /\ worker.pc \in {"loop", "rescan"} \union AtWork
  /\ alive \in BOOLEAN
  /\ worker \in [pc : {"none", "loop", "rescan"} \union AtWork, id : Videos \union {Nothing}]
  /\ worker.pc \in AtWork => worker.id \in Videos

\* While it copies, the copy of its stem is there.
CopyThere == worker.pc = "copying" => copies[Stem] \in Copy

IInv == Types /\ WorkerKnown /\ CopyThere /\ NoDuplicateJobs /\ NoHalfCopyLeft

-----------------------------------------------------------------------------
(* The first entry that satisfies a test exists if any entry does.         *)

\* Every inhabited set of numbers has a least member.
LEMMA LeastOfSome ==
  ASSUME NEW S \in SUBSET Nat, S # {}
  PROVE  \E m \in S : \A k \in S : ~(k < m)
  <1> DEFINE Less == {p \in Nat \X Nat : p[1] < p[2]}
  <1>1. IsWellFoundedOn(Less, Nat)
    BY NatLessThanWellFounded DEF OpToRel
  <1>2. \A a, b \in Nat : a < b => <<a, b>> \in Less
    OBVIOUS
  <1> HIDE DEF Less
  <1>3. PICK m \in S : \A k \in S : ~(<<k, m>> \in Less)
    BY <1>1, WFMin
  <1>4. QED
    BY <1>2, <1>3

LEMMA FirstWaitingWaits ==
  ASSUME queue \in Seq(Entry), \E i \in DOMAIN queue : IsWaiting(queue[i])
  PROVE  First(IsWaiting) \in DOMAIN queue /\ queue[First(IsWaiting)].state = "ceka"
  <1> DEFINE S == {i \in DOMAIN queue : IsWaiting(queue[i])}
  <1>1. S \in SUBSET Nat /\ S # {}
    OBVIOUS
  <1>2. PICK m \in S : \A k \in S : ~(k < m)
    BY <1>1, LeastOfSome
  <1>3. \A j \in 1 .. m - 1 : j \in DOMAIN queue /\ j < m
    OBVIOUS
  <1>4. m \in DOMAIN queue /\ IsWaiting(queue[m]) /\ \A j \in 1 .. m - 1 : ~IsWaiting(queue[j])
    BY <1>2, <1>3
  <1>5. QED
    BY <1>4 DEF First, IsWaiting

\* An entry that gets a new state: the ids stay, and what was no longer active
\* does not come back.
LEMMA NewState ==
  ASSUME queue \in Seq(Entry), NoDuplicateJobs, NEW i,
         NEW s \in {"ceka", "radi", "gotovo", "greska"},
         i \in DOMAIN queue /\ s \in {"ceka", "radi"} => queue[i].state \in {"ceka", "radi"},
         queue' = [queue EXCEPT ![i].state = s]
  PROVE  queue' \in Seq(Entry) /\ NoDuplicateJobs'
  <1>1. CASE i \notin DOMAIN queue
    <2>1. queue' = queue
      BY <1>1
    <2>2. queue' \in Seq(Entry)
      BY <2>1
    <2>3. NoDuplicateJobs'
      BY <2>1, Zenon DEF NoDuplicateJobs
    <2>4. QED
      BY <2>2, <2>3
  <1>2. CASE i \in DOMAIN queue
    <2>1. [queue[i] EXCEPT !.state = s] \in Entry
      <3>1. queue[i] \in Entry
        BY <1>2
      <3>2. QED
        BY <3>1 DEF Entry
    <2>2. queue' = [queue EXCEPT ![i] = [queue[i] EXCEPT !.state = s]]
      BY <1>2
    <2>3. queue' \in Seq(Entry) /\ DOMAIN queue' = DOMAIN queue
      BY <1>2, <2>1, <2>2
    <2>4. \A j \in DOMAIN queue :
            /\ queue'[j].id = queue[j].id
            /\ queue'[j].state \in {"ceka", "radi"} => queue[j].state \in {"ceka", "radi"}
      BY <1>2, <2>2 DEF Entry
    <2>5. QED
      BY <2>3, <2>4 DEF NoDuplicateJobs
  <1>3. QED
    BY <1>1, <1>2

-----------------------------------------------------------------------------
LEMMA Implied == IInv => Inv
  <1> SUFFICES ASSUME IInv PROVE Inv
    OBVIOUS
  <1>1. TypeOK
    <2>1. \A i \in DOMAIN queue : queue[i] \in Entry
      BY DEF IInv, Types
    <2>2. alive = (workers > 0) /\ (worker.pc = "none" <=> ~alive)
      BY DEF IInv, WorkerKnown, AtWork
    <2>3. QED
      BY <2>1, <2>2 DEF IInv, Types, WorkerKnown, AtWork, TypeOK, Entry
  <1>2. OneWorker
    BY DEF IInv, WorkerKnown, OneWorker
  <1>3. QED
    BY <1>1, <1>2 DEF IInv, Inv

LEMMA Start == Init => IInv
  <1> SUFFICES ASSUME Init PROVE IInv
    OBVIOUS
  <1>1. Types
    BY DEF Init, Types
  <1>2. WorkerKnown /\ CopyThere
    BY DEF Init, WorkerKnown, CopyThere, AtWork
  <1>3. NoDuplicateJobs /\ NoHalfCopyLeft
    BY DEF Init, NoDuplicateJobs, NoHalfCopyLeft
  <1>4. QED
    BY <1>1, <1>2, <1>3 DEF IInv

-----------------------------------------------------------------------------
(* The handler.                                                            *)

LEMMA CheckFilesKeeps == ASSUME NEW c \in Clients, IInv, CheckFiles(c) PROVE IInv'
  <1>1. PICK v \in Videos : client' = [client EXCEPT ![c] = [pc |-> "checked", id |-> v]]
    BY DEF CheckFiles, IInv, Types
  <1>2. UNCHANGED <<files, catalog, scan, queue, alive, worker, workers, restarts>>
    BY DEF CheckFiles
  <1>3. Types'
    BY <1>1, <1>2 DEF IInv, Types, files
  <1>4. QED
    BY <1>2, <1>3
    DEF IInv, WorkerKnown, CopyThere, Stem, NoDuplicateJobs, NoHalfCopyLeft, files

LEMMA RefuseKeeps == ASSUME NEW c \in Clients, IInv, Refuse(c) PROVE IInv'
  <1>1. client' = [client EXCEPT ![c].pc = "start"]
    BY DEF Refuse
  <1>2. UNCHANGED <<files, catalog, scan, queue, alive, worker, workers, restarts>>
    BY DEF Refuse
  <1>3. Types'
    BY <1>1, <1>2 DEF IInv, Types, files
  <1>4. QED
    BY <1>2, <1>3
    DEF IInv, WorkerKnown, CopyThere, Stem, NoDuplicateJobs, NoHalfCopyLeft, files

LEMMA EnqueueKeeps == ASSUME NEW c \in Clients, IInv, Enqueue(c) PROVE IInv'
  <1> DEFINE e == [id |-> client[c].id, state |-> "ceka"]
  <1>1. /\ queue' = Append(queue, e) /\ queue \in Seq(Entry) /\ ~Queued(e.id)
        /\ client' = [client EXCEPT ![c].pc = "pushed"]
        /\ UNCHANGED <<files, catalog, scan, alive, worker, workers, restarts>>
    BY DEF Enqueue, IInv, Types
  <1>2. e \in Entry
    BY DEF Enqueue, IInv, Types, Entry
  <1>3. queue' \in Seq(Entry)
    BY <1>1, <1>2
  <1>4. NoDuplicateJobs'
    <2>1. DOMAIN queue' = DOMAIN queue \union {Len(queue) + 1}
      BY <1>1
    <2>2. /\ \A i \in DOMAIN queue : queue'[i] = queue[i]
          /\ queue'[Len(queue) + 1] = e
      BY <1>1
    <2>3. \A i \in DOMAIN queue :
            ~(queue[i].id = e.id /\ queue[i].state \in {"ceka", "radi"})
      BY <1>1 DEF Queued
    <2> HIDE DEF e
    <2>4. QED
      BY <2>1, <2>2, <2>3 DEF IInv, NoDuplicateJobs
  <1>5. Types'
    BY <1>1, <1>3 DEF IInv, Types, files
  <1>6. QED
    BY <1>1, <1>4, <1>5 DEF IInv, WorkerKnown, CopyThere, Stem, NoHalfCopyLeft, files

LEMMA StartWorkerKeeps == ASSUME NEW c \in Clients, IInv, StartWorker(c) PROVE IInv'
  <1>1. /\ client' = [client EXCEPT ![c].pc = "start"]
        /\ UNCHANGED <<files, catalog, scan, queue, restarts>>
    BY DEF StartWorker
  <1>2. Types'
    BY <1>1 DEF IInv, Types, files
  <1>3. WorkerKnown'
    BY DEF StartWorker, IInv, WorkerKnown, AtWork
  <1>4. worker' = worker \/ (worker.pc = "none" /\ worker'.pc = "loop")
    <2>1. CASE alive
      BY <2>1 DEF StartWorker
    <2>2. CASE ~alive
      <3>1. worker.pc = "none"
        BY <2>2 DEF IInv, WorkerKnown
      <3>2. worker'.pc = "loop"
        BY <2>2 DEF StartWorker
      <3>3. QED
        BY <3>1, <3>2
    <2>3. QED
      BY <2>1, <2>2
  <1>5. QED
    BY <1>1, <1>2, <1>3, <1>4 DEF IInv, CopyThere, Stem, NoDuplicateJobs, NoHalfCopyLeft, files

-----------------------------------------------------------------------------
(* The worker.                                                             *)

\* A worker that moves on within its loop stays the one worker.
LEMMA MoveKeeps ==
  ASSUME IInv, NEW pc \in {"loop", "rescan"} \union AtWork,
         worker.pc \in {"loop", "rescan"} \union AtWork, Goto(pc),
         pc \in AtWork => worker.pc \in AtWork,
         UNCHANGED <<alive, workers>>
  PROVE  WorkerKnown'
  <1>1. worker' = [pc |-> pc, id |-> worker.id]
    BY DEF Goto, IInv, WorkerKnown
  <1>2. QED
    BY <1>1 DEF IInv, WorkerKnown, AtWork

LEMMA TakeJobKeeps == IInv /\ TakeJob => IInv'
  <1> SUFFICES ASSUME IInv, TakeJob PROVE IInv'
    OBVIOUS
  <1> DEFINE i == First(IsWaiting)
  <1>1. i \in DOMAIN queue /\ queue[i].state = "ceka"
    BY FirstWaitingWaits DEF TakeJob, IInv, Types
  <1>2. /\ worker.pc = "loop" /\ queue \in Seq(Entry)
        /\ queue' = [queue EXCEPT ![i].state = "radi"]
        /\ worker' = [pc |-> "lookup", id |-> queue[i].id]
        /\ UNCHANGED <<files, catalog, scan, client, alive, workers, restarts>>
    BY DEF TakeJob, IInv, Types
  <1> HIDE DEF i
  <1>3. queue' \in Seq(Entry) /\ NoDuplicateJobs'
    BY <1>1, <1>2, NewState DEF IInv
  <1>4. queue[i].id \in Videos
    <2>1. queue[i] \in Entry
      BY <1>1, <1>2
    <2>2. QED
      BY <2>1 DEF Entry
  <1>5. Types'
    BY <1>2, <1>3 DEF IInv, Types, files
  <1>6. WorkerKnown'
    BY <1>2, <1>4 DEF IInv, WorkerKnown, AtWork
  <1>7. QED
    BY <1>2, <1>3, <1>5, <1>6 DEF IInv, CopyThere, Stem, NoHalfCopyLeft, files

\* Looking up, and an ffmpeg that does not start.
LEMMA LookUpKeeps == IInv /\ (LookUp \/ FfmpegMissing) => IInv'
  <1> SUFFICES ASSUME IInv, LookUp \/ FfmpegMissing PROVE IInv'
    OBVIOUS
  <1>1. PICK pc \in {"ffmpeg", "failed"} : Goto(pc)
    BY DEF LookUp, FfmpegMissing
  <1>2. /\ worker.pc \in {"lookup", "ffmpeg"}
        /\ UNCHANGED <<files, catalog, scan, queue, client, alive, workers, restarts>>
    BY DEF LookUp, FfmpegMissing
  <1>3. worker' = [pc |-> pc, id |-> worker.id]
    BY <1>1 DEF Goto, IInv, WorkerKnown
  <1>4. WorkerKnown'
    BY <1>1, <1>2, MoveKeeps DEF AtWork
  <1>5. Types'
    BY <1>2 DEF IInv, Types, files
  <1>6. QED
    BY <1>2, <1>3, <1>4, <1>5 DEF IInv, CopyThere, Stem, NoDuplicateJobs, NoHalfCopyLeft, files

\* The stem of the job at work is a stem.
LEMMA StemIsAStem == ASSUME IInv, worker.pc \in AtWork PROVE Stem \in Stems
  BY PrepareAssumption DEF IInv, WorkerKnown, Stem

\* The file of the stem becomes f, and the worker goes on to pc.
LEMMA FileBecomes ==
  ASSUME IInv, worker.pc \in {"ffmpeg", "copying"},
         NEW f \in Copy \union {Nothing}, NEW pc \in {"copying", "copied", "failed"},
         copies' = [copies EXCEPT ![Stem] = f], Goto(pc),
         f # Nothing => f.whole \/ pc = "copying",
         pc = "copying" => f \in Copy,
         UNCHANGED <<originals, off, catalog, scan, queue, client, alive, workers, restarts>>
  PROVE  IInv'
  <1>1. Stem \in Stems /\ worker' = [pc |-> pc, id |-> worker.id] /\ Stem' = Stem
    BY StemIsAStem DEF AtWork, Goto, IInv, WorkerKnown, Stem
  <1>2. copies' \in [Stems -> Copy \union {Nothing}] /\ copies'[Stem] = f
        /\ \A s \in Stems : s # Stem => copies'[s] = copies[s]
    BY <1>1 DEF IInv, Types
  <1>3. Types'
    BY <1>2 DEF IInv, Types
  <1>4. WorkerKnown'
    BY MoveKeeps DEF AtWork
  <1>5. CopyThere'
    BY <1>1, <1>2 DEF CopyThere
  <1>6. NoHalfCopyLeft'
    BY <1>1, <1>2 DEF IInv, NoHalfCopyLeft
  <1>7. NoDuplicateJobs'
    BY DEF IInv, NoDuplicateJobs
  <1>8. QED
    BY <1>3, <1>4, <1>5, <1>6, <1>7 DEF IInv

LEMMA FfmpegStartsKeeps == IInv /\ FfmpegStarts => IInv'
  <1> SUFFICES ASSUME IInv, FfmpegStarts PROVE IInv'
    OBVIOUS
  <1>1. [of |-> worker.id, whole |-> FALSE] \in Copy
    BY DEF FfmpegStarts, IInv, WorkerKnown, AtWork, Copy
  <1>2. QED
    BY <1>1, FileBecomes DEF FfmpegStarts

LEMMA FfmpegFailsKeeps == IInv /\ FfmpegFails => IInv'
  BY FileBecomes DEF FfmpegFails

LEMMA FfmpegSucceedsKeeps == IInv /\ FfmpegSucceeds => IInv'
  <1> SUFFICES ASSUME IInv, FfmpegSucceeds PROVE IInv'
    OBVIOUS
  <1> DEFINE f == [copies[Stem] EXCEPT !.whole = TRUE]
  <1>1. worker.pc = "copying" /\ Stem \in Stems /\ copies[Stem] \in Copy
    BY StemIsAStem DEF FfmpegSucceeds, AtWork, IInv, CopyThere
  <1>2. f \in Copy /\ f.whole
    BY <1>1 DEF Copy
  <1>3. copies' = [copies EXCEPT ![Stem] = f]
    BY DEF FfmpegSucceeds
  <1> HIDE DEF f
  <1>4. QED
    BY <1>1, <1>2, <1>3, FileBecomes DEF FfmpegSucceeds

LEMMA SwitchOffKeeps == IInv /\ SwitchOffOriginal => IInv'
  <1> SUFFICES ASSUME IInv, SwitchOffOriginal PROVE IInv'
    OBVIOUS
  <1>1. /\ worker.pc = "copied" /\ Goto("done")
        /\ UNCHANGED <<copies, catalog, scan, queue, client, alive, workers, restarts>>
    BY DEF SwitchOffOriginal
  <1>2. worker' = [pc |-> "done", id |-> worker.id] /\ worker.id \in Videos
    BY <1>1 DEF Goto, IInv, WorkerKnown, AtWork
  <1>3. originals' \subseteq Videos /\ off' \in [Stems -> Videos \union {Nothing}]
    BY <1>2 DEF SwitchOffOriginal, IInv, Types
  <1>4. Types'
    BY <1>1, <1>3 DEF IInv, Types
  <1>5. WorkerKnown'
    BY <1>1, MoveKeeps DEF AtWork
  <1>6. QED
    BY <1>1, <1>2, <1>4, <1>5 DEF IInv, CopyThere, Stem, NoDuplicateJobs, NoHalfCopyLeft

LEMMA ReportKeeps == IInv /\ Report => IInv'
  <1> SUFFICES ASSUME IInv, Report PROVE IInv'
    OBVIOUS
  <1>1. PICK i, s : /\ queue' = [queue EXCEPT ![i].state = s]
                    /\ s \in {"gotovo", "greska"}
    BY DEF Report
  <1>2. /\ worker.pc \in {"done", "failed"} /\ Goto("rescan") /\ queue \in Seq(Entry)
        /\ UNCHANGED <<files, catalog, scan, client, alive, workers, restarts>>
    BY DEF Report, IInv, Types
  <1>3. queue' \in Seq(Entry) /\ NoDuplicateJobs'
    BY <1>1, <1>2, NewState DEF IInv
  <1>4. WorkerKnown'
    BY <1>2, MoveKeeps DEF AtWork
  <1>5. worker' = [pc |-> "rescan", id |-> worker.id]
    BY <1>2 DEF Goto, IInv, WorkerKnown
  <1>6. Types'
    BY <1>2, <1>3 DEF IInv, Types, files
  <1>7. QED
    BY <1>2, <1>3, <1>4, <1>5, <1>6 DEF IInv, CopyThere, Stem, NoHalfCopyLeft, files

LEMMA RescanAfterJobKeeps == IInv /\ RescanAfterJob => IInv'
  <1> SUFFICES ASSUME IInv, RescanAfterJob PROVE IInv'
    OBVIOUS
  <1>1. /\ worker.pc = "rescan" /\ worker' = [pc |-> "loop", id |-> Nothing]
        /\ catalog' = originals
        /\ UNCHANGED <<files, scan, queue, client, alive, workers, restarts>>
    BY DEF RescanAfterJob
  <1>2. Types'
    BY <1>1 DEF IInv, Types, files
  <1>3. WorkerKnown'
    BY <1>1 DEF IInv, WorkerKnown, AtWork
  <1>4. QED
    BY <1>1, <1>2, <1>3 DEF IInv, CopyThere, Stem, NoDuplicateJobs, NoHalfCopyLeft, files

LEMMA WorkerStepKeeps == IInv /\ WorkerStep => IInv'
  BY TakeJobKeeps, LookUpKeeps, FfmpegStartsKeeps, FfmpegFailsKeeps, FfmpegSucceedsKeeps,
     SwitchOffKeeps, ReportKeeps, RescanAfterJobKeeps
  DEF WorkerStep

-----------------------------------------------------------------------------
(* Others.                                                                 *)

LEMMA OtherRescanKeeps == IInv /\ (OtherRescanReads \/ OtherRescanPublishes) => IInv'
  <1> SUFFICES ASSUME IInv, OtherRescanReads \/ OtherRescanPublishes PROVE IInv'
    OBVIOUS
  <1>1. /\ catalog' \subseteq Videos /\ scan'.seen \subseteq Videos
        /\ UNCHANGED <<files, queue, client, alive, worker, workers, restarts>>
    BY DEF OtherRescanReads, OtherRescanPublishes, IInv, Types
  <1>2. Types'
    BY <1>1 DEF IInv, Types, files
  <1>3. QED
    BY <1>1, <1>2 DEF IInv, WorkerKnown, CopyThere, Stem, NoDuplicateJobs, NoHalfCopyLeft, files

LEMMA RestartKeeps == IInv /\ Restart => IInv'
  <1> SUFFICES ASSUME IInv, Restart PROVE IInv'
    OBVIOUS
  <1>1. copies' \in [Stems -> Copy \union {Nothing}]
    <2>1. CASE UNCHANGED copies
      BY <2>1 DEF IInv, Types
    <2>2. CASE worker.pc = "copying" /\ copies' = [copies EXCEPT ![Stem].whole = TRUE]
      <3>1. Stem \in Stems /\ copies[Stem] \in Copy
        BY <2>2, StemIsAStem DEF AtWork, IInv, CopyThere
      <3>2. [copies[Stem] EXCEPT !.whole = TRUE] \in Copy
        BY <3>1 DEF Copy
      <3>3. QED
        BY <2>2, <3>1, <3>2 DEF IInv, Types
    <2>3. QED
      BY <2>1, <2>2 DEF Restart
  <1>2. /\ queue' = <<>> /\ restarts' = restarts + 1 /\ restarts \in Nat
        /\ worker' = [pc |-> "none", id |-> Nothing] /\ ~alive' /\ workers' = 0
        /\ alive' \in BOOLEAN
    BY DEF Restart, IInv, Types
  <1>3. Types'
    BY <1>1, <1>2 DEF Restart, IInv, Types
  <1>4. WorkerKnown' /\ CopyThere'
    BY <1>2 DEF WorkerKnown, CopyThere, AtWork
  <1>5. NoDuplicateJobs' /\ NoHalfCopyLeft'
    BY <1>2 DEF NoDuplicateJobs, NoHalfCopyLeft
  <1>6. QED
    BY <1>3, <1>4, <1>5 DEF IInv

LEMMA StutterKeeps == IInv /\ UNCHANGED vars => IInv'
  BY DEF vars, IInv, Types, WorkerKnown, CopyThere, Stem, NoDuplicateJobs, NoHalfCopyLeft

LEMMA StepKeeps == IInv /\ [Next]_vars => IInv'
  <1>1. ASSUME NEW c \in Clients, IInv, ClientStep(c) PROVE IInv'
    BY <1>1, CheckFilesKeeps, RefuseKeeps, EnqueueKeeps, StartWorkerKeeps DEF ClientStep
  <1>2. QED
    BY <1>1, WorkerStepKeeps, OtherRescanKeeps, RestartKeeps, StutterKeeps DEF Next

\* prepare.rs: however many handlers post at once and whatever becomes of
\* ffmpeg, the process has one worker, no video waits or is worked on twice,
\* and a half copy lies only where the worker is writing.
THEOREM QueueInOrder == Spec => []Inv
  <1>1. Spec => []IInv
    BY Start, StepKeeps, PTL DEF Spec
  <1>2. QED
    BY <1>1, Implied, PTL

-----------------------------------------------------------------------------
(* The status page.                                                        *)

\* A job at work has an entry.
WorkHasEntry ==
  worker.pc \in AtWork => \E i \in DOMAIN queue : queue[i].id = worker.id

Only(i) == \A j \in DOMAIN queue : queue[j].id = queue[i].id => j = i

StatusIsTrue ==
  \A i \in DOMAIN queue : Only(i) =>
    (queue[i].state = "radi" <=> worker.id = queue[i].id /\ worker.pc \in AtWork)

StatusInv == WorkHasEntry /\ StatusIsTrue

\* A worker that goes on with the same job, or without one, while the queue
\* stays.
LEMMA StatusStays ==
  ASSUME StatusInv, UNCHANGED queue,
         worker' = worker \/ (worker'.id = worker.id /\ (worker'.pc \in AtWork <=> worker.pc \in AtWork))
           \/ (worker.pc \notin AtWork /\ worker'.pc \notin AtWork)
  PROVE  StatusInv'
  <1>1. CASE worker' = worker
    BY <1>1 DEF StatusInv, WorkHasEntry, StatusIsTrue, Only
  <1>2. CASE worker'.id = worker.id /\ (worker'.pc \in AtWork <=> worker.pc \in AtWork)
    BY <1>2 DEF StatusInv, WorkHasEntry, StatusIsTrue, Only
  <1>3. CASE worker.pc \notin AtWork /\ worker'.pc \notin AtWork
    BY <1>3 DEF StatusInv, WorkHasEntry, StatusIsTrue, Only
  <1>4. QED
    BY <1>1, <1>2, <1>3

LEMMA EnqueueTells == ASSUME NEW c \in Clients, IInv, StatusInv, Enqueue(c) PROVE StatusInv'
  <1> DEFINE e == [id |-> client[c].id, state |-> "ceka"]
  <1>1. queue' = Append(queue, e) /\ queue \in Seq(Entry) /\ worker' = worker
    BY DEF Enqueue, IInv, Types
  <1>2. /\ DOMAIN queue' = DOMAIN queue \union {Len(queue) + 1}
        /\ \A i \in DOMAIN queue : queue'[i] = queue[i] /\ i # Len(queue) + 1
        /\ queue'[Len(queue) + 1] = e
    BY <1>1
  <1>3. WorkHasEntry'
    BY <1>1, <1>2 DEF StatusInv, WorkHasEntry
  <1>4. ASSUME NEW i \in DOMAIN queue', Only(i)'
        PROVE  queue'[i].state = "radi" <=> worker'.id = queue'[i].id /\ worker'.pc \in AtWork
    <2>1. CASE i \in DOMAIN queue
      <3>1. Only(i)
        BY <1>2, <1>4, <2>1 DEF Only
      <3>2. QED
        BY <1>1, <1>2, <2>1, <3>1 DEF StatusInv, StatusIsTrue
    <2>2. CASE i = Len(queue) + 1
      <3>1. queue'[i].state = "ceka" /\ queue'[i].id = e.id
        BY <1>2, <2>2
      <3>2. \A j \in DOMAIN queue : queue[j].id # e.id
        BY <1>2, <1>4, <2>2, <3>1 DEF Only
      <3>3. worker.pc \in AtWork => worker.id # e.id
        BY <3>2 DEF StatusInv, WorkHasEntry
      <3> HIDE DEF e
      <3>4. QED
        BY <1>1, <3>1, <3>3
    <2>3. QED
      BY <1>2, <2>1, <2>2
  <1>5. QED
    BY <1>3, <1>4 DEF StatusInv, StatusIsTrue

\* One entry gets a new state.
LEMMA EntryChanges ==
  ASSUME queue \in Seq(Entry), NEW i \in DOMAIN queue,
         NEW s \in {"ceka", "radi", "gotovo", "greska"},
         queue' = [queue EXCEPT ![i].state = s]
  PROVE  /\ DOMAIN queue' = DOMAIN queue
         /\ \A j \in DOMAIN queue : queue'[j].id = queue[j].id
         /\ \A j \in DOMAIN queue : j # i => queue'[j] = queue[j]
         /\ queue'[i].state = s
         /\ \A j \in DOMAIN queue : Only(j)' <=> Only(j)
  <1>1. queue[i] \in Entry
    OBVIOUS
  <1>2. /\ DOMAIN queue' = DOMAIN queue
        /\ \A j \in DOMAIN queue : j # i => queue'[j] = queue[j]
        /\ queue'[i] = [queue[i] EXCEPT !.state = s]
    OBVIOUS
  <1>3. queue'[i].id = queue[i].id /\ queue'[i].state = s
    BY <1>1, <1>2 DEF Entry
  <1>4. \A j \in DOMAIN queue : queue'[j].id = queue[j].id
    BY <1>2, <1>3
  <1>5. \A j \in DOMAIN queue : Only(j)' <=> Only(j)
    BY <1>2, <1>4 DEF Only
  <1>6. QED
    BY <1>2, <1>3, <1>4, <1>5

LEMMA TakeJobTells == ASSUME IInv, StatusInv, TakeJob PROVE StatusInv'
  <1> DEFINE i == First(IsWaiting)
  <1>1. i \in DOMAIN queue
    BY FirstWaitingWaits DEF TakeJob, IInv, Types
  <1>2. /\ worker.pc = "loop" /\ queue \in Seq(Entry)
        /\ queue' = [queue EXCEPT ![i].state = "radi"]
        /\ worker' = [pc |-> "lookup", id |-> queue[i].id]
    BY DEF TakeJob, IInv, Types
  <1> HIDE DEF i
  <1>3. /\ DOMAIN queue' = DOMAIN queue
        /\ \A j \in DOMAIN queue : queue'[j].id = queue[j].id
        /\ \A j \in DOMAIN queue : j # i => queue'[j] = queue[j]
        /\ queue'[i].state = "radi"
        /\ \A j \in DOMAIN queue : Only(j)' <=> Only(j)
    BY <1>1, <1>2, EntryChanges
  <1>4. worker'.id = queue[i].id /\ worker'.pc \in AtWork /\ worker.pc \notin AtWork
    BY <1>2 DEF AtWork
  <1>5. WorkHasEntry'
    BY <1>1, <1>3, <1>4 DEF WorkHasEntry
  <1>6. ASSUME NEW j \in DOMAIN queue, Only(j)
        PROVE  queue'[j].state = "radi" <=> worker'.id = queue'[j].id
    <2>1. CASE j = i
      BY <1>3, <1>4, <2>1
    <2>2. CASE j # i
      BY <1>1, <1>3, <1>4, <1>6, <2>2 DEF StatusInv, StatusIsTrue, Only
    <2>3. QED
      BY <2>1, <2>2
  <1>7. QED
    BY <1>3, <1>4, <1>5, <1>6 DEF StatusInv, StatusIsTrue

\* The first entry of an id exists if there is one.
LEMMA FirstOfId ==
  ASSUME queue \in Seq(Entry), NEW id, \E i \in DOMAIN queue : queue[i].id = id
  PROVE  LET i == CHOOSE i \in DOMAIN queue :
                    queue[i].id = id /\ \A j \in 1 .. i - 1 : ~(queue[j].id = id)
         IN  i \in DOMAIN queue /\ queue[i].id = id
  <1> DEFINE S == {i \in DOMAIN queue : queue[i].id = id}
  <1>1. S \in SUBSET Nat /\ S # {}
    OBVIOUS
  <1>2. PICK m \in S : \A k \in S : ~(k < m)
    BY <1>1, LeastOfSome
  <1>3. \A j \in 1 .. m - 1 : j \in DOMAIN queue /\ j < m
    OBVIOUS
  <1>4. m \in DOMAIN queue /\ queue[m].id = id /\ \A j \in 1 .. m - 1 : ~(queue[j].id = id)
    BY <1>2, <1>3
  <1>5. QED
    BY <1>4

LEMMA ReportTells == ASSUME IInv, StatusInv, Report PROVE StatusInv'
  <1> DEFINE i == CHOOSE i \in DOMAIN queue :
                    queue[i].id = worker.id /\ \A j \in 1 .. i - 1 : ~(queue[j].id = worker.id)
             s == IF worker.pc = "done" THEN "gotovo" ELSE "greska"
  <1>1. /\ worker.pc \in AtWork /\ queue \in Seq(Entry) /\ Goto("rescan")
        /\ queue' = [queue EXCEPT ![i].state = s]
    BY DEF Report, First, AtWork, IInv, Types
  <1>2. i \in DOMAIN queue /\ queue[i].id = worker.id
    BY <1>1, FirstOfId DEF StatusInv, WorkHasEntry
  <1>3. s \in {"ceka", "radi", "gotovo", "greska"} /\ s # "radi"
    OBVIOUS
  <1> HIDE DEF i, s
  <1>4. /\ DOMAIN queue' = DOMAIN queue
        /\ \A j \in DOMAIN queue : queue'[j].id = queue[j].id
        /\ \A j \in DOMAIN queue : j # i => queue'[j] = queue[j]
        /\ queue'[i].state = s
        /\ \A j \in DOMAIN queue : Only(j)' <=> Only(j)
    BY <1>1, <1>2, <1>3, EntryChanges
  <1>5. worker'.pc \notin AtWork
    BY <1>1 DEF Goto, IInv, WorkerKnown, AtWork
  <1>6. ASSUME NEW j \in DOMAIN queue, Only(j) PROVE queue'[j].state # "radi"
    <2>1. CASE j = i
      BY <1>3, <1>4, <2>1
    <2>2. CASE j # i
      <3>1. queue[j].id # worker.id
        BY <1>2, <1>6, <2>2 DEF Only
      <3>2. QED
        BY <1>4, <1>6, <2>2, <3>1 DEF StatusInv, StatusIsTrue
    <2>3. QED
      BY <2>1, <2>2
  <1>7. QED
    BY <1>4, <1>5, <1>6 DEF StatusInv, StatusIsTrue, WorkHasEntry

LEMMA WorkerTells == ASSUME IInv, StatusInv, WorkerStep PROVE StatusInv'
  <1>1. worker = [pc |-> worker.pc, id |-> worker.id]
    BY DEF IInv, WorkerKnown
  <1>2. ASSUME NEW pc \in AtWork, worker.pc \in AtWork, Goto(pc), UNCHANGED queue
        PROVE  StatusInv'
    <2>1. worker'.id = worker.id /\ worker'.pc = pc
      BY <1>1, <1>2 DEF Goto
    <2>2. QED
      BY <1>2, <2>1, StatusStays
  <1>3. CASE LookUp \/ FfmpegMissing \/ FfmpegStarts \/ FfmpegFails \/ FfmpegSucceeds
             \/ SwitchOffOriginal
    BY <1>2, <1>3
    DEF LookUp, FfmpegMissing, FfmpegStarts, FfmpegFails, FfmpegSucceeds, SwitchOffOriginal, AtWork
  <1>4. CASE RescanAfterJob
    <2>1. worker.pc \notin AtWork /\ worker'.pc \notin AtWork /\ UNCHANGED queue
      BY <1>4 DEF RescanAfterJob, AtWork
    <2>2. QED
      BY <2>1, StatusStays
  <1>5. QED
    BY <1>3, <1>4, TakeJobTells, ReportTells DEF WorkerStep

LEMMA StatusStep == IInv /\ StatusInv /\ [Next]_vars => StatusInv'
  <1> SUFFICES ASSUME IInv, StatusInv, [Next]_vars PROVE StatusInv'
    OBVIOUS
  <1>1. ASSUME NEW c \in Clients, CheckFiles(c) \/ Refuse(c) PROVE StatusInv'
    BY <1>1, StatusStays DEF CheckFiles, Refuse
  <1>2. ASSUME NEW c \in Clients, StartWorker(c) PROVE StatusInv'
    <2>1. UNCHANGED queue /\ (alive => UNCHANGED worker) /\ (~alive => worker'.pc = "loop")
      BY <1>2 DEF StartWorker
    <2>2. ~alive => worker.pc = "none"
      BY DEF IInv, WorkerKnown
    <2>3. QED
      BY <2>1, <2>2, StatusStays DEF AtWork
  <1>3. CASE OtherRescanReads \/ OtherRescanPublishes \/ UNCHANGED vars
    BY <1>3, StatusStays DEF OtherRescanReads, OtherRescanPublishes, vars
  <1>4. CASE Restart
    <2>1. queue' = << >> /\ worker'.pc = "none"
      BY <1>4 DEF Restart
    <2>2. QED
      BY <2>1 DEF StatusInv, WorkHasEntry, StatusIsTrue, AtWork
  <1>5. QED
    BY <1>1, <1>2, <1>3, <1>4, WorkerTells, EnqueueTells DEF Next, ClientStep

\* prepare.rs api_status and pokreni_radnika: however many handlers post, whatever becomes
\* of the jobs before and of ffmpeg, a video queued once is shown as being
\* worked on exactly while the worker has it.
THEOREM StatusIsTold == Spec => []StatusTellsTheTruth
  <1>1. Init => IInv /\ StatusInv
    <2>1. Init => StatusInv
      BY DEF Init, StatusInv, WorkHasEntry, StatusIsTrue, AtWork
    <2>2. QED
      BY <2>1, Start
  <1>2. IInv /\ StatusInv /\ [Next]_vars => IInv' /\ StatusInv'
    BY StepKeeps, StatusStep
  <1>3. IInv /\ StatusInv => StatusTellsTheTruth
    BY DEF IInv, WorkerKnown, AtWork, StatusInv, StatusIsTrue, Only, StatusTellsTheTruth
  <1>4. QED
    BY <1>1, <1>2, <1>3, PTL DEF Spec

-----------------------------------------------------------------------------
(* The run prepare_originals loses an original to another one of the same  *)
(* stem: that is the only way.                                             *)

\* prepare.rs: the original stays on the disk, under its name or as .off, also
\* over restarts, in a library where no two videos of one folder differ only
\* in their extension.
THEOREM OriginalStaysWhereStemsDiffer ==
  ASSUME \A u, v \in Videos : StemOf[u] = StemOf[v] => u = v
  PROVE  Spec => []OriginalStaysOnDisk
  <1>1. Init => OriginalStaysOnDisk
    BY DEF Init, OriginalStaysOnDisk
  <1>2. ASSUME IInv, OriginalStaysOnDisk, [Next]_vars PROVE OriginalStaysOnDisk'
    <2>1. CASE SwitchOffOriginal
      <3>1. worker.id \in Videos /\ StemOf[worker.id] \in Stems
        BY <1>2, <2>1, PrepareAssumption DEF SwitchOffOriginal, IInv, WorkerKnown, AtWork
      <3>2. off \in [Stems -> Videos \union {Nothing}]
        BY <1>2 DEF IInv, Types
      <3>3. CASE UNCHANGED <<originals, off>>
        BY <1>2, <3>3 DEF OriginalStaysOnDisk
      <3>4. CASE originals' = originals \ {worker.id} /\ off' = [off EXCEPT ![Stem] = worker.id]
        BY <1>2, <3>1, <3>2, <3>4 DEF OriginalStaysOnDisk, Stem
      <3>5. QED
        BY <2>1, <3>3, <3>4 DEF SwitchOffOriginal
    <2>2. CASE ~SwitchOffOriginal
      <3>1. UNCHANGED <<originals, off>>
        BY <1>2, <2>2
        DEF vars, files, Next, ClientStep, WorkerStep, CheckFiles, Refuse, Enqueue, StartWorker, TakeJob,
            LookUp, FfmpegStarts, FfmpegMissing, FfmpegFails, FfmpegSucceeds, Report,
            RescanAfterJob, OtherRescanReads, OtherRescanPublishes, Restart
      <3>2. QED
        BY <1>2, <3>1 DEF OriginalStaysOnDisk
    <2>3. QED
      BY <2>1, <2>2
  <1>3. QED
    BY <1>1, <1>2, Start, StepKeeps, PTL DEF Spec

=============================================================================
