----------------------------- MODULE FileServing -----------------------------
(***************************************************************************)
(* One request for a film or a piece of one (routes.rs serve_node, the     *)
(* duration probe, media.rs serve_file) while the file grows, shrinks or   *)
(* goes away and the library is scanned again.                             *)
(*                                                                         *)
(*   file     the size of the file, {} when it is gone                     *)
(*   listed   the catalog has the object                                   *)
(*   known    the duration cache: {}, or {d} with d itself {} if unknown   *)
(*   step     where serve_node and serve_file are                          *)
(*   req      the headers of the request                                   *)
(*   duration, total, plan, status, sent   what the request has worked out *)
(*   shrank   the file lost bytes it had when its size was read            *)
(***************************************************************************)
EXTENDS ByteRange

CONSTANTS
    Sizes,        \* sizes a file may have
    LengthOf(_),  \* what ffprobe says of a file of this size, {} for nothing
    Requests,     \* headers there may be: [range, seek, head]
    ProbeDuration,\* transcode.probe_duration
    MaxWrites     \* bound on changes of the file

\* What may be missing is there at most once.
Single(S) == \A a, b \in S : a = b

ASSUME FileAssumption ==
    /\ Sizes \subseteq Nat /\ ProbeDuration \in BOOLEAN /\ MaxWrites \in Nat
    /\ \A n \in Sizes : LengthOf(n) \subseteq Nat /\ Single(LengthOf(n))

ASSUME RequestsAssumption ==
    \A r \in Requests :
        /\ r.head \in BOOLEAN /\ Single(r.range) /\ Single(r.seek)
        /\ \A h \in r.range :
              /\ h.first \subseteq Nat /\ Single(h.first)
              /\ h.last \subseteq Nat /\ Single(h.last)
        /\ \A h \in r.seek :
              /\ Single(h.start) /\ Single(h.end)
              /\ \A c \in h.start \cup h.end : c.hours \in Nat /\ c.minutes \in Nat /\ c.ms \in Nat

VARIABLES file, listed, known, step, req, duration, total, plan, status, sent, shrank, writes
fileVars == <<file, listed, known, step, req, duration, total, plan, status, sent, shrank, writes>>
asked == <<duration, total, plan, status, sent, shrank>>

FileInit ==
    /\ file \in {{n} : n \in Sizes} /\ listed = TRUE /\ known = {}
    /\ step = "idle" /\ req \in Requests
    /\ duration = {} /\ total = 0 /\ plan = {} /\ status = 0 /\ sent = 0 /\ shrank = FALSE
    /\ writes = 0

\* An open file outlives its name.
Write(sizes) ==
    /\ writes < MaxWrites /\ writes' = writes + 1
    /\ step = "body" => sizes # {}
    /\ file' = sizes
    /\ shrank' = (shrank \/ (step \in {"open", "body"} /\ \A n \in sizes : n < total))
    /\ UNCHANGED <<listed, known, step, req, duration, total, plan, status, sent>>

\* rescan(): the cache of durations is emptied.
RescanForgetsDurations ==
    /\ known' = {} /\ listed' = (file # {})
    /\ UNCHANGED <<file, step, req, duration, total, plan, status, sent, shrank, writes>>

Answer(code) == status' = code /\ step' = "done"

Asks(r) ==
    /\ step = "idle" /\ req' = r
    /\ IF listed THEN step' = "probe" /\ UNCHANGED status ELSE Answer(404)
    /\ UNCHANGED <<file, listed, known, duration, total, plan, sent, shrank, writes>>

\* probe_duration: from the cache, or ffprobe now.
Probe ==
    /\ step = "probe" /\ step' = "metadata"
    /\ IF ~ProbeDuration THEN duration' = {} /\ UNCHANGED known
       ELSE /\ known' = IF known # {} THEN known ELSE {UNION {LengthOf(n) : n \in file}}
            /\ duration' = UNION known'
    /\ UNCHANGED <<file, listed, req, total, plan, status, sent, shrank, writes>>

MakePlan(n) ==
    LET seeks == UNION {ParseSeek(h) : h \in req.seek}
        known0 == {d \in duration : d > 0}
    IN  IF seeks # {} /\ known0 # {} /\ n > 0
        THEN {SeekPlan(s, d, n) : s \in seeks, d \in known0}
        ELSE RangePlan(req.range, n)

Metadata ==
    /\ step = "metadata"
    /\ \/ file = {} /\ Answer(404) /\ UNCHANGED <<total, plan>>
       \/ \E n \in file :
             /\ total' = n /\ plan' = MakePlan(n)
             /\ IF plan' = {} THEN Answer(416) ELSE step' = "open" /\ UNCHANGED status
    /\ UNCHANGED <<file, listed, known, req, duration, sent, shrank, writes>>

Open ==
    /\ step = "open"
    /\ \/ file = {} /\ Answer(404)
       \/ /\ file # {} /\ status' = (CHOOSE p \in plan : TRUE).status
          /\ step' = IF req.head THEN "done" ELSE "body"
    /\ UNCHANGED <<file, listed, known, req, duration, total, plan, sent, shrank, writes>>

\* The next byte; the body ends where the file ends.
Body ==
    /\ step = "body"
    /\ \E p \in plan, n \in file :
          IF sent < Length(p, total) /\ p.start + sent < n
          THEN sent' = sent + 1 /\ UNCHANGED step
          ELSE step' = "done" /\ UNCHANGED sent
    /\ UNCHANGED <<file, listed, known, req, duration, total, plan, status, shrank, writes>>

\* The television has its answer and may ask again.
Ends ==
    /\ step = "done" /\ step' = "idle"
    /\ duration' = {} /\ total' = 0 /\ plan' = {} /\ status' = 0 /\ sent' = 0 /\ shrank' = FALSE
    /\ UNCHANGED <<file, listed, known, req, writes>>

FileNext ==
    \/ \E sizes \in {{}} \cup {{n} : n \in Sizes} : Write(sizes)
    \/ RescanForgetsDurations
    \/ \E r \in Requests : Asks(r)
    \/ Probe \/ Metadata \/ Open \/ Body \/ Ends

FileSpec == FileInit /\ [][FileNext]_fileVars

-----------------------------------------------------------------------------
FileTypeOK ==
    /\ \A n \in file : n \in Sizes
    /\ listed \in BOOLEAN /\ shrank \in BOOLEAN /\ req \in Requests
    /\ total \in Nat /\ sent \in Nat
    /\ step \in {"idle", "probe", "metadata", "open", "body", "done"}
    /\ status \in {0, 200, 206, 404, 416}

\* The range of an answer lies inside the file whose size was read.
PlanInside ==
    \A p \in plan :
        /\ p.start \in Nat /\ p.end \in Nat /\ p.start <= p.end
        /\ total > 0 => p.end < total
        /\ total = 0 => p.end = 0

\* The body has as many bytes as Content-Length says, unless the file shrank
\* under the answer; never more.
LengthKept ==
    \A p \in plan :
        /\ sent <= Length(p, total)
        /\ step = "done" /\ status \in {200, 206} /\ ~req.head /\ ~shrank => sent = Length(p, total)

\* A Range header gets the bytes it names and 416 when it names none; a time
\* gets every byte that plays in it, by the duration that was known.
AskedForIsPlanned ==
    step \in {"open", "body", "done"} /\ total > 0 =>
        IF \A p \in plan : p.status = 206
        THEN \A h \in req.range :
                /\ \A p \in plan : p.start..p.end = BytesAsked(h, total)
                /\ plan = {} => BytesAsked(h, total) = {}
        ELSE \A h \in req.seek, p \in plan, d \in duration \ {0} :
                \A s \in ParseSeek(h) : BytesPlayed(s, d, total) \subseteq p.start..p.end

\* What the television gets is what it asked for and as long as announced,
\* at every size, also at the boundaries: an empty file, a range of one byte,
\* past the end, a file that changes between metadata() and open() (range.rs,
\* time_seek.rs, media.rs:65).
BytesAsPromised == FileTypeOK /\ PlanInside /\ LengthKept /\ AskedForIsPlanned

=============================================================================
