------------------------------ MODULE Settings ------------------------------
(***************************************************************************)
(* The configuration file and those who write it: boot (boot.rs, device.rs)*)
(* the settings page (api/settings.rs) and the transcode scan              *)
(* (api/transcode.rs), which both read the whole file, change a few fields *)
(* and write the whole file back.  Writing cuts the file to nothing first, *)
(* and an empty file reads as the defaults.  The process may end between   *)
(* any two steps: on POST /api/restart, or killed.                         *)
(***************************************************************************)
EXTENDS Hardware, FiniteSets

CONSTANTS
  Machines,   \* the machines to run on
  Speeds,     \* what a scan may measure: functions from KANDIDATI to speeds
  Pages,      \* browser pages
  Languages, Accels, Modes,  \* what a page may ask for
  OwnEncoders, OwnThreads,   \* what a caller may put in place of the recommended
  MaxSaves,   \* bound on saves from pages
  MaxBoots    \* bound on starts of the process

ASSUME SettingsAssumption ==
  /\ MaxSaves \in Nat /\ MaxBoots \in Nat
  /\ Modes \subseteq {"auto", "cpu", "gpu", "hybrid"}
  /\ \A s \in Speeds : \A e \in KANDIDATI : s[e] \in Int
  /\ \A m \in Machines :
        /\ m.lists \in Seq(STRING)
        /\ \A i, j \in DOMAIN m.lists : m.lists[i] = m.lists[j] => i = j

VARIABLES
  machine,
  toml,    \* the file: [state, config]
  proc,    \* the process: [phase, config, boot, language, hw, saves]
  work,    \* of each page: [step, kind, config, mode, report, read]; kind is put, apply,
           \* or own for an apply that was overruled
  saves,   \* saves begun from pages
  boots,
  announced,   \* the UDNs that the network has seen, in order
  wished,  \* the last settings somebody was told are saved
  ordered, \* no save so far was of a copy that another save made stale
  cut      \* a save was cut off, and left an empty file

settingsVars == <<machine, toml, proc, work, saves, boots, announced, wished, ordered, cut>>

DefaultConfig ==
  [udn |-> {}, language |-> "hr", hw_accel |-> "auto", ffmpeg |-> "ffmpeg", mode |-> "auto",
   encoder |-> "", threads |-> 0, max_concurrent |-> 2]

\* Config::load: as a set, empty when it fails.
LoadConfig(f) ==
  CASE f.state = "whole" -> {f.config}
    [] f.state = "empty" -> {DefaultConfig}
    [] OTHER -> {}

CutFile == [toml EXCEPT !.state = "empty"]
WholeFile(c) == [state |-> "whole", config |-> c]

ProcDown == [phase |-> "down", config |-> DefaultConfig, boot |-> DefaultConfig,
             language |-> "hr", hw |-> [available |-> {}, preferred |-> "none"], saves |-> 0]
NoWork == [step |-> "idle", kind |-> "put", config |-> DefaultConfig, mode |-> "auto",
           report |-> {}, read |-> 0]

SettingsInit ==
  /\ machine \in Machines
  /\ toml = [state |-> "absent", config |-> DefaultConfig]
  /\ proc = ProcDown
  /\ work = [p \in Pages |-> NoWork]
  /\ saves = 0 /\ boots = 0 /\ announced = {}
  /\ wished = [language |-> "hr", hw_accel |-> "auto"]
  /\ ordered = TRUE /\ cut = FALSE

-----------------------------------------------------------------------------
(***************************************************************************)
(* Boot                                                                    *)
(***************************************************************************)

\* load_or_create: a file that is not there is written with the defaults.
BootLoads ==
  /\ proc.phase = "down" /\ boots < MaxBoots
  /\ boots' = boots + 1
  /\ IF toml.state = "absent"
     THEN toml' = CutFile /\ proc' = [ProcDown EXCEPT !.phase = "create"]
     ELSE /\ \E c \in LoadConfig(toml) : proc' = [ProcDown EXCEPT !.phase = "ensure", !.config = c]
          /\ UNCHANGED toml
  /\ UNCHANGED <<machine, work, saves, announced, wished, ordered, cut>>

\* DeviceIdentity::ensure: a UDN is made once and saved.
NewUdn == {boots}

EnsureForgets ==
  /\ proc.phase = "ensure"
  /\ proc' = [proc EXCEPT !.phase = "start",
                          !.config.udn = IF proc.config.udn = {} THEN NewUdn ELSE @]
  /\ UNCHANGED <<machine, toml, work, saves, boots, announced, wished, ordered, cut>>

BootEnsures ==
  /\ proc.phase = "ensure"
  /\ IF proc.config.udn = {}
     THEN /\ proc' = [proc EXCEPT !.phase = "identity", !.config.udn = NewUdn]
          /\ toml' = CutFile
     ELSE proc' = [proc EXCEPT !.phase = "start"] /\ UNCHANGED toml
  /\ UNCHANGED <<machine, work, saves, boots, announced, wished, ordered, cut>>

\* The write of the boot itself.
BootWrites ==
  /\ proc.phase \in {"create", "identity"}
  /\ toml' = WholeFile(proc.config)
  /\ proc' = [proc EXCEPT !.phase = IF @ = "create" THEN "ensure" ELSE "start"]
  /\ UNCHANGED <<machine, work, saves, boots, announced, wished, ordered, cut>>

\* The snapshot to compare with is taken before the tools are resolved.
BootComesUp ==
  /\ proc.phase = "start"
  /\ LET ffmpeg == ResolveTool(machine, proc.config.ffmpeg)
     IN proc' = [phase |-> "up", boot |-> proc.config, config |-> [proc.config EXCEPT !.ffmpeg = ffmpeg],
                 language |-> proc.config.language,
                 hw |-> Detect(machine, ffmpeg, proc.config.hw_accel), saves |-> saves]
  /\ announced' = announced \cup proc.config.udn
  /\ UNCHANGED <<machine, toml, work, saves, boots, wished, ordered, cut>>

-----------------------------------------------------------------------------
(***************************************************************************)
(* Pages                                                                   *)
(***************************************************************************)

\* Which saves a copy that is read now contains: none for certain while
\* another save is at work.
ReadNow == IF \E p \in Pages : work[p].step = "write" THEN -1 ELSE saves

\* GET /api/settings; the running configuration when the file does not parse.
PageGets(p) ==
  /\ proc.phase = "up" /\ work[p].step = "idle"
  /\ \E c \in IF LoadConfig(toml) = {} THEN {proc.config} ELSE LoadConfig(toml) :
       work' = [work EXCEPT ![p] = [NoWork EXCEPT !.step = "open", !.config = c, !.read = ReadNow]]
  /\ UNCHANGED <<machine, toml, proc, saves, boots, announced, wished, ordered, cut>>

Edited(c) == {[c EXCEPT !.language = l] : l \in Languages} \cup {[c EXCEPT !.hw_accel = h] : h \in Accels}

BeginSave(p, job) ==
  /\ saves < MaxSaves
  /\ saves' = saves + 1
  /\ ordered' = (ordered /\ job.read = saves)
  /\ work' = [work EXCEPT ![p] = [job EXCEPT !.step = "write"]]
  /\ toml' = CutFile

\* PUT /api/settings: validate refuses a configuration without a UDN.
PagePuts(p) ==
  /\ proc.phase = "up" /\ work[p].step = "open"
  /\ IF work[p].config.udn = {}
     THEN work' = [work EXCEPT ![p] = NoWork] /\ UNCHANGED <<toml, saves, ordered>>
     ELSE \E c \in Edited(work[p].config) : BeginSave(p, [work[p] EXCEPT !.config = c])
  /\ UNCHANGED <<machine, proc, boots, announced, wished, cut>>

\* POST /api/transcode/apply: the copy is from before the scan.
ApplyReads(p) ==
  /\ proc.phase = "up" /\ work[p].step = "idle"
  /\ \E c \in LoadConfig(toml) : \E mode \in Modes \cup {c.mode} :
       work' = [work EXCEPT ![p] = [NoWork EXCEPT !.step = "scan", !.kind = "apply", !.config = c,
                                                  !.mode = mode, !.read = ReadNow]]
  /\ UNCHANGED <<machine, toml, proc, saves, boots, announced, wished, ordered, cut>>

Applied(c, r) ==
  [c EXCEPT !.ffmpeg = r.ffmpeg, !.encoder = r.encoder, !.mode = r.mode, !.threads = r.threads,
            !.max_concurrent = r.max_concurrent]

\* What the caller gives itself wins, and is written as it is.
Overruled(c) ==
  LET recoded == {[c EXCEPT !.encoder = e] : e \in OwnEncoders \cup {c.encoder}}
  IN recoded \cup UNION {{[d EXCEPT !.threads = n] : d \in recoded} : n \in OwnThreads}

ApplyScans(p) ==
  /\ proc.phase = "up" /\ work[p].step = "scan"
  /\ LET best == BestTool(machine, work[p].config.ffmpeg)
     IN \E speed \in Speeds :
          LET probes == Measured(machine, best, speed)
              applied == Applied(work[p].config, Recommend(best, probes, work[p].mode))
          IN \E c \in Overruled(applied) :
               BeginSave(p, [work[p] EXCEPT !.report = probes, !.config = c,
                                            !.kind = IF c = applied THEN "apply" ELSE "own"])
  /\ UNCHANGED <<machine, proc, boots, announced, wished, cut>>

\* The write itself, after which the page has its answer; a PUT sets the
\* language at once.  What a longer save had written before remains behind a
\* shorter one, and the file no longer parses.
PageSaves(p) ==
  /\ proc.phase = "up" /\ work[p].step = "write"
  /\ \/ toml' = WholeFile(work[p].config)
     \/ toml.state # "empty" /\ toml' = [toml EXCEPT !.state = "garbled"]
  /\ work' = [work EXCEPT ![p] = NoWork]
  /\ IF work[p].kind = "put"
     THEN /\ proc' = [proc EXCEPT !.language = work[p].config.language]
          /\ wished' = [language |-> work[p].config.language, hw_accel |-> work[p].config.hw_accel]
     ELSE UNCHANGED <<proc, wished>>
  /\ UNCHANGED <<machine, saves, boots, announced, ordered, cut>>

\* A full disk: the answer is an error, and the file stays empty.
SaveFails(p) ==
  /\ proc.phase = "up" /\ work[p].step = "write"
  /\ work' = [work EXCEPT ![p] = NoWork]
  /\ cut' = TRUE
  /\ UNCHANGED <<machine, toml, proc, saves, boots, announced, wished, ordered>>

\* api_restart, or a kill; an open page keeps its copy.
ProcessExits ==
  /\ proc.phase # "down"
  /\ proc' = ProcDown
  /\ work' = [p \in Pages |-> IF work[p].step \in {"scan", "write"} THEN NoWork ELSE work[p]]
  /\ cut' = (cut \/ toml.state = "empty")
  /\ UNCHANGED <<machine, toml, saves, boots, announced, wished, ordered>>

SettingsNext ==
  \/ BootLoads \/ BootEnsures \/ BootWrites \/ BootComesUp \/ ProcessExits
  \/ \E p \in Pages : PageGets(p) \/ PagePuts(p) \/ ApplyReads(p) \/ ApplyScans(p) \/ PageSaves(p)
                      \/ SaveFails(p)

SettingsSpec == SettingsInit /\ [][SettingsNext]_settingsVars

-----------------------------------------------------------------------------
(***************************************************************************)
(* Properties                                                              *)
(***************************************************************************)

SettingsTypeOK ==
  /\ machine \in Machines
  /\ toml.state \in {"absent", "empty", "garbled", "whole"}
  /\ proc.phase \in {"down", "create", "ensure", "identity", "start", "up"}
  /\ \A p \in Pages : work[p].step \in {"idle", "open", "scan", "write"}
  /\ saves \in 0 .. MaxSaves /\ boots \in 0 .. MaxBoots /\ announced \subseteq 1 .. MaxBoots

\* device.rs: the UDN is made once and kept, so a TV never sees a second
\* server after a restart.
UdnKept == ordered /\ ~cut => Cardinality(announced) <= 1

\* What a page was told is saved stays in the file over later saves, scans
\* and restarts, unless pages save copies over each other; and the running
\* process speaks the language of the file (api_put: also after the way back
\* to the language of the boot).
EditsKept ==
  ordered /\ ~cut /\ toml.state = "whole" =>
    /\ toml.config.language = wished.language /\ toml.config.hw_accel = wished.hw_accel
    /\ proc.phase = "up" => proc.language = toml.config.language

\* ceka_restart.
AwaitsRestart(c) == {f \in DOMAIN c : c[f] # proc.boot[f]}

\* api_get: nothing waits for a restart until a page saves something, and as
\* long as nothing but the language does, a restart would bring up what runs.
PendingIsTrue ==
  proc.phase = "up" /\ toml.state = "whole" =>
    /\ saves = proc.saves /\ ~cut => AwaitsRestart(toml.config) = {}
    /\ AwaitsRestart(toml.config) \subseteq {"language"} =>
         LET ffmpeg == ResolveTool(machine, toml.config.ffmpeg)
         IN /\ [toml.config EXCEPT !.ffmpeg = ffmpeg, !.language = proc.config.language] = proc.config
            /\ Detect(machine, ffmpeg, toml.config.hw_accel) = proc.hw

\* Every copy that comes with the program lies beside it and starts.
BundleIsSound ==
  \A k \in DOMAIN InBundleDirs : InBundleDirs[k] \notin machine.exists
BundleStarts == BesideProgram \in machine.exists => Starts(machine, BesideProgram)

\* scan.rs: what is written down works, in the ffmpeg the next boot will use;
\* the processor encodes only when it was asked for, when no card can, or when
\* it is faster; nothing that plays on every TV is slower than what was
\* passed over for it, above the threshold of two streams.  This says nothing
\* of what a caller gave itself.
RecommendationSound ==
  \A p \in Pages :
    LET job == work[p]
        probes == job.report
        e == job.config.encoder
        mine == {q \in probes : IsHardware(q.encoder) = IsHardware(e)}
        plain == {q \in mine : ~IsHevc(q.encoder)}
        chosen == {q \in probes : q.encoder = e}
    IN job.step = "write" /\ job.kind = "apply" =>
         /\ IF chosen = {} THEN mine = {} /\ e = "libx264"
            ELSE BundleIsSound /\ BundleStarts =>
                   Encodes(machine, ResolveTool(machine, job.config.ffmpeg), e)
         /\ job.mode = "cpu" => ~IsHardware(e)
         /\ job.mode \in {"gpu", "hybrid"} /\ ~IsHardware(e) => \A q \in probes : ~IsHardware(q.encoder)
         /\ job.mode = "auto" => \A q \in probes, c \in chosen : IsHevc(q.encoder) \/ q.fps <= c.fps
         /\ \A c \in chosen :
              IF \E q \in plain : q.fps >= PRAG
              THEN c \in plain /\ \A q \in plain : q.fps <= c.fps
              ELSE \A q \in mine : q.fps <= c.fps
         /\ ~IsHardware(e) => job.config.threads \in 1 .. Threads

\* The identity, the edits, the list of what waits and the recommended encoder
\* are right, as far as no save was cut off or of a stale copy (settings.rs,
\* transcode.rs, device.rs, scan.rs).
SettingsInv == SettingsTypeOK /\ UdnKept /\ EditsKept /\ PendingIsTrue /\ RecommendationSound

=============================================================================
