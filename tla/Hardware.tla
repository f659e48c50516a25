------------------------------ MODULE Hardware ------------------------------
(***************************************************************************)
(* What the machine can encode with: the measurement behind the settings   *)
(* page (rustiio-transcode/src/scan.rs), the detection at boot             *)
(* (hwaccel.rs) and where the tools are (rustiio-core/src/tools.rs).       *)
(*                                                                         *)
(* A machine is a record                                                   *)
(*   exists      the paths at which there is a file                        *)
(*   same        the path a path is a link to, for those that are links    *)
(*   encoders    for every ffmpeg that starts the encoders it works with;  *)
(*               the bare name stands for what PATH finds                  *)
(*   lists       the encoders its builds of ffmpeg name, in their order,   *)
(*               working or not                                            *)
(*   renderNode  is there a /dev/dri/renderD128                            *)
(* and speeds are frames per second, measured by each scan anew.           *)
(***************************************************************************)
EXTENDS Integers, Sequences

CONSTANTS
  BesideProgram,  \* the path of a tool in the folder of the program
  InBundleDirs,   \* its paths in the other BUNDLE_DIRS
  OnPath,         \* its paths in the folders of PATH, then the usual places
  Threads         \* threads of the processor

ASSUME HardwareAssumption ==
  InBundleDirs \in Seq(STRING) /\ OnPath \in Seq(STRING) /\ Threads \in Nat \ {0}

KANDIDATI ==
  {"h264_nvenc", "hevc_nvenc", "h264_qsv", "h264_vaapi", "h264_videotoolbox", "h264_amf",
   "libx264", "libx265", "hevc_vaapi"}

AUTO_ORDER == <<"nvenc", "qsv", "vaapi", "videotoolbox", "amf">>

Spellings ==
  [none |-> {"none", "off", "software", "softver"}, nvenc |-> {"nvenc", "nvidia"},
   vaapi |-> {"vaapi"}, qsv |-> {"qsv", "quicksync"},
   videotoolbox |-> {"videotoolbox", "vtb", "apple"}, amf |-> {"amf", "amd"}]

\* HwAccel::parse, as a set of at most one.
ParseAccel(value) == {h \in DOMAIN Spellings : value \in Spellings[h]}

Family ==
  [nvenc |-> {"h264_nvenc", "hevc_nvenc"}, vaapi |-> {"h264_vaapi", "hevc_vaapi"},
   qsv |-> {"h264_qsv"}, videotoolbox |-> {"h264_videotoolbox"}, amf |-> {"h264_amf"}]

IsHardware(encoder) == \E h \in DOMAIN Family : encoder \in Family[h]
IsHevc(encoder) == encoder \in {"hevc_nvenc", "hevc_vaapi", "libx265"}

\* The encoder test_encoder tries for a family.
H264Of ==
  [nvenc |-> "h264_nvenc", qsv |-> "h264_qsv", vaapi |-> "h264_vaapi",
   videotoolbox |-> "h264_videotoolbox", amf |-> "h264_amf"]

FirstOf(S) == CHOOSE i \in S : \A j \in S : i <= j

Starts(m, path) == path \in DOMAIN m.encoders

\* Does a test encoding succeed?
Encodes(m, ffmpeg, encoder) ==
  /\ Starts(m, ffmpeg)
  /\ encoder \in m.encoders[ffmpeg]
  /\ encoder \in Family.vaapi => m.renderNode

-----------------------------------------------------------------------------
(***************************************************************************)
(* tools.rs: the copy that comes with the program wins over PATH, a path   *)
(* that somebody entered wins over both.                                   *)
(***************************************************************************)
ResolveTool(m, configured) ==
  LET places == <<BesideProgram>> \o InBundleDirs
      bundled == {i \in DOMAIN places : places[i] \in m.exists}
  IN IF configured # "ffmpeg" \/ bundled = {} THEN configured ELSE places[FirstOf(bundled)]

\* hwaccel.rs: detect.
Detect(m, ffmpeg, requested) ==
  LET candidates == IF ~Starts(m, ffmpeg) \/ "none" \in ParseAccel(requested) THEN <<>>
                    ELSE SelectSeq(AUTO_ORDER, LAMBDA h : ParseAccel(requested) \in {{}, {h}})
      available == SelectSeq(candidates, LAMBDA h : Encodes(m, ffmpeg, H264Of[h]))
      asked == requested \in {"auto", ""} \/ ParseAccel(requested) # {}
  IN [available |-> {available[i] : i \in DOMAIN available},
      preferred |-> IF asked /\ available # <<>> THEN Head(available) ELSE "none"]

-----------------------------------------------------------------------------
(***************************************************************************)
(* scan.rs                                                                 *)
(***************************************************************************)

Canonical(m, path) == IF path \in DOMAIN m.same THEN m.same[path] ELSE path

\* tool_candidates: each file once, in the order of the places; those beside
\* the program and in the settings are shown also when they are missing.
ToolPlaces(configured) == <<BesideProgram, configured>> \o OnPath
ToolCandidates(m, configured) ==
  LET places == ToolPlaces(configured)
      shown(i) == i <= 2 \/ places[i] \in m.exists
      again(i) == \E j \in 1 .. i - 1 : shown(j) /\ Canonical(m, places[j]) = Canonical(m, places[i])
  IN {i \in DOMAIN places : shown(i) /\ ~again(i)}

BestTool(m, configured) ==
  LET places == ToolPlaces(configured)
      work == {i \in ToolCandidates(m, configured) : Starts(m, places[i])}
  IN IF work = {} THEN "ffmpeg" ELSE places[FirstOf(work)]

\* encoder_list, measure_encoders: the candidates that this ffmpeg names and
\* that pass, with their place in its list and the speed of this measurement.
Measured(m, ffmpeg, speed) ==
  {[encoder |-> m.lists[i], fps |-> speed[m.lists[i]], nth |-> i] :
      i \in {k \in DOMAIN m.lists : m.lists[k] \in KANDIDATI /\ Encodes(m, ffmpeg, m.lists[k])}}

\* max_by: the last of the fastest, as a set of at most one.
Fastest(probes) ==
  {p \in probes : \A q \in probes : q.fps < p.fps \/ (q.fps = p.fps /\ q.nth <= p.nth)}

\* Two streams in 1080p.
PRAG == 60

Grupa(probes, hardver) == {p \in probes : IsHardware(p.encoder) = hardver}

\* As sets of at most one.
NajboljiOfAll(probes, hardver) == Fastest(Grupa(probes, hardver))
Najbolji(probes, hardver) ==
  LET grupa == Grupa(probes, hardver)
      h264 == {p \in Fastest({q \in grupa : ~IsHevc(q.encoder)}) : p.fps >= PRAG}
  IN IF h264 # {} THEN h264 ELSE Fastest(grupa)

AtLeast(low, n) == IF n < low THEN low ELSE n

Recommend(ffmpeg, probes, mode) ==
  LET softver == Najbolji(probes, FALSE)
      hardver == Najbolji(probes, TRUE)
      faster == \A hw \in hardver, sw \in softver : hw.fps >= sw.fps
      odabran == IF hardver # {} /\ (mode \in {"gpu", "hybrid"} \/ (mode = "auto" /\ faster))
                 THEN hardver ELSE softver
      encoder == IF odabran = {} THEN "libx264" ELSE (CHOOSE p \in odabran : TRUE).encoder
  IN [ffmpeg |-> ffmpeg, encoder |-> encoder,
      mode |-> IF mode # "auto" /\ (mode # "gpu" \/ hardver # {}) THEN mode
               ELSE IF IsHardware(encoder) THEN "gpu" ELSE "cpu",
      threads |-> IF IsHardware(encoder) THEN 0 ELSE AtLeast(1, (Threads * 3) \div 4),
      max_concurrent |-> IF IsHardware(encoder) THEN 2 ELSE AtLeast(1, Threads \div 4)]

=============================================================================
