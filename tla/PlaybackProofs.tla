--------------------------- MODULE PlaybackProofs ---------------------------
(***************************************************************************)
(* What a TV gets is what it can open and what it was offered, for every   *)
(* set of films, profiles and settings.  The arithmetic of scaling comes   *)
(* first, then the decision and the ffmpeg command as functions, then the  *)
(* steps of Playback: the readings that are held and remembered, what is   *)
(* sent, and the offer it was asked for by.                                *)
(***************************************************************************)
EXTENDS Playback, FiniteSetTheorems, TLAPS

-----------------------------------------------------------------------------
(* Scaling.                                                                *)

\* A quotient stays below a bound that the dividend respects.
LEMMA QuotientBound ==
    ASSUME NEW a \in Nat, NEW b \in Nat, NEW c \in Nat \ {0}, a <= b * c
    PROVE  a \div c \in Nat /\ a \div c <= b
OBVIOUS

\* Rounding to an even number never passes a limit of at least 2.
LEMMA EvenBound ==
    ASSUME NEW n \in Nat, NEW limit \in Nat \ {0, 1}, n <= limit
    PROVE  Even(n) \in Nat /\ Even(n) <= limit
BY DEF Even

\* ciljna_velicina: a picture with a size ends up within the limits.
LEMMA TargetSizeFits ==
    ASSUME NEW width \in Nat \ {0}, NEW height \in Nat \ {0},
           NEW maxWidth \in Nat \ {0}, NEW maxHeight \in Nat \ {0},
           NEW screenWidth \in Nat \ {0, 1}, NEW screenHeight \in Nat \ {0, 1},
           maxWidth <= screenWidth, maxHeight <= screenHeight
    PROVE  /\ TargetSize(width, height, maxWidth, maxHeight).width <= screenWidth
           /\ TargetSize(width, height, maxWidth, maxHeight).height <= screenHeight
<1>1. CASE maxWidth >= width /\ maxHeight >= height
    <2>1. TargetSize(width, height, maxWidth, maxHeight) =
              [width |-> Even(width), height |-> Even(height)]
        BY <1>1 DEF TargetSize
    <2>2. QED
        BY <1>1, <2>1, EvenBound
<1>2. CASE ~(maxWidth >= width /\ maxHeight >= height) /\ maxWidth * height <= maxHeight * width
    <2>1. TargetSize(width, height, maxWidth, maxHeight) =
              [width |-> Even(maxWidth), height |-> Even((height * maxWidth) \div width)]
        BY <1>2 DEF TargetSize
    <2>2. height * maxWidth \in Nat /\ height * maxWidth <= maxHeight * width
        BY <1>2
    <2>3. /\ (height * maxWidth) \div width \in Nat
          /\ (height * maxWidth) \div width <= maxHeight
        BY <2>2, QuotientBound
    <2>4. QED
        BY <2>1, <2>3, EvenBound
<1>3. CASE ~(maxWidth >= width /\ maxHeight >= height) /\ ~(maxWidth * height <= maxHeight * width)
    <2>1. TargetSize(width, height, maxWidth, maxHeight) =
              [width |-> Even((width * maxHeight) \div height), height |-> Even(maxHeight)]
        BY <1>3 DEF TargetSize
    <2>2. width * maxHeight \in Nat /\ width * maxHeight <= maxWidth * height
        BY <1>3
    <2>3. /\ (width * maxHeight) \div height \in Nat
          /\ (width * maxHeight) \div height <= maxWidth
        BY <2>2, QuotientBound
    <2>4. QED
        BY <2>1, <2>3, EvenBound
<1>4. QED
    BY <1>1, <1>2, <1>3

\* The level of the encoder tightens a limit and never loosens it.
LEMMA CappedBound ==
    ASSUME NEW limit \in Nat, NEW cap \in Nat \ {0}
    PROVE  /\ Capped(limit, cap) \in Nat \ {0}
           /\ Capped(limit, cap) <= cap
           /\ limit # 0 => Capped(limit, cap) <= limit
BY DEF Capped, Least

\* The picture that leaves the filters fits the screen, if its height is
\* limited by the target or by the level of the encoder.
LEMMA FilteredFits ==
    ASSUME NEW prof, WellFormedProfile(prof),
           NEW d, NEW e, NEW v \in VideoTracks,
           v.width = 0 <=> v.height = 0,
           d.maxWidth = prof.maxWidth, d.maxHeight \in Nat,
           \/ d.maxHeight \in 1..prof.maxHeight
           \/ prof.maxHeight >= 1080 /\ LevelCapped(e)
    PROVE  FitsVideo(prof, Filtered(v, d, e).width, Filtered(v, d, e).height)
<1>1. v.width \in Nat /\ v.height \in Nat
    BY DEF VideoTracks
<1>2. prof.maxWidth \in Nat \ {0, 1} /\ prof.maxHeight \in Nat \ {0, 1}
    BY DEF WellFormedProfile
<1>3. PICK maxWidth \in Nat \ {0} :
          /\ maxWidth = IF LevelCapped(e) THEN Capped(d.maxWidth, 1920) ELSE d.maxWidth
          /\ maxWidth <= prof.maxWidth
    <2>1. Capped(d.maxWidth, 1920) \in Nat \ {0} /\ Capped(d.maxWidth, 1920) <= prof.maxWidth
        BY <1>2, CappedBound
    <2>2. QED
        BY <1>2, <2>1
<1>4. PICK maxHeight \in Nat \ {0} :
          /\ maxHeight = IF LevelCapped(e) THEN Capped(d.maxHeight, 1080) ELSE d.maxHeight
          /\ maxHeight <= prof.maxHeight
    <2>1. /\ Capped(d.maxHeight, 1080) \in Nat \ {0}
          /\ Capped(d.maxHeight, 1080) <= 1080
          /\ d.maxHeight # 0 => Capped(d.maxHeight, 1080) <= d.maxHeight
        BY CappedBound
    <2>2. CASE LevelCapped(e)
        BY <1>2, <2>1, <2>2
    <2>3. CASE ~LevelCapped(e)
        BY <1>2, <2>3
    <2>4. QED
        BY <2>2, <2>3
<1>5. LET size == TargetSize(v.width, v.height, maxWidth, maxHeight)
      IN  Filtered(v, d, e).width = size.width /\ Filtered(v, d, e).height = size.height
    BY <1>3, <1>4 DEF Filtered
<1>6. LET size == TargetSize(v.width, v.height, maxWidth, maxHeight)
      IN  size.width <= prof.maxWidth /\ size.height <= prof.maxHeight
    <2>1. CASE v.width = 0
        <3>1. TargetSize(v.width, v.height, maxWidth, maxHeight) = [width |-> 0, height |-> 0]
            BY <2>1 DEF TargetSize
        <3>2. QED
            BY <3>1, <1>2
    <2>2. CASE v.width # 0
        <3>1. v.width \in Nat \ {0} /\ v.height \in Nat \ {0}
            BY <1>1, <2>2
        <3>2. /\ maxWidth \in Nat \ {0} /\ maxWidth <= prof.maxWidth
              /\ maxHeight \in Nat \ {0} /\ maxHeight <= prof.maxHeight
            BY <1>3, <1>4
        <3>3. \A w, h \in Nat \ {0} : \A sw, sh \in Nat \ {0, 1} :
                  maxWidth <= sw /\ maxHeight <= sh =>
                      /\ TargetSize(w, h, maxWidth, maxHeight).width <= sw
                      /\ TargetSize(w, h, maxWidth, maxHeight).height <= sh
            BY <3>2, TargetSizeFits
        <3>4. QED
            BY <3>1, <3>2, <3>3, <1>2
    <2>3. QED
        BY <2>1, <2>2
<1>7. QED
    BY <1>5, <1>6 DEF FitsVideo

-----------------------------------------------------------------------------
(* The decision and the command.                                           *)

\* video_encoder and the override of the settings give an encoder of the codec
\* of the target, whatever the hardware.
LEMMA EncoderCodec ==
    ASSUME NEW hw, NEW codec \in {"h264", "hevc"} \cup SoftwareOnly
    PROVE  \A e \in EncoderFor(hw, codec) : e.codec = codec
<1>1. \A family : VideoEncoder(family, codec).codec = codec
    BY DEF VideoEncoder, SoftwareOnly
<1>2. TAKE e \in EncoderFor(hw, codec)
<1>3. \E family : e = VideoEncoder(family, codec)
    BY DEF EncoderFor
<1>4. QED
    BY <1>1, <1>3

\* There is always an encoder.
LEMMA EncoderExists ==
    ASSUME NEW hw, NEW codec
    PROVE  EncoderFor(hw, codec) # {}
BY DEF EncoderFor

\* What a decision leaves alone, the device can do with.
LEMMA ModeLeavesTheSupported ==
    ASSUME NEW media, NEW prof, NEW ext, prof.target.enabled,
           Mode(media, prof, ext).kind # "direct"
    PROVE  /\ Mode(media, prof, ext).kind \in {"remux", "transcode"}
           /\ Mode(media, prof, ext).kind = "remux" =>
                  ~Mode(media, prof, ext).video /\ ~Mode(media, prof, ext).audio
           /\ ~Mode(media, prof, ext).video => VideoSupported(media, prof)
           /\ ~Mode(media, prof, ext).audio => AudioSupported(media, prof)
BY DEF Mode, Direct, Remux, Transcode

\* A direct decision of a device that transcodes for is one it supports.
LEMMA DirectIsSupported ==
    ASSUME NEW media, NEW prof, NEW ext, prof.target.enabled,
           Mode(media, prof, ext).kind = "direct"
    PROVE  VideoSupported(media, prof) /\ AudioSupported(media, prof)
BY DEF Mode, Direct, Remux, Transcode

\* Two readings that leave the same row have the same sound, and their pictures
\* differ in the bit rate at most.
LEMMA SameTracks ==
    ASSUME NEW a \in Media, NEW b \in Media, FromRow(a) = FromRow(b)
    PROVE  /\ a.audio = b.audio
           /\ \A v \in b.video : \E u \in a.video :
                  /\ u.codec = v.codec /\ u.depth = v.depth
                  /\ u.width = v.width /\ u.height = v.height
<1>1. /\ FromRow(a).audio = a.audio /\ FromRow(b).audio = b.audio
      /\ FromRow(a).video = {[u EXCEPT !.kbps = {}] : u \in a.video}
      /\ FromRow(b).video = {[v EXCEPT !.kbps = {}] : v \in b.video}
    BY DEF FromRow, Media
<1>2. \A v \in b.video : \E u \in a.video : [u EXCEPT !.kbps = {}] = [v EXCEPT !.kbps = {}]
    <2>1. TAKE v \in b.video
    <2>2. [v EXCEPT !.kbps = {}] \in {[u EXCEPT !.kbps = {}] : u \in b.video}
        OBVIOUS
    <2>3. [v EXCEPT !.kbps = {}] \in {[u EXCEPT !.kbps = {}] : u \in a.video}
        BY <2>2, <1>1
    <2>4. QED
        BY <2>3
<1>3. \A u, v \in VideoTracks : [u EXCEPT !.kbps = {}] = [v EXCEPT !.kbps = {}]
          => /\ u.codec = v.codec /\ u.depth = v.depth
             /\ u.width = v.width /\ u.height = v.height
    BY DEF VideoTracks
<1>4. a.video \subseteq VideoTracks /\ b.video \subseteq VideoTracks
    BY DEF Media
<1>5. QED
    BY <1>1, <1>2, <1>3, <1>4

\* The profile limits the height of what this encoder makes.
HeightLimitedFor(prof, hw) ==
    \/ \E h \in prof.target.maxHeight : h \in 1..prof.maxHeight
    \/ /\ prof.maxHeight >= 1080
       /\ \A e \in EncoderFor(hw, prof.target.videoCodec) : LevelCapped(e)

\* A decision made from one reading, carried out on the file that gives another
\* reading with the same row, writes something and writes it for the device.
LEMMA StreamIsPlayable ==
    ASSUME NEW prof, WellFormedProfile(prof), SoundTarget(prof),
           NEW hw, HeightLimitedFor(prof, hw), NEW ext,
           NEW known \in Media, NEW file \in Media, FromRow(known) = FromRow(file),
           \A v \in file.video : v.width = 0 <=> v.height = 0,
           ~(/\ ext \in IsoContainers /\ prof.target.container = "mpegts"
             /\ \E v \in file.video : v.codec # "h264"),
           NEW d, d = Decide(known, prof, ext, hw), d.mode.kind # "direct"
    PROVE  /\ Ffmpeg(BuildArgs(d, ext), d, file) # {}
           /\ \A s \in Ffmpeg(BuildArgs(d, ext), d, file) : Playable(prof, s)
<1> DEFINE mode == Mode(known, prof, ext)
           args == BuildArgs(d, ext)
           target == prof.target
<1>1. /\ d.mode = mode /\ d.maxWidth = IF mode.video THEN prof.maxWidth ELSE 0
      /\ d.maxHeight = IF mode.video /\ target.maxHeight # {}
                       THEN CHOOSE h \in target.maxHeight : TRUE ELSE 0
      /\ d.videoEncoder = IF mode.video THEN EncoderFor(hw, target.videoCodec) ELSE {}
      /\ d.audioEncoder = IF mode.audio
                          THEN {[codec |-> target.audioCodec, channels |-> target.channels]}
                          ELSE {}
      /\ d.container = IF mode.kind = "direct" THEN ext ELSE OutputContainer(prof).name
    BY DEF Decide
<1>2. /\ mode.kind \in {"remux", "transcode"}
      /\ mode.kind = "remux" => ~mode.video /\ ~mode.audio
      /\ ~mode.video => VideoSupported(known, prof)
      /\ ~mode.audio => AudioSupported(known, prof)
    BY <1>1, ModeLeavesTheSupported DEF SoundTarget
<1>3. /\ args.video = d.videoEncoder /\ args.audio = d.audioEncoder
      /\ args.annexb => d.container = "mpegts" /\ ext \in IsoContainers
    BY <1>1, <1>2 DEF BuildArgs
<1>4. d.container = "mpegts" => target.container = "mpegts"
    BY <1>1, <1>2 DEF OutputContainer, SoundTarget
<1>5. Ffmpeg(args, d, file) =
          {[container |-> args.muxer,
            video |-> IF args.video = {} THEN {Picture(v) : v \in file.video}
                      ELSE UNION {{Filtered(v, d, e) : e \in args.video} : v \in file.video},
            audio |-> IF args.audio = {} \/ file.audio = {} THEN file.audio
                      ELSE args.audio]}
    BY <1>3, <1>4 DEF Ffmpeg
<1>6. ASSUME NEW v \in file.video, ~mode.video
      PROVE  CanShow(prof, Picture(v))
    <2>1. PICK u \in known.video :
              /\ u.codec = v.codec /\ u.depth = v.depth
              /\ u.width = v.width /\ u.height = v.height
        BY SameTracks
    <2>2. QED
        BY <2>1, <1>2, <1>6 DEF CanShow, Picture, VideoSupported, FitsVideo
<1>7. ASSUME NEW v \in file.video, NEW e \in EncoderFor(hw, target.videoCodec), mode.video
      PROVE  CanShow(prof, Filtered(v, d, e))
    <2>1. e.codec \in prof.videoCodecs
        BY EncoderCodec DEF SoundTarget
    <2>2. v \in VideoTracks
        BY DEF Media
    <2>3. /\ d.maxWidth = prof.maxWidth /\ d.maxHeight \in Nat
          /\ \/ d.maxHeight \in 1..prof.maxHeight
             \/ prof.maxHeight >= 1080 /\ LevelCapped(e)
        <3>1. target.maxHeight \subseteq Nat /\ \A h1, h2 \in target.maxHeight : h1 = h2
            BY DEF WellFormedProfile
        <3>2. target.maxHeight # {} => d.maxHeight \in target.maxHeight
            BY <1>1, <1>7
        <3>3. target.maxHeight = {} => d.maxHeight = 0
            BY <1>1
        <3>4. QED
            BY <1>1, <1>7, <3>1, <3>2, <3>3 DEF HeightLimitedFor
    <2>4. FitsVideo(prof, Filtered(v, d, e).width, Filtered(v, d, e).height)
        BY <2>2, <2>3, FilteredFits
    <2>5. Filtered(v, d, e).codec = e.codec /\ Filtered(v, d, e).depth = 8
        BY DEF Filtered
    <2>6. QED
        BY <2>1, <2>4, <2>5 DEF CanShow
<1>8. ASSUME NEW s \in Ffmpeg(args, d, file), NEW v \in s.video
      PROVE  CanShow(prof, v)
    <2>1. CASE mode.video
        <3>1. args.video = EncoderFor(hw, target.videoCodec) /\ args.video # {}
            BY <2>1, <1>1, <1>3, EncoderExists
        <3>2. PICK w \in file.video, e \in args.video : v = Filtered(w, d, e)
            BY <3>1, <1>5
        <3>3. QED
            BY <2>1, <3>1, <3>2, <1>7
    <2>2. CASE ~mode.video
        <3>1. PICK w \in file.video : v = Picture(w)
            BY <2>2, <1>1, <1>3, <1>5
        <3>2. QED
            BY <2>2, <3>1, <1>6
    <2>3. QED
        BY <2>1, <2>2
<1>9. ASSUME NEW s \in Ffmpeg(args, d, file), NEW a \in s.audio
      PROVE  CanHear(prof, a)
    <2>1. CASE mode.audio
        <3>1. args.audio = {[codec |-> target.audioCodec, channels |-> target.channels]}
            BY <2>1, <1>1, <1>3
        <3>2. s.audio = IF args.audio = {} \/ file.audio = {} THEN file.audio ELSE args.audio
            BY <1>5
        <3>3. args.audio # {} /\ file.audio # {}
            BY <3>1, <3>2
        <3>4. a \in args.audio
            BY <3>2, <3>3
        <3>5. QED
            BY <3>1, <3>4 DEF CanHear, SoundTarget
    <2>2. CASE ~mode.audio
        <3>1. a \in file.audio
            BY <2>2, <1>1, <1>3, <1>5
        <3>2. QED
            BY <2>2, <3>1, <1>2, SameTracks DEF CanHear, AudioSupported
    <2>3. QED
        BY <2>1, <2>2
<1>10. QED
    BY <1>5, <1>8, <1>9 DEF Playable

-----------------------------------------------------------------------------
(* The steps of Playback.                                                  *)

FullHands == [stage : {"read", "forgot", "remember", "write", "decide"},
              film : Films, read : SUBSET Media]
Requests == [for : {"none", "offer", "listed", "stream", "original"}, calm : BOOLEAN,
             hand : FullHands \cup {Idle}]

FilesTyped == disk \in [Films -> Contents] /\ profile \in [TVs -> Profiles]
StoresTyped == cache \in [Films -> SUBSET SUBSET Media] /\ rows \in [Films -> SUBSET Media]
TasksTyped ==
    /\ warmer \in [todo : SUBSET Films, hand : FullHands \cup {Idle}]
    /\ filler \in [todo : SUBSET Films, hand : FullHands \cup {Idle}]
OffersTyped(offers) ==
    /\ DOMAIN offers = TVs
    /\ \A tv \in TVs : \A o \in offers[tv] : \E is, sound : \E film \in Films :
           o = [is |-> is, film |-> film, sound |-> sound]
TVsTyped ==
    /\ request \in [TVs -> Requests]
    /\ OffersTyped(offer)
    /\ answer = [tv \in TVs |-> answer[tv]]

\* Whatever a task, a row or the cache holds of a film is a reading of some
\* file, and whatever a TV was offered is a film.
Typed == FilesTyped /\ StoresTyped /\ TasksTyped /\ TVsTyped

\* The operators on readings give readings.
LEMMA FromRowMedia ==
    \A m \in Media : FromRow(m) \in Media /\ WithoutDepth(m) \in Media
BY DEF FromRow, WithoutDepth, Media, VideoTracks

LEMMA WarmedTyped ==
    ASSUME rows \in [Films -> SUBSET Media], NEW old \in [Films -> SUBSET SUBSET Media]
    PROVE  Warmed(old) \in [Films -> SUBSET SUBSET Media]
<1>1. SUFFICES ASSUME NEW film \in Films
               PROVE  Warmed(old)[film] \in SUBSET SUBSET Media
    BY DEF Warmed
<1> DEFINE usable == {media \in rows[film] : ~Blank(media)}
<1>2. {FromRow(media) : media \in usable} \in SUBSET Media
    BY FromRowMedia
<1>3. QED
    BY <1>2 DEF Warmed

LEMMA ReadFileTyped ==
    ASSUME FilesTyped, NEW film \in Films
    PROVE  ReadFile(film) \in SUBSET Media
BY ContentsAssumption DEF FilesTyped, ReadFile

LEMMA KnownTyped ==
    ASSUME StoresTyped, NEW film \in Films
    PROVE  Known(film) \in SUBSET Media
BY DEF StoresTyped, Known

LEMMA OutdatedTyped ==
    ASSUME OffersTyped(offer), NEW tvs, NEW films
    PROVE  OffersTyped(Outdated(tvs, films))
<1>1. ASSUME NEW tv \in TVs, NEW new \in Outdated(tvs, films)[tv]
      PROVE  \E is, sound : \E film \in Films :
                 new = [is |-> is, film |-> film, sound |-> sound]
    <2>1. PICK o \in offer[tv] :
              new = [o EXCEPT !.sound = @ /\ ~(tv \in tvs /\ o.film \in films)]
        BY DEF Outdated
    <2>2. PICK is, sound : \E film \in Films : o = [is |-> is, film |-> film, sound |-> sound]
        BY DEF OffersTyped
    <2>3. PICK film \in Films : o = [is |-> is, film |-> film, sound |-> sound]
        BY <2>2
    <2>4. new = [is |-> is, film |-> film,
                 sound |-> sound /\ ~(tv \in tvs /\ film \in films)]
        BY <2>1, <2>3
    <2>5. QED
        BY <2>4
<1>2. DOMAIN Outdated(tvs, films) = TVs
    BY DEF Outdated
<1>3. QED
    BY <1>1, <1>2 DEF OffersTyped

\* A start leaves the offers that went out, outdated if the settings changed.
LEMMA RestartOffers ==
    ASSUME Restart
    PROVE  /\ DOMAIN offer' = TVs
           /\ \A tv \in TVs : \/ offer'[tv] = {}
                              \/ config' = config /\ offer'[tv] = offer[tv]
                              \/ offer'[tv] = Outdated(TVs, Films)[tv]
<1> DEFINE got == IF config' = config THEN offer ELSE Outdated(TVs, Films)
<1>1. offer' = [tv \in TVs |-> IF request[tv].for = "listed" THEN {} ELSE got[tv]]
    BY DEF Restart
<1>2. config' = config => got = offer
    OBVIOUS
<1>3. config' # config => got = Outdated(TVs, Films)
    OBVIOUS
<1> HIDE DEF got
<1>4. QED
    BY <1>1, <1>2, <1>3

LEMMA InitTyped ==
    ASSUME Init
    PROVE  Typed
<1>1. FilesTyped
    BY DEF Init, FilesTyped
<1>2. rows \in [Films -> SUBSET Media]
    <2>1. \A c \in Contents : c.media \in SUBSET Media
        BY ContentsAssumption
    <2>2. \A c \in Contents : {WithoutDepth(m) : m \in c.media} \in SUBSET Media
        BY <2>1, FromRowMedia
    <2>3. {{}} \cup {c.media : c \in Contents}
              \cup {{WithoutDepth(m) : m \in c.media} : c \in Contents} \subseteq SUBSET Media
        BY <2>1, <2>2
    <2>4. QED
        BY <2>3 DEF Init
<1>3. cache \in [Films -> SUBSET SUBSET Media]
    BY <1>2, WarmedTyped DEF Init
<1>4. TasksTyped
    BY DEF Init, TasksTyped, NoTask
<1>5. TVsTyped
    BY DEF Init, TVsTyped, NoRequest, Requests, Silence, OffersTyped
<1>6. QED
    BY <1>1, <1>2, <1>3, <1>4, <1>5 DEF Typed, StoresTyped

\* Another file at the path is one of the files there may be.
LEMMA ReplaceTyped ==
    ASSUME Typed, NEW film \in Films, Replace(film)
    PROVE  Typed'
<1>1. FilesTyped'
    BY DEF Typed, FilesTyped, Replace
<1>2. StoresTyped'
    BY DEF Replace, Typed, StoresTyped, vars, stores, tasks
<1>3. TasksTyped'
    BY DEF Replace, Typed, TasksTyped, vars, stores, tasks
<1>4. TVsTyped'
    BY OutdatedTyped DEF Typed, Replace, TVsTyped, Quiet, Silence
<1>5. QED
    BY <1>1, <1>2, <1>3, <1>4 DEF Typed

\* Another profile is one of the profiles there may be.
LEMMA AssignTyped ==
    ASSUME Typed, NEW tv \in TVs, Assign(tv)
    PROVE  Typed'
<1>1. FilesTyped'
    BY DEF Typed, FilesTyped, Assign
<1>2. StoresTyped'
    BY DEF Assign, Typed, StoresTyped, vars, stores, tasks
<1>3. TasksTyped'
    BY DEF Assign, Typed, TasksTyped, vars, stores, tasks
<1>4. TVsTyped'
    BY OutdatedTyped DEF Typed, Assign, TVsTyped, Quiet, Silence
<1>5. QED
    BY <1>1, <1>2, <1>3, <1>4 DEF Typed

\* A start has the rows only, and warms the cache from them.
LEMMA RestartTyped ==
    ASSUME Typed, Restart
    PROVE  Typed'
<1>1. FilesTyped'
    BY DEF Restart, Typed, FilesTyped, vars, stores, tasks
<1>2. StoresTyped'
    BY WarmedTyped DEF Typed, StoresTyped, Restart, Booted
<1>3. TasksTyped'
    BY DEF Restart, Booted, TasksTyped, NoTask
<1>4. OffersTyped(offer)'
    <2>1. OffersTyped(offer) /\ OffersTyped(Outdated(TVs, Films))
        BY OutdatedTyped DEF Typed, TVsTyped
    <2>2. QED
        BY <2>1, RestartOffers DEF OffersTyped
<1>5. TVsTyped'
    BY <1>4 DEF Restart, Requests, NoRequest, TVsTyped, Quiet, Silence
<1>6. QED
    BY <1>1, <1>2, <1>3, <1>5 DEF Typed

\* An empty cache holds readings only.
LEMMA RescanClearsTyped ==
    ASSUME Typed, RescanClears
    PROVE  Typed'
<1>1. FilesTyped'
    BY DEF RescanClears, Typed, FilesTyped, vars, stores, tasks
<1>2. StoresTyped'
    BY DEF Typed, StoresTyped, RescanClears
<1>3. TasksTyped'
    BY DEF RescanClears, Typed, TasksTyped, vars, stores, tasks
<1>4. TVsTyped'
    BY DEF Typed, RescanClears, Disturbed, Requests, TVsTyped, Quiet, Silence
<1>5. QED
    BY <1>1, <1>2, <1>3, <1>4 DEF Typed

\* A row put back into the cache is a reading.
LEMMA RescanWarmsTyped ==
    ASSUME Typed, RescanWarms
    PROVE  Typed'
<1>1. FilesTyped'
    BY DEF RescanWarms, Typed, FilesTyped, vars, stores, tasks
<1>2. StoresTyped'
    BY WarmedTyped DEF Typed, StoresTyped, RescanWarms
<1>3. TasksTyped'
    BY DEF Typed, TasksTyped, RescanWarms, NoTask
<1>4. TVsTyped'
    BY DEF Typed, RescanWarms, Disturbed, Requests, TVsTyped, Quiet, Silence
<1>5. QED
    BY <1>1, <1>2, <1>3, <1>4 DEF Typed

\* ffprobe at the start gives a reading.
LEMMA WarmReadsTyped ==
    ASSUME Typed, NEW film \in Films, WarmReads(film)
    PROVE  Typed'
<1>1. FilesTyped'
    BY DEF WarmReads, Typed, FilesTyped, vars, stores, tasks
<1>2. StoresTyped'
    BY DEF WarmReads, Typed, StoresTyped, vars, stores, tasks
<1>3. TasksTyped'
    BY ReadFileTyped DEF Typed, TasksTyped, WarmReads, Hand, FullHands
<1>4. TVsTyped'
    BY DEF Typed, WarmReads, TVsTyped, Quiet, Silence
<1>5. QED
    BY <1>1, <1>2, <1>3, <1>4 DEF Typed

\* It goes into the cache.
LEMMA WarmRemembersTyped ==
    ASSUME Typed, WarmRemembers
    PROVE  Typed'
<1>1. FilesTyped'
    BY DEF WarmRemembers, Typed, FilesTyped, vars, stores, tasks
<1>2. StoresTyped'
    BY DEF Typed, StoresTyped, TasksTyped, WarmRemembers, FullHands, Idle
<1>3. TasksTyped'
    BY DEF Typed, TasksTyped, WarmRemembers, Hand, FullHands, Idle
<1>4. TVsTyped'
    BY DEF Typed, WarmRemembers, TVsTyped, Quiet, Silence
<1>5. QED
    BY <1>1, <1>2, <1>3, <1>4 DEF Typed

\* What the cache holds goes into the row.
LEMMA WarmWritesTyped ==
    ASSUME Typed, WarmWrites
    PROVE  Typed'
<1>1. FilesTyped'
    BY DEF WarmWrites, Typed, FilesTyped, vars, stores, tasks
<1>2. StoresTyped'
    BY KnownTyped DEF Typed, StoresTyped, TasksTyped, WarmWrites, Written, FullHands, Idle
<1>3. TasksTyped'
    BY DEF Typed, TasksTyped, WarmWrites
<1>4. TVsTyped'
    BY DEF Typed, WarmWrites, TVsTyped, Quiet, Silence
<1>5. QED
    BY <1>1, <1>2, <1>3, <1>4 DEF Typed

\* Forgetting leaves readings only.
LEMMA FillForgetsTyped ==
    ASSUME Typed, NEW film \in Films, FillForgets(film)
    PROVE  Typed'
<1>1. FilesTyped'
    BY DEF FillForgets, Typed, FilesTyped, vars, stores, tasks
<1>2. StoresTyped'
    BY DEF Typed, StoresTyped, FillForgets
<1>3. TasksTyped'
    BY DEF Typed, TasksTyped, FillForgets, Hand, FullHands
<1>4. TVsTyped'
    BY DEF Typed, FillForgets, Disturbed, Requests, TVsTyped, Quiet, Silence
<1>5. QED
    BY <1>1, <1>2, <1>3, <1>4 DEF Typed

\* The backfill takes a reading from ffprobe or from the cache.
LEMMA FillReadsTyped ==
    ASSUME Typed, FillReads
    PROVE  Typed'
<1>1. FilesTyped'
    BY DEF FillReads, Typed, FilesTyped, vars, stores, tasks
<1>2. StoresTyped'
    BY DEF FillReads, Typed, StoresTyped, vars, stores, tasks
<1>3. TasksTyped'
    BY ReadFileTyped, KnownTyped DEF Typed, TasksTyped, FillReads, Hand, FullHands, Idle
<1>4. TVsTyped'
    BY DEF Typed, FillReads, TVsTyped, Quiet, Silence
<1>5. QED
    BY <1>1, <1>2, <1>3, <1>4 DEF Typed

\* It goes into the cache.
LEMMA FillProbedTyped ==
    ASSUME Typed, FillProbed
    PROVE  Typed'
<1>1. FilesTyped'
    BY DEF FillProbed, Typed, FilesTyped, vars, stores, tasks
<1>2. StoresTyped'
    BY DEF Typed, StoresTyped, TasksTyped, FillProbed, FullHands, Idle
<1>3. TasksTyped'
    BY DEF Typed, TasksTyped, FillProbed, Hand, FullHands, Idle
<1>4. TVsTyped'
    BY DEF Typed, FillProbed, Disturbed, Requests, TVsTyped, Quiet, Silence
<1>5. QED
    BY <1>1, <1>2, <1>3, <1>4 DEF Typed

\* So does the one with its languages guessed.
LEMMA FillRemembersTyped ==
    ASSUME Typed, FillRemembers
    PROVE  Typed'
<1>1. FilesTyped'
    BY DEF FillRemembers, Typed, FilesTyped, vars, stores, tasks
<1>2. StoresTyped'
    BY DEF Typed, StoresTyped, TasksTyped, FillRemembers, FullHands, Idle
<1>3. TasksTyped'
    BY DEF Typed, TasksTyped, FillRemembers, FullHands, Idle
<1>4. TVsTyped'
    BY DEF Typed, FillRemembers, Disturbed, Requests, TVsTyped, Quiet, Silence
<1>5. QED
    BY <1>1, <1>2, <1>3, <1>4 DEF Typed

\* And it goes into the row.
LEMMA FillWritesTyped ==
    ASSUME Typed, FillWrites
    PROVE  Typed'
<1>1. FilesTyped'
    BY DEF FillWrites, Typed, FilesTyped, vars, stores, tasks
<1>2. StoresTyped'
    BY DEF Typed, StoresTyped, TasksTyped, FillWrites, Written, FullHands, Idle
<1>3. TasksTyped'
    BY DEF Typed, TasksTyped, FillWrites
<1>4. TVsTyped'
    BY DEF Typed, FillWrites, TVsTyped, Quiet, Silence
<1>5. QED
    BY <1>1, <1>2, <1>3, <1>4 DEF Typed

\* What the handler of a TV holds next is typed.
LEMMA BeginTyped ==
    ASSUME Typed, NEW tv \in TVs, NEW film \in Films,
           NEW purpose \in {"offer", "stream", "original"}, NEW reading,
           Begin(tv, purpose, film, reading)
    PROVE  request' \in [TVs -> Requests]
<1> DEFINE hand == IF reading /\ Unknown(film) THEN Hand("read", film, ReadFile(film))
                   ELSE Hand("decide", film, {})
<1>1. hand \in FullHands
    BY ReadFileTyped DEF Typed, Hand, FullHands
<1>2. [for |-> purpose, calm |-> rescan = "idle", hand |-> hand] \in Requests
    BY <1>1 DEF Requests
<1>3. QED
    BY <1>2 DEF Begin, Typed, TVsTyped

\* Browse holds the film it lists.
LEMMA BrowseTyped ==
    ASSUME Typed, NEW tv \in TVs, NEW film \in Films,
           Browse(tv, film)
    PROVE  Typed'
<1>1. FilesTyped'
    BY DEF Browse, Typed, FilesTyped, vars, stores, tasks
<1>2. StoresTyped'
    BY DEF Browse, Typed, StoresTyped, vars, stores, tasks
<1>3. TasksTyped'
    BY DEF Browse, Typed, TasksTyped, vars, stores, tasks
<1>4. TVsTyped'
    BY BeginTyped DEF Typed, Browse, TVsTyped, Quiet, Silence
<1>5. QED
    BY <1>1, <1>2, <1>3, <1>4 DEF Typed

\* So does Search.
LEMMA SearchTyped ==
    ASSUME Typed, NEW tv \in TVs, NEW film \in Films, Search(tv, film)
    PROVE  Typed'
<1>1. FilesTyped'
    BY DEF Search, Typed, FilesTyped, vars, stores, tasks
<1>2. StoresTyped'
    BY DEF Search, Typed, StoresTyped, vars, stores, tasks
<1>3. TasksTyped'
    BY DEF Search, Typed, TasksTyped, vars, stores, tasks
<1>4. TVsTyped'
    BY BeginTyped DEF Typed, Search, TVsTyped, Quiet, Silence
<1>5. QED
    BY <1>1, <1>2, <1>3, <1>4 DEF Typed

\* And so does the handler of an offered URL.
LEMMA AskTyped ==
    ASSUME Typed, NEW tv \in TVs, Ask(tv)
    PROVE  Typed'
<1>1. FilesTyped' /\ StoresTyped' /\ TasksTyped'
    BY DEF Ask, Typed, FilesTyped, StoresTyped, TasksTyped, stores, tasks
<1>2. PICK o \in offer[tv] :
          Begin(tv, IF o.is.url = "tr" THEN "stream" ELSE "original", o.film, o.is.url = "tr")
    BY DEF Ask
<1>3. o.film \in Films
    BY DEF Typed, TVsTyped, OffersTyped
<1>4. request' \in [TVs -> Requests]
    BY <1>2, <1>3, BeginTyped
<1>5. TVsTyped'
    BY <1>4 DEF Ask, Typed, TVsTyped, Quiet, Silence
<1>6. QED
    BY <1>1, <1>5 DEF Typed

\* What the handler read goes into the cache.
LEMMA RemembersTyped ==
    ASSUME Typed, NEW tv \in TVs, Remembers(tv)
    PROVE  Typed'
<1>1. FilesTyped' /\ TasksTyped'
    BY DEF Remembers, Typed, FilesTyped, TasksTyped, tasks
<1>2. request[tv] \in Requests /\ request[tv].hand \in FullHands
    BY DEF Remembers, Typed, TVsTyped, Requests, Idle
<1>3. StoresTyped'
    BY <1>2 DEF Remembers, Typed, StoresTyped, FullHands
<1>4. Hand("decide", request[tv].hand.film, {}) \in FullHands
    BY <1>2 DEF Hand, FullHands
<1>5. [request[tv] EXCEPT !.hand = Hand("decide", @.film, {})] \in Requests
    BY <1>2, <1>4 DEF Requests
<1>6. TVsTyped'
    BY <1>5 DEF Remembers, Typed, TVsTyped, Quiet, Silence
<1>7. QED
    BY <1>1, <1>3, <1>6 DEF Typed

\* An offer speaks of the film in hand.
LEMMA OfferTyped ==
    ASSUME Typed, NEW tv \in TVs, Offer(tv)
    PROVE  Typed'
<1>1. FilesTyped' /\ StoresTyped' /\ TasksTyped'
    BY DEF Offer, Typed, FilesTyped, StoresTyped, TasksTyped, stores, tasks
<1>2. request[tv].hand.film \in Films
    BY DEF Offer, Typed, TVsTyped, Requests, Idle, FullHands
<1>3. OffersTyped(offer)'
    BY <1>2 DEF Offer, Typed, TVsTyped, OffersTyped
<1>4. [request[tv] EXCEPT !.for = "listed", !.calm = FALSE] \in Requests
    BY DEF Offer, Typed, TVsTyped, Requests
<1>5. TVsTyped'
    BY <1>3, <1>4 DEF Offer, Typed, TVsTyped, Quiet, Silence
<1>6. QED
    BY <1>1, <1>5 DEF Typed

\* The probe for subtitles gives a reading of the film in hand.
LEMMA LooksInsideTyped ==
    ASSUME Typed, NEW tv \in TVs, LooksInside(tv)
    PROVE  Typed'
<1>1. FilesTyped' /\ StoresTyped' /\ TasksTyped'
    BY DEF LooksInside, Typed, FilesTyped, StoresTyped, TasksTyped, stores, tasks
<1>2. request[tv] \in Requests /\ request[tv].hand.film \in Films
    BY DEF LooksInside, Typed, TVsTyped, Requests, Idle, FullHands
<1>3. Hand("read", request[tv].hand.film, ReadFile(request[tv].hand.film)) \in FullHands
    BY <1>2, ReadFileTyped DEF Typed, Hand, FullHands
<1>4. [request[tv] EXCEPT !.hand = Hand("read", @.film, ReadFile(@.film))] \in Requests
    BY <1>2, <1>3 DEF Requests
<1>5. TVsTyped'
    BY <1>4 DEF LooksInside, Typed, TVsTyped, Quiet, Silence
<1>6. QED
    BY <1>1, <1>5 DEF Typed

\* It goes into the cache, and the request ends.
LEMMA ListedTyped ==
    ASSUME Typed, NEW tv \in TVs, Listed(tv)
    PROVE  Typed'
<1>1. FilesTyped' /\ TasksTyped'
    BY DEF Listed, Typed, FilesTyped, TasksTyped, tasks
<1>2. request[tv].hand.stage = "read" => request[tv].hand \in FullHands
    BY DEF Typed, TVsTyped, Requests, Idle
<1>3. StoresTyped'
    BY <1>2 DEF Listed, Typed, StoresTyped, FullHands
<1>4. TVsTyped'
    BY DEF Listed, Typed, TVsTyped, Requests, NoRequest, Quiet, Silence
<1>5. QED
    BY <1>1, <1>3, <1>4 DEF Typed

\* An answer ends the request.
LEMMA AnswerTyped ==
    ASSUME Typed, NEW tv \in TVs, Answer(tv)
    PROVE  Typed'
<1>1. FilesTyped' /\ StoresTyped' /\ TasksTyped'
    BY DEF Answer, Typed, FilesTyped, StoresTyped, TasksTyped, stores, tasks
<1>2. OffersTyped(offer)'
    BY DEF Answer, Typed, TVsTyped, OffersTyped
<1>3. (answer = [x \in TVs |-> answer[x]])'
    BY DEF Answer, Typed, TVsTyped
<1>4. (request \in [TVs -> Requests])'
    BY DEF Answer, Typed, TVsTyped, Requests, NoRequest
<1>5. QED
    BY <1>1, <1>2, <1>3, <1>4 DEF Typed, TVsTyped

\* The setting "av" leaves a decision as it is.
LEMMA AvLeavesDecision ==
    ASSUME NEW media, NEW prof, NEW ext, NEW hw
    PROVE  ApplyWhat("av", Decide(media, prof, ext, hw)) = Decide(media, prof, ext, hw)
<1> DEFINE d == Decide(media, prof, ext, hw)
<1>1. ApplyWhat("av", d) = IF d.mode.kind # "transcode" THEN d ELSE [d EXCEPT !.mode = d.mode]
    BY DEF ApplyWhat
<1>2. [d EXCEPT !.mode = d.mode] = d
    BY DEF Decide
<1>3. QED
    BY <1>1, <1>2

\* Every step keeps the readings readings and the offers offers of films.
LEMMA StepTyped ==
    ASSUME Typed, [Next]_vars
    PROVE  Typed'
<1>1. CASE UNCHANGED vars
    BY <1>1 DEF vars, Typed, FilesTyped, StoresTyped, TasksTyped, TVsTyped, OffersTyped
<1>2. CASE \E film \in Films : Replace(film)
    BY <1>2, ReplaceTyped
<1>3. CASE \E tv \in TVs : Assign(tv)
    BY <1>3, AssignTyped
<1>4. CASE \E tv \in TVs : TVStep(tv)
    BY <1>4, BrowseTyped, SearchTyped, AskTyped, RemembersTyped, OfferTyped, LooksInsideTyped,
              ListedTyped, AnswerTyped
    DEF TVStep
<1>5. CASE Restart \/ RescanClears \/ RescanWarms
    BY <1>5, RestartTyped, RescanClearsTyped, RescanWarmsTyped
<1>6. CASE WarmStep
    BY <1>6, WarmReadsTyped, WarmRemembersTyped, WarmWritesTyped DEF WarmStep
<1>7. CASE FillStep
    BY <1>7, FillForgetsTyped, FillReadsTyped, FillProbedTyped, FillRemembersTyped, FillWritesTyped
    DEF FillStep
<1>8. QED
    BY <1>1, <1>2, <1>3, <1>4, <1>5, <1>6, <1>7 DEF Next

-----------------------------------------------------------------------------
(* What is remembered.                                                     *)

\* The second row of a row is the row.
LEMMA FromRowTwice ==
    \A m \in Media : FromRow(FromRow(m)) = FromRow(m)
<1>1. TAKE m \in Media
<1>2. \A n \in Media :
          FromRow(n) = [video |-> {[v EXCEPT !.kbps = {}] : v \in n.video}, audio |-> n.audio]
    BY DEF FromRow, Media
<1>3. m.video \subseteq VideoTracks
    BY DEF Media
<1>4. \A v \in VideoTracks : [[v EXCEPT !.kbps = {}] EXCEPT !.kbps = {}] = [v EXCEPT !.kbps = {}]
    BY DEF VideoTracks
<1> DEFINE without == {[v EXCEPT !.kbps = {}] : v \in m.video}
<1>5. {[w EXCEPT !.kbps = {}] : w \in without} = without
    <2>1. \A w \in without : [w EXCEPT !.kbps = {}] = w
        BY <1>3, <1>4
    <2> HIDE DEF without
    <2>2. QED
        BY <2>1
<1>6. FromRow(m) \in Media
    BY FromRowMedia
<1>7. FromRow(m).video = without /\ FromRow(m).audio = m.audio
    BY <1>2
<1>8. QED
    BY <1>2, <1>5, <1>6, <1>7

\* A reading tells of one file or of none, and so does its row.
LEMMA ReadingsFacts ==
    \A r \in Readings :
        /\ r \in SUBSET Media
        /\ \A m1, m2 \in r : m1 = m2
        /\ {FromRow(m) : m \in r} \in Readings
<1> DEFINE full == Results \cup {{WithoutDepth(m) : m \in r} : r \in Results}
<1>1. Readings = full \cup {{FromRow(m) : m \in r} : r \in full}
    BY DEF Readings
<1>2. \A r \in Results : r \in SUBSET Media /\ \A m1, m2 \in r : m1 = m2
    BY ContentsAssumption DEF Results
<1>3. \A r \in full : r \in SUBSET Media /\ \A m1, m2 \in r : m1 = m2
    <2>1. ASSUME NEW r \in Results
          PROVE  /\ {WithoutDepth(m) : m \in r} \in SUBSET Media
                 /\ \A m1, m2 \in {WithoutDepth(m) : m \in r} : m1 = m2
        BY <1>2, FromRowMedia
    <2>2. QED
        BY <1>2, <2>1
<1> HIDE DEF full
<1>4. ASSUME NEW r \in full
      PROVE  /\ {FromRow(m) : m \in r} \in SUBSET Media
             /\ \A m1, m2 \in {FromRow(m) : m \in r} : m1 = m2
             /\ {FromRow(n) : n \in {FromRow(m) : m \in r}} = {FromRow(m) : m \in r}
    BY <1>3, FromRowMedia, FromRowTwice
<1>5. QED
    BY <1>1, <1>3, <1>4

\* Nothing read is a reading, and so is what ffprobe tells of a file.
LEMMA FileIsReading ==
    ASSUME FilesTyped, NEW film \in Films
    PROVE  {} \in Readings /\ ReadFile(film) \in Readings /\ disk[film].media \in Readings
BY DEF FilesTyped, ReadFile, Readings, Results

Holds(known) == known = {} \/ \E r \in Readings : known = {r}
AtMostOne(S) == S = {} \/ \E x : S = {x}

CacheReads == \A film \in Films : Holds(cache[film])
RowsRead == rows \in [Films -> Readings]
HandsRead ==
    /\ warmer.hand.read \in Readings /\ filler.hand.read \in Readings
    /\ \A tv \in TVs : request[tv].hand.read \in Readings
RestTyped ==
    /\ config \in Configs /\ rescan \in {"idle", "cleared"}
    /\ restarts \in 0..MaxRestarts /\ settled \subseteq Films
    /\ \A tv \in TVs : AtMostOne(offer[tv]) /\ AtMostOne(answer[tv])

\* Every reading is one that ffprobe or a row can give, and there is at most
\* one for a film in the cache and one offer for a TV.
ReadingsKept == CacheReads /\ RowsRead /\ HandsRead /\ RestTyped

\* What the cache knows of a film is a reading.
LEMMA KnownIsReading ==
    ASSUME FilesTyped, CacheReads, NEW film \in Films
    PROVE  Known(film) \in Readings
<1>1. CASE cache[film] = {}
    BY <1>1, FileIsReading DEF Known
<1>2. CASE cache[film] # {}
    <2>1. PICK r \in Readings : cache[film] = {r}
        BY <1>2 DEF CacheReads, Holds
    <2>2. QED
        BY <2>1 DEF Known
<1>3. QED
    BY <1>1, <1>2

\* A cache warmed from the rows holds readings.
LEMMA WarmedReads ==
    ASSUME RowsRead, NEW old, \A film \in Films : Holds(old[film])
    PROVE  \A film \in Films : Holds(Warmed(old)[film])
<1>1. TAKE film \in Films
<1> DEFINE usable == {media \in rows[film] : ~Blank(media)}
<1>2. Warmed(old)[film] = IF usable = {} THEN old[film] ELSE {{FromRow(media) : media \in usable}}
    BY DEF Warmed
<1>3. rows[film] \in Readings
    BY DEF RowsRead
<1>4. usable # {} => usable = rows[film]
    <2>1. \A m1, m2 \in rows[film] : m1 = m2
        BY <1>3, ReadingsFacts
    <2>2. ASSUME NEW media \in usable
          PROVE  usable = {media} /\ rows[film] = {media}
        BY <2>1
    <2>3. QED
        BY <2>2
<1>5. {FromRow(media) : media \in rows[film]} \in Readings
    BY <1>3, ReadingsFacts
<1>6. QED
    BY <1>2, <1>4, <1>5 DEF Holds

\* Forgetting everything leaves a cache of readings.
LEMMA NothingHolds == \A film \in Films : Holds([other \in Films |-> {}][film])
BY DEF Holds

LEMMA InitReadings ==
    ASSUME Init
    PROVE  ReadingsKept
<1>1. RowsRead
    BY DEF Init, RowsRead, Readings, Results
<1>2. CacheReads
    BY <1>1, WarmedReads, NothingHolds DEF Init, CacheReads
<1>3. {} \in Readings
    BY DEF Readings, Results
<1>4. HandsRead
    BY <1>3 DEF Init, HandsRead, NoTask, Idle, NoRequest
<1>5. RestTyped
    BY PlaybackAssumption DEF Init, RestTyped, Silence, AtMostOne
<1>6. QED
    BY <1>1, <1>2, <1>4, <1>5 DEF ReadingsKept

\* The steps that write the cache write readings.
LEMMA CacheStep ==
    ASSUME Typed, ReadingsKept, [Next]_vars
    PROVE  CacheReads'
<1>1. CacheReads /\ RowsRead /\ HandsRead
    BY DEF ReadingsKept
<1>2. cache \in [Films -> SUBSET SUBSET Media]
    BY DEF Typed, StoresTyped
<1>3. Holds({}) /\ \A r \in Readings : Holds({r})
    BY DEF Holds
<1>4. CASE UNCHANGED cache
    BY <1>1, <1>4 DEF CacheReads
<1>5. CASE Restart
    BY <1>1, <1>5, WarmedReads, NothingHolds DEF Restart, Booted, CacheReads
<1>6. CASE RescanClears
    BY <1>3, <1>6 DEF RescanClears, CacheReads
<1>7. CASE RescanWarms
    BY <1>1, <1>7, WarmedReads DEF RescanWarms, CacheReads
<1>8. CASE WarmRemembers
    BY <1>1, <1>2, <1>3, <1>8 DEF WarmRemembers, CacheReads, HandsRead
<1>9. CASE \E film \in Films : FillForgets(film)
    BY <1>1, <1>2, <1>3, <1>9 DEF FillForgets, CacheReads
<1>10. CASE FillProbed \/ FillRemembers
    BY <1>1, <1>2, <1>3, <1>10 DEF FillProbed, FillRemembers, CacheReads, HandsRead
<1>11. CASE \E tv \in TVs : Remembers(tv) \/ Listed(tv)
    BY <1>1, <1>2, <1>3, <1>11 DEF Remembers, Listed, CacheReads, HandsRead
<1>12. \/ UNCHANGED cache \/ Restart \/ RescanClears \/ RescanWarms \/ WarmRemembers
       \/ (\E film \in Films : FillForgets(film)) \/ FillProbed \/ FillRemembers
       \/ \E tv \in TVs : Remembers(tv) \/ Listed(tv)
    BY DEF Next, vars, Replace, Assign, stores, tasks, TVStep, Browse, Search, Ask, Offer,
           LooksInside, Answer, WarmStep, WarmReads, WarmWrites, FillStep, FillReads, FillWrites
<1>13. QED
    BY <1>4, <1>5, <1>6, <1>7, <1>8, <1>9, <1>10, <1>11, <1>12

\* The two tasks write readings into the rows.
LEMMA RowsStep ==
    ASSUME Typed, ReadingsKept, [Next]_vars
    PROVE  RowsRead'
<1>1. RowsRead /\ HandsRead /\ rows \in [Films -> Readings]
    BY DEF ReadingsKept, RowsRead
<1>2. CASE UNCHANGED rows
    BY <1>1, <1>2 DEF RowsRead
<1>3. CASE WarmWrites
    <2>1. warmer.hand.film \in Films
        BY <1>3 DEF WarmWrites, Typed, TasksTyped, FullHands, Idle
    <2>2. Known(warmer.hand.film) \in Readings
        BY <2>1, KnownIsReading DEF Typed, ReadingsKept
    <2>3. QED
        BY <1>1, <1>3, <2>1, <2>2 DEF WarmWrites, Written, RowsRead
<1>4. CASE FillWrites
    BY <1>1, <1>4 DEF FillWrites, Written, RowsRead, HandsRead
<1>5. UNCHANGED rows \/ WarmWrites \/ FillWrites
    BY DEF Next, vars, Replace, Assign, stores, tasks, Restart, RescanClears, RescanWarms,
           TVStep, Browse, Search, Ask, Remembers, Offer, LooksInside, Listed, Answer,
           WarmStep, WarmReads, WarmRemembers, FillStep, FillForgets, FillReads, FillProbed,
           FillRemembers
<1>6. QED
    BY <1>2, <1>3, <1>4, <1>5

\* What a task takes in hand is a reading.
LEMMA TasksStep ==
    ASSUME Typed, ReadingsKept, [Next]_vars
    PROVE  warmer'.hand.read \in Readings /\ filler'.hand.read \in Readings
<1>1. warmer.hand.read \in Readings /\ filler.hand.read \in Readings
    BY DEF ReadingsKept, HandsRead
<1>2. FilesTyped /\ CacheReads /\ TasksTyped
    BY DEF ReadingsKept, Typed
<1>3. {} \in Readings
    BY DEF Readings, Results
<1>4. CASE UNCHANGED <<warmer, filler>>
    BY <1>1, <1>4
<1>5. CASE Restart \/ RescanWarms
    <2>1. \A todo : [NoTask EXCEPT !.todo = todo].hand.read = {}
        BY DEF NoTask, Idle
    <2>2. CASE Restart
        BY <1>3, <2>1, <2>2 DEF Restart, Booted
    <2>3. CASE RescanWarms
        BY <1>1, <1>3, <2>1, <2>3 DEF RescanWarms
    <2>4. QED
        BY <1>5, <2>2, <2>3
<1>6. CASE \E film \in Films : WarmReads(film)
    BY <1>1, <1>2, <1>3, <1>6, FileIsReading DEF WarmReads, Hand
<1>7. CASE WarmRemembers \/ WarmWrites
    BY <1>1, <1>2, <1>3, <1>7 DEF WarmRemembers, WarmWrites, Hand, Idle, TasksTyped
<1>8. CASE \E film \in Films : FillForgets(film)
    BY <1>1, <1>3, <1>8 DEF FillForgets, Hand
<1>9. CASE FillReads
    <2>1. filler.hand.film \in Films
        BY <1>2, <1>9 DEF FillReads, TasksTyped, FullHands, Idle
    <2>2. ReadFile(filler.hand.film) \in Readings /\ Known(filler.hand.film) \in Readings
        BY <1>2, <2>1, FileIsReading, KnownIsReading
    <2>3. QED
        BY <1>1, <1>2, <1>3, <1>9, <2>2 DEF FillReads, Hand, Idle, TasksTyped
<1>10. CASE FillProbed \/ FillWrites
    BY <1>1, <1>2, <1>3, <1>10 DEF FillProbed, FillWrites, Hand, Idle, TasksTyped
<1>11. CASE FillRemembers
    BY <1>1, <1>2, <1>11 DEF FillRemembers, TasksTyped, FullHands, Idle
<1>12. \/ UNCHANGED <<warmer, filler>> \/ Restart \/ RescanWarms
       \/ (\E film \in Films : WarmReads(film)) \/ WarmRemembers \/ WarmWrites
       \/ (\E film \in Films : FillForgets(film)) \/ FillReads \/ FillProbed \/ FillRemembers
       \/ FillWrites
    BY DEF Next, vars, Replace, Assign, tasks, RescanClears, TVStep, Browse, Search, Ask, Remembers,
           Offer, LooksInside, Listed, Answer, WarmStep, FillStep
<1>13. QED
    BY <1>4, <1>5, <1>6, <1>7, <1>8, <1>9, <1>10, <1>11, <1>12

\* Browse, Search and the handler of a URL take readings in hand.
LEMMA BeginReads ==
    ASSUME Typed, ReadingsKept, NEW tv \in TVs, NEW film \in Films, NEW purpose, NEW reading,
           Begin(tv, purpose, film, reading)
    PROVE  \A other \in TVs : request'[other].hand.read \in Readings
<1>1. request'[tv].hand = IF reading /\ Unknown(film) THEN Hand("read", film, ReadFile(film))
                          ELSE Hand("decide", film, {})
    BY DEF Begin, Typed, TVsTyped
<1>2. request'[tv].hand.read \in Readings
    BY <1>1, FileIsReading DEF Hand, Typed
<1>3. \A other \in TVs \ {tv} : request'[other] = request[other]
    BY DEF Begin, Typed, TVsTyped
<1>4. QED
    BY <1>2, <1>3 DEF ReadingsKept, HandsRead

LEMMA RequestsStep ==
    ASSUME Typed, ReadingsKept, [Next]_vars
    PROVE  \A other \in TVs : request'[other].hand.read \in Readings
<1>1. \A other \in TVs : request[other].hand.read \in Readings
    BY DEF ReadingsKept, HandsRead
<1>2. request \in [TVs -> Requests] /\ {} \in Readings
    BY DEF Typed, TVsTyped, Readings, Results
<1>3. CASE UNCHANGED request
    BY <1>1, <1>3
<1>4. CASE Restart
    BY <1>2, <1>4 DEF Restart, NoRequest, Idle
<1>5. CASE Disturbed
    BY <1>1, <1>2, <1>5 DEF Disturbed, Requests
<1>6. ASSUME NEW tv \in TVs, TVStep(tv)
      PROVE  \A other \in TVs : request'[other].hand.read \in Readings
    <2>1. CASE \E film \in Films : Browse(tv, film) \/ Search(tv, film)
        BY <2>1, BeginReads DEF Browse, Search
    <2>2. CASE Ask(tv)
        <3>1. PICK o \in offer[tv] :
                  Begin(tv, IF o.is.url = "tr" THEN "stream" ELSE "original", o.film, o.is.url = "tr")
            BY <2>2 DEF Ask
        <3>2. o.film \in Films
            BY DEF Typed, TVsTyped, OffersTyped
        <3>3. QED
            BY <3>1, <3>2, BeginReads
    <2>3. CASE Remembers(tv)
        BY <1>1, <1>2, <2>3 DEF Remembers, Hand, Requests
    <2>4. CASE Offer(tv)
        BY <1>1, <1>2, <2>4 DEF Offer, Requests
    <2>5. CASE LooksInside(tv)
        <3>1. request[tv].hand.film \in Films
            BY <1>2, <2>5 DEF LooksInside, Requests, Idle, FullHands
        <3>2. ReadFile(request[tv].hand.film) \in Readings
            BY <3>1, FileIsReading DEF Typed
        <3>3. request'[tv].hand.read = ReadFile(request[tv].hand.film)
            BY <1>2, <2>5 DEF LooksInside, Requests, Hand
        <3>4. \A other \in TVs \ {tv} : request'[other] = request[other]
            BY <1>2, <2>5 DEF LooksInside
        <3>5. QED
            BY <1>1, <3>2, <3>3, <3>4
    <2>6. CASE Listed(tv) \/ Answer(tv)
        <3>1. request' = [request EXCEPT ![tv] = NoRequest]
            BY <2>6 DEF Listed, Answer
        <3>2. NoRequest.hand.read = {}
            BY DEF NoRequest, Idle
        <3>3. QED
            BY <1>1, <1>2, <3>1, <3>2
    <2>7. QED
        BY <1>6, <2>1, <2>2, <2>3, <2>4, <2>5, <2>6 DEF TVStep
<1>7. UNCHANGED request \/ Restart \/ Disturbed \/ \E tv \in TVs : TVStep(tv)
    BY DEF Next, vars, Replace, Assign, RescanClears, RescanWarms,
           WarmStep, WarmReads, WarmRemembers, WarmWrites, FillStep, FillForgets, FillReads,
           FillProbed, FillRemembers, FillWrites
<1>8. QED
    BY <1>3, <1>4, <1>5, <1>6, <1>7

\* A TV has one offer at most, and gets one answer.
LEMMA RestStep ==
    ASSUME Typed, ReadingsKept, [Next]_vars
    PROVE  RestTyped'
<1>1. RestTyped /\ settled \subseteq Films
    BY DEF ReadingsKept, RestTyped
<1>2. DOMAIN offer = TVs /\ answer = [tv \in TVs |-> answer[tv]]
    BY DEF Typed, TVsTyped, OffersTyped
<1>3. ASSUME NEW tvs, NEW films
      PROVE  \A tv \in TVs : AtMostOne(Outdated(tvs, films)[tv])
    <2>1. TAKE tv \in TVs
    <2>2. CASE offer[tv] = {}
        BY <2>2 DEF Outdated, AtMostOne
    <2>3. CASE offer[tv] # {}
        <3>1. PICK o : offer[tv] = {o}
            BY <1>1, <2>3 DEF RestTyped, AtMostOne
        <3>2. QED
            BY <3>1 DEF Outdated, AtMostOne
    <2>4. QED
        BY <2>2, <2>3
<1>4. \A tv \in TVs : AtMostOne(offer'[tv])
    <2>1. CASE UNCHANGED offer
        BY <1>1, <2>1 DEF RestTyped
    <2>2. CASE \E tvs, films : offer' = Outdated(tvs, films)
        BY <1>3, <2>2
    <2>3. CASE Restart
        <3>1. AtMostOne({})
            BY DEF AtMostOne
        <3>2. QED
            BY <1>1, <1>3, <2>3, <3>1, RestartOffers DEF RestTyped
    <2>4. CASE \E tv \in TVs : Offer(tv)
        <3>1. PICK tv \in TVs : \E new : offer' = [offer EXCEPT ![tv] = {new}]
            BY <2>4 DEF Offer
        <3>2. PICK o : offer' = [offer EXCEPT ![tv] = {o}]
            BY <3>1
        <3>3. \A other \in TVs : offer'[other] = offer[other] \/ offer'[other] = {o}
            BY <1>2, <3>2
        <3>4. QED
            BY <1>1, <3>3 DEF RestTyped, AtMostOne
    <2>5. UNCHANGED offer \/ (\E tvs, films : offer' = Outdated(tvs, films))
              \/ Restart \/ \E tv \in TVs : Offer(tv)
        BY DEF Next, vars, Replace, Assign, RescanClears, RescanWarms,
               TVStep, Browse, Search, Ask, Remembers, LooksInside, Listed, Answer,
               WarmStep, WarmReads, WarmRemembers, WarmWrites, FillStep, FillForgets, FillReads,
               FillProbed, FillRemembers, FillWrites
    <2>6. QED
        BY <2>1, <2>2, <2>3, <2>4, <2>5
<1>5. \A tv \in TVs : AtMostOne(answer'[tv])
    <2>1. CASE UNCHANGED answer
        BY <1>1, <2>1 DEF RestTyped
    <2>2. CASE Quiet
        BY <2>2 DEF Quiet, Silence, AtMostOne
    <2>3. CASE \E tv \in TVs : Answer(tv)
        BY <1>1, <1>2, <2>3 DEF Answer, RestTyped, AtMostOne
    <2>4. UNCHANGED answer \/ Quiet \/ \E tv \in TVs : Answer(tv)
        BY DEF Next, vars, Replace, Assign, Restart, RescanClears, RescanWarms,
               TVStep, Browse, Search, Ask, Remembers, Offer, LooksInside, Listed,
               WarmStep, WarmReads, WarmRemembers, WarmWrites, FillStep, FillForgets, FillReads,
               FillProbed, FillRemembers, FillWrites
    <2>5. QED
        BY <2>1, <2>2, <2>3, <2>4
<1>6. (config' \in Configs /\ restarts' \in 0..MaxRestarts) /\ rescan' \in {"idle", "cleared"}
          /\ settled' \subseteq Films
    <2>1. CASE UNCHANGED <<config, restarts, rescan, settled>>
        BY <1>1, <2>1 DEF RestTyped
    <2>2. CASE Restart
        BY <1>1, <2>2, PlaybackAssumption DEF Restart, RestTyped
    <2>3. CASE RescanClears \/ RescanWarms \/ \E film \in Films : Replace(film)
        BY <1>1, <2>3 DEF RescanClears, RescanWarms, Replace, RestTyped, tasks
    <2>4. \/ UNCHANGED <<config, restarts, rescan, settled>>
          \/ Restart \/ RescanClears \/ RescanWarms \/ \E film \in Films : Replace(film)
        BY DEF Next, vars, Assign, tasks,
               TVStep, Browse, Search, Ask, Remembers, Offer, LooksInside, Listed, Answer,
               WarmStep, WarmReads, WarmRemembers, WarmWrites, FillStep, FillForgets, FillReads,
               FillProbed, FillRemembers, FillWrites
    <2>5. QED
        BY <2>1, <2>2, <2>3, <2>4
<1>7. QED
    BY <1>4, <1>5, <1>6 DEF RestTyped

\* Every step leaves readings.
LEMMA StepReadings ==
    ASSUME Typed, ReadingsKept, [Next]_vars
    PROVE  ReadingsKept'
BY CacheStep, RowsStep, TasksStep, RequestsStep, RestStep DEF ReadingsKept, HandsRead

\* The readings are of the types that the runs look at.
LEMMA TypesFollow ==
    ASSUME Typed, ReadingsKept
    PROVE  TypeOK
<1>1. \A S : AtMostOne(S) => Cardinality(S) <= 1
    <2>1. TAKE S
    <2>2. CASE S = {}
        BY <2>2, FS_EmptySet
    <2>3. ASSUME NEW x, S = {x}
          PROVE  Cardinality(S) <= 1
        <3>1. Cardinality({x}) = 1
            BY FS_Singleton
        <3>2. QED
            BY <2>3, <3>1
    <2>4. QED
        BY <2>2, <2>3 DEF AtMostOne
<1>2. \A film \in Films :
          Cardinality(cache[film]) <= 1 /\ \A known \in cache[film] : known \in Readings
    BY <1>1 DEF ReadingsKept, CacheReads, Holds, AtMostOne
<1>3. \A h \in FullHands \cup {Idle} : h.read \in Readings => h \in Hands
    BY DEF FullHands, Idle, Hands
<1>4. /\ warmer \in [todo : SUBSET Films, hand : Hands]
      /\ filler \in [todo : SUBSET Films, hand : Hands]
    BY <1>3 DEF Typed, TasksTyped, ReadingsKept, HandsRead
<1>5. request \in [TVs -> [for : {"none", "offer", "listed", "stream", "original"},
                           calm : BOOLEAN, hand : Hands]]
    <2>1. \A tv \in TVs : request[tv] \in [for : {"none", "offer", "listed", "stream", "original"},
                                           calm : BOOLEAN, hand : Hands]
        BY <1>3 DEF Typed, TVsTyped, Requests, ReadingsKept, HandsRead
    <2>2. QED
        BY <2>1 DEF Typed, TVsTyped
<1>6. \A tv \in TVs : Cardinality(offer[tv]) <= 1 /\ Cardinality(answer[tv]) <= 1
    BY <1>1 DEF ReadingsKept, RestTyped
<1>7. QED
    BY <1>2, <1>4, <1>5, <1>6 DEF TypeOK, ReadingsKept, RowsRead, RestTyped, Typed, FilesTyped

-----------------------------------------------------------------------------
(* What is known of a film that no one replaced.                           *)

\* Whoever holds a reading of the film read it from the file that lies there.
Fresh(hand, film) ==
    hand.film = film /\ hand.stage \in {"read", "remember"} => hand.read = ReadFile(film)

HandsFresh(film) ==
    /\ Fresh(warmer.hand, film) /\ Fresh(filler.hand, film)
    /\ \A tv \in TVs : Fresh(request[tv].hand, film)

\* While the backfill has the film in hand the row is not in the cache, and what
\* it will write is what ffprobe told.
FillerFresh(film) ==
    filler.hand.film = film =>
        /\ Known(film) \subseteq ReadFile(film)
        /\ filler.hand.stage = "write" => filler.hand.read = ReadFile(film)

\* The cache holds what ffprobe tells or the row, and a failure only if ffprobe
\* fails.
CacheFresh(film) ==
    /\ Known(film) \subseteq ReadFile(film) \cup {FromRow(m) : m \in rows[film]}
    /\ ReadFile(film) # {} => {} \notin cache[film]

Held ==
    /\ rescan = "cleared" => filler = NoTask
    /\ \A film \in settled : HandsFresh(film) /\ FillerFresh(film) /\ CacheFresh(film)

\* The cache after a warm-up: the row, or what it held.
LEMMA WarmedKnows ==
    ASSUME RowsRead, NEW old, NEW film \in Films
    PROVE  \/ Warmed(old)[film] = old[film]
           \/ /\ Warmed(old)[film] = {{FromRow(m) : m \in rows[film]}}
              /\ {FromRow(m) : m \in rows[film]} # {}
<1> DEFINE usable == {media \in rows[film] : ~Blank(media)}
<1>1. Warmed(old)[film] = IF usable = {} THEN old[film] ELSE {{FromRow(media) : media \in usable}}
    BY DEF Warmed
<1>2. \A m1, m2 \in rows[film] : m1 = m2
    BY ReadingsFacts DEF RowsRead
<1>3. ASSUME NEW media \in usable
      PROVE  usable = rows[film] /\ {FromRow(m) : m \in rows[film]} # {}
    <2>1. usable = {media} /\ rows[film] = {media}
        BY <1>2
    <2>2. QED
        BY <2>1
<1>4. QED
    BY <1>1, <1>3

LEMMA InitHeld ==
    ASSUME Init
    PROVE  Held
<1>1. RowsRead
    BY InitReadings DEF ReadingsKept
<1>2. ASSUME NEW film \in Films
      PROVE  HandsFresh(film) /\ FillerFresh(film) /\ CacheFresh(film)
    <2>1. film # Nobody
        BY PlaybackAssumption
    <2>2. /\ warmer.hand.film = Nobody /\ filler.hand.film = Nobody
          /\ \A tv \in TVs : request[tv].hand.film = Nobody
        BY DEF Init, NoTask, Idle, NoRequest
    <2>3. \/ cache[film] = {}
          \/ /\ cache[film] = {{FromRow(m) : m \in rows[film]}}
             /\ {FromRow(m) : m \in rows[film]} # {}
        <3>1. cache = Warmed([other \in Films |-> {}])
            BY DEF Init
        <3>2. QED
            BY <1>1, <3>1, WarmedKnows
    <2>4. CacheFresh(film)
        BY <2>3 DEF CacheFresh, Known
    <2>5. QED
        BY <2>1, <2>2, <2>4 DEF HandsFresh, Fresh, FillerFresh
<1>3. QED
    BY <1>2 DEF Held, Init

\* Every step but a start and a rescan.
OtherStep ==
    \/ (\E film \in Films : Replace(film)) \/ RescanWarms \/ WarmStep \/ FillStep
    \/ \E tv \in TVs : Assign(tv) \/ TVStep(tv)

\* They leave alone what lies at the path of a film that stays settled.
LEMMA SettledFilmStays ==
    ASSUME Typed, OtherStep, NEW film \in Films, film \in settled'
    PROVE  film \in settled /\ ReadFile(film)' = ReadFile(film)
<1>1. disk \in [Films -> Contents]
    BY DEF Typed, FilesTyped
<1>2. CASE \E other \in Films : Replace(other)
    BY <1>1, <1>2 DEF Replace, ReadFile
<1>3. UNCHANGED <<disk, config, settled>> \/ \E other \in Films : Replace(other)
    BY DEF OtherStep, RescanWarms, Assign, tasks, TVStep, Browse, Search, Ask, Remembers, Offer, LooksInside, Listed, Answer,
           WarmStep, WarmReads, WarmRemembers, WarmWrites, FillStep, FillForgets, FillReads,
           FillProbed, FillRemembers, FillWrites
<1>4. QED
    BY <1>2, <1>3 DEF ReadFile

\* The warm-up takes a fresh reading in hand or none.
LEMMA WarmerFresh ==
    ASSUME Typed, OtherStep, NEW film \in Films, Fresh(warmer.hand, film)
    PROVE  warmer'.hand.film = film /\ warmer'.hand.stage \in {"read", "remember"} =>
               warmer'.hand.read = ReadFile(film)
<1>1. warmer \in [todo : SUBSET Films, hand : FullHands \cup {Idle}] /\ film # Nobody
    BY PlaybackAssumption DEF Typed, TasksTyped
<1>2. CASE UNCHANGED warmer
    BY <1>2 DEF Fresh
<1>3. CASE \E other \in Films : WarmReads(other)
    BY <1>3 DEF WarmReads, Hand
<1>4. CASE WarmRemembers \/ WarmWrites
    BY <1>1, <1>4 DEF WarmRemembers, WarmWrites, Hand, Idle
<1>5. UNCHANGED warmer \/ (\E other \in Films : WarmReads(other)) \/ WarmRemembers \/ WarmWrites
    BY DEF OtherStep, Replace, RescanWarms, Assign, tasks, TVStep, Browse, Search, Ask, Remembers,
           Offer, LooksInside, Listed, Answer, WarmStep, FillStep, FillForgets, FillReads, FillProbed, FillRemembers,
           FillWrites
<1>6. QED
    BY <1>2, <1>3, <1>4, <1>5

\* A film in the hand of the backfill was there or has just been forgotten, and
\* what the backfill holds of it is what ffprobe tells.
LEMMA FillerSteps ==
    ASSUME Typed, ReadingsKept, OtherStep, NEW film \in Films, Fresh(filler.hand, film), FillerFresh(film),
           filler'.hand.film = film
    PROVE  /\ ~RescanWarms /\ (filler.hand.film = film \/ FillForgets(film))
           /\ filler'.hand.stage \in {"read", "remember", "write"} =>
                  filler'.hand.read = ReadFile(film)
<1>1. filler \in [todo : SUBSET Films, hand : FullHands \cup {Idle}] /\ film # Nobody
    BY PlaybackAssumption DEF Typed, TasksTyped
<1>2. CASE UNCHANGED filler /\ ~RescanWarms
    BY <1>2 DEF Fresh, FillerFresh
<1>3. ~RescanWarms
    <2>1. \A todo : [NoTask EXCEPT !.todo = todo].hand.film = Nobody
        BY DEF NoTask, Idle
    <2>2. QED
        BY <1>1, <2>1 DEF RescanWarms
<1>4. CASE \E other \in Films : FillForgets(other)
    <2>1. PICK other \in Films : FillForgets(other)
        BY <1>4
    <2>2. filler'.hand = Hand("forgot", other, {})
        BY <2>1 DEF FillForgets
    <2>3. QED
        BY <1>3, <2>1, <2>2 DEF Hand
<1>5. CASE FillReads
    <2>1. filler.hand.film = film
        BY <1>1, <1>5 DEF FillReads, Hand, Idle
    <2>2. filler'.hand = IF Unknown(film) THEN Hand("read", film, ReadFile(film))
                         ELSE IF Known(film) = {} THEN Idle
                         ELSE Hand("remember", film, Known(film))
        BY <1>1, <1>5, <2>1 DEF FillReads
    <2>3. Known(film) # {} => Known(film) = ReadFile(film)
        <3>1. Known(film) \subseteq ReadFile(film)
            BY <2>1 DEF FillerFresh
        <3>2. \A m1, m2 \in ReadFile(film) : m1 = m2
            BY FileIsReading, ReadingsFacts DEF Typed
        <3>3. QED
            BY <3>1, <3>2
    <2>4. QED
        BY <1>1, <1>3, <2>1, <2>2, <2>3 DEF Hand, Idle
<1>6. CASE FillProbed \/ FillRemembers \/ FillWrites
    BY <1>1, <1>3, <1>6 DEF FillProbed, FillRemembers, FillWrites, Hand, Idle, Fresh, FullHands
<1>7. \/ UNCHANGED filler \/ (\E other \in Films : FillForgets(other)) \/ FillReads
      \/ FillProbed \/ FillRemembers \/ FillWrites
    BY <1>3 DEF OtherStep, Replace, Assign, tasks, TVStep, Browse, Search, Ask, Remembers,
           Offer, LooksInside, Listed, Answer, WarmStep, WarmReads, WarmRemembers, WarmWrites, FillStep
<1>8. QED
    BY <1>2, <1>3, <1>4, <1>5, <1>6, <1>7

\* A handler takes a fresh reading in hand or none.
LEMMA BeginFresh ==
    ASSUME Typed, NEW tv \in TVs, NEW other \in Films, NEW purpose, NEW reading,
           Begin(tv, purpose, other, reading),
           NEW film \in Films, \A x \in TVs : Fresh(request[x].hand, film)
    PROVE  \A x \in TVs : request'[x].hand.film = film
               /\ request'[x].hand.stage \in {"read", "remember"} =>
                      request'[x].hand.read = ReadFile(film)
<1>1. request'[tv].hand = IF reading /\ Unknown(other) THEN Hand("read", other, ReadFile(other))
                          ELSE Hand("decide", other, {})
    BY DEF Begin, Typed, TVsTyped
<1>2. \A x \in TVs \ {tv} : request'[x] = request[x]
    BY DEF Begin, Typed, TVsTyped
<1>3. request'[tv].hand.film = film /\ request'[tv].hand.stage \in {"read", "remember"} =>
          request'[tv].hand.read = ReadFile(film)
    BY <1>1 DEF Hand
<1>4. QED
    BY <1>2, <1>3 DEF Fresh

LEMMA RequestsFresh ==
    ASSUME Typed, OtherStep, NEW film \in Films, \A x \in TVs : Fresh(request[x].hand, film)
    PROVE  \A x \in TVs : request'[x].hand.film = film
               /\ request'[x].hand.stage \in {"read", "remember"} =>
                      request'[x].hand.read = ReadFile(film)
<1>1. request \in [TVs -> Requests] /\ film # Nobody
    BY PlaybackAssumption DEF Typed, TVsTyped
<1>2. CASE UNCHANGED request
    BY <1>2 DEF Fresh
<1>3. CASE Disturbed
    <2>1. \A x \in TVs : request'[x].hand = request[x].hand
        BY <1>1, <1>3 DEF Disturbed, Requests
    <2>2. QED
        BY <2>1 DEF Fresh
<1>4. ASSUME NEW tv \in TVs, TVStep(tv)
      PROVE  \A x \in TVs : request'[x].hand.film = film
                 /\ request'[x].hand.stage \in {"read", "remember"} =>
                        request'[x].hand.read = ReadFile(film)
    <2>1. CASE \E other \in Films : Browse(tv, other) \/ Search(tv, other)
        BY <2>1, BeginFresh DEF Browse, Search
    <2>2. CASE Ask(tv)
        <3>1. PICK o \in offer[tv] :
                  Begin(tv, IF o.is.url = "tr" THEN "stream" ELSE "original", o.film, o.is.url = "tr")
            BY <2>2 DEF Ask
        <3>2. o.film \in Films
            BY DEF Typed, TVsTyped, OffersTyped
        <3>3. QED
            BY <3>1, <3>2, BeginFresh
    <2>3. CASE Remembers(tv)
        <3>1. \A x \in TVs \ {tv} : request'[x] = request[x]
            BY <1>1, <2>3 DEF Remembers
        <3>2. request'[tv].hand.stage = "decide"
            BY <1>1, <2>3 DEF Remembers, Requests, Hand
        <3>3. QED
            BY <3>1, <3>2 DEF Fresh
    <2>4. CASE Offer(tv)
        <3>1. \A x \in TVs : request'[x].hand = request[x].hand
            BY <1>1, <2>4 DEF Offer, Requests
        <3>2. QED
            BY <3>1 DEF Fresh
    <2>5. CASE LooksInside(tv)
        <3>1. \A x \in TVs \ {tv} : request'[x] = request[x]
            BY <1>1, <2>5 DEF LooksInside
        <3>2. \E other : request'[tv].hand.film = other /\ request'[tv].hand.read = ReadFile(other)
            BY <1>1, <2>5 DEF LooksInside, Requests, Hand
        <3>3. QED
            BY <3>1, <3>2 DEF Fresh
    <2>6. CASE Listed(tv) \/ Answer(tv)
        <3>1. request' = [request EXCEPT ![tv] = NoRequest]
            BY <2>6 DEF Listed, Answer
        <3>2. NoRequest.hand.film = Nobody
            BY DEF NoRequest, Idle
        <3>3. QED
            BY <1>1, <3>1, <3>2 DEF Fresh
    <2>7. QED
        BY <1>4, <2>1, <2>2, <2>3, <2>4, <2>5, <2>6 DEF TVStep
<1>5. UNCHANGED request \/ Disturbed \/ \E tv \in TVs : TVStep(tv)
    BY DEF OtherStep, Replace, RescanWarms, Assign, WarmStep, WarmReads, WarmRemembers, WarmWrites,
           FillStep, FillForgets, FillReads, FillProbed, FillRemembers, FillWrites
<1>6. QED
    BY <1>2, <1>3, <1>4, <1>5

\* What a step puts into the cache for a settled film: nothing, what ffprobe
\* tells, or, after a rescan, its row.
LEMMA CacheSteps ==
    ASSUME Typed, ReadingsKept, OtherStep, NEW film \in Films, HandsFresh(film)
    PROVE  \/ cache'[film] \in {cache[film], {}, {ReadFile(film)}}
           \/ /\ RescanWarms /\ cache'[film] = {{FromRow(m) : m \in rows[film]}}
              /\ {FromRow(m) : m \in rows[film]} # {}
<1>1. cache \in [Films -> SUBSET SUBSET Media]
    BY DEF Typed, StoresTyped
<1>2. /\ warmer.hand \in FullHands \cup {Idle} /\ filler.hand \in FullHands \cup {Idle}
      /\ request \in [TVs -> Requests]
    BY DEF Typed, TasksTyped, TVsTyped
<1>3. CASE UNCHANGED cache
    BY <1>3
<1>4. CASE RescanWarms
    BY <1>4, WarmedKnows DEF RescanWarms, ReadingsKept
<1>5. CASE WarmRemembers
    BY <1>1, <1>2, <1>5 DEF WarmRemembers, HandsFresh, Fresh
<1>6. CASE \E other \in Films : FillForgets(other)
    BY <1>1, <1>6 DEF FillForgets
<1>7. CASE FillProbed \/ FillRemembers
    BY <1>1, <1>2, <1>7 DEF FillProbed, FillRemembers, HandsFresh, Fresh
<1>8. CASE \E tv \in TVs : Remembers(tv) \/ Listed(tv)
    BY <1>1, <1>2, <1>8 DEF Remembers, Listed, HandsFresh, Fresh
<1>9. \/ UNCHANGED cache \/ RescanWarms \/ WarmRemembers \/ (\E other \in Films : FillForgets(other))
      \/ FillProbed \/ FillRemembers \/ \E tv \in TVs : Remembers(tv) \/ Listed(tv)
    BY DEF OtherStep, Replace, Assign, stores, tasks, TVStep, Browse, Search, Ask, Offer,
           LooksInside, Answer,
           WarmStep, WarmReads, WarmWrites, FillStep, FillReads, FillWrites
<1>10. QED
    BY <1>3, <1>4, <1>5, <1>6, <1>7, <1>8, <1>9

\* What a step writes into the row of a settled film: what is known of it, or
\* what ffprobe told while its row was not in the cache.
LEMMA RowsSteps ==
    ASSUME Typed, OtherStep, NEW film \in Films, FillerFresh(film)
    PROVE  \/ rows'[film] = rows[film]
           \/ UNCHANGED cache /\ rows'[film] = Known(film)
           \/ UNCHANGED cache /\ Known(film) \subseteq ReadFile(film)
<1>1. rows \in [Films -> SUBSET Media]
    BY DEF Typed, StoresTyped
<1>2. CASE UNCHANGED rows
    BY <1>2
<1>3. CASE WarmWrites
    BY <1>1, <1>3 DEF WarmWrites, Written
<1>4. CASE FillWrites
    BY <1>1, <1>4 DEF FillWrites, Written, FillerFresh
<1>5. UNCHANGED rows \/ WarmWrites \/ FillWrites
    BY DEF OtherStep, Replace, RescanWarms, Assign, stores, tasks, TVStep, Browse, Search, Ask,
           Remembers, Offer, LooksInside, Listed, Answer, WarmStep, WarmReads, WarmRemembers, FillStep, FillForgets,
           FillReads, FillProbed, FillRemembers
<1>6. QED
    BY <1>2, <1>3, <1>4, <1>5

\* Such a step leaves what is held of a settled film as fresh as it was.
LEMMA OtherStepHeld ==
    ASSUME Typed, ReadingsKept, Held, OtherStep
    PROVE  Held'
<1>1. ASSUME NEW film \in Films, film \in settled'
      PROVE  HandsFresh(film)' /\ FillerFresh(film)' /\ CacheFresh(film)'
    <2>1. film \in settled /\ ReadFile(film)' = ReadFile(film)
        BY <1>1, SettledFilmStays
    <2>2. HandsFresh(film) /\ FillerFresh(film) /\ CacheFresh(film)
        BY <2>1 DEF Held
    <2>3. filler'.hand.film = film =>
              /\ ~RescanWarms /\ (filler.hand.film = film \/ FillForgets(film))
              /\ filler'.hand.stage \in {"read", "remember", "write"} =>
                     filler'.hand.read = ReadFile(film)
        BY <2>2, FillerSteps DEF HandsFresh
    <2>4. HandsFresh(film)'
        <3>1. Fresh(warmer.hand, film)'
            BY <2>1, <2>2, WarmerFresh DEF HandsFresh, Fresh
        <3>2. Fresh(filler.hand, film)'
            BY <2>1, <2>3 DEF Fresh
        <3>3. (\A tv \in TVs : Fresh(request[tv].hand, film))'
            BY <2>1, <2>2, RequestsFresh DEF HandsFresh, Fresh
        <3>4. QED
            BY <3>1, <3>2, <3>3 DEF HandsFresh
    <2>5. \/ cache'[film] \in {cache[film], {}, {ReadFile(film)}}
          \/ /\ RescanWarms /\ cache'[film] = {{FromRow(m) : m \in rows[film]}}
             /\ {FromRow(m) : m \in rows[film]} # {}
        BY <2>2, CacheSteps
    <2>6. \/ Known(film)' = Known(film) \/ Known(film)' \subseteq ReadFile(film)
          \/ RescanWarms /\ Known(film)' = {FromRow(m) : m \in rows[film]}
        <3>1. Known(film)' = UNION cache'[film] /\ Known(film) = UNION cache[film]
            BY DEF Known
        <3>2. \A S : UNION {S} = S
            OBVIOUS
        <3>3. QED
            BY <2>5, <3>1, <3>2
    <2>7. FillerFresh(film)'
        <3>1. SUFFICES ASSUME filler'.hand.film = film
                       PROVE  Known(film)' \subseteq ReadFile(film)
            BY <2>1, <2>3 DEF FillerFresh
        <3>2. CASE filler.hand.film = film
            BY <3>1, <3>2, <2>2, <2>3, <2>6 DEF FillerFresh
        <3>3. CASE FillForgets(film)
            <4>1. cache'[film] = {}
                BY <3>3 DEF FillForgets, Typed, StoresTyped
            <4>2. QED
                BY <4>1 DEF Known
        <3>4. QED
            BY <3>1, <3>2, <3>3, <2>3
    <2>8. ReadFile(film)' # {} => {} \notin cache'[film]
        BY <2>1, <2>2, <2>5 DEF CacheFresh
    <2>9. Known(film)' \subseteq ReadFile(film) \cup {FromRow(m) : m \in rows'[film]}
        <3>1. \/ rows'[film] = rows[film]
              \/ UNCHANGED cache /\ rows'[film] = Known(film)
              \/ UNCHANGED cache /\ Known(film) \subseteq ReadFile(film)
            BY <2>2, RowsSteps
        <3>2. Known(film) \subseteq ReadFile(film) \cup {FromRow(m) : m \in rows[film]}
            BY <2>2 DEF CacheFresh
        <3>3. CASE rows'[film] = rows[film]
            BY <3>2, <3>3, <2>6
        <3>4. CASE UNCHANGED cache /\ rows'[film] = Known(film)
            <4>1. Known(film)' = Known(film)
                BY <3>4 DEF Known
            <4>2. rows[film] \subseteq Media
                BY DEF Typed, StoresTyped
            <4>3. \A m \in rows[film] : FromRow(FromRow(m)) = FromRow(m)
                BY <4>2, FromRowTwice
            <4>4. ASSUME NEW known \in Known(film), known \notin ReadFile(film)
                  PROVE  known \in {FromRow(m) : m \in Known(film)}
                <5>1. PICK m \in rows[film] : known = FromRow(m)
                    BY <4>4, <3>2
                <5>2. FromRow(known) = known
                    BY <5>1, <4>3
                <5>3. QED
                    BY <5>2
            <4>5. QED
                BY <3>4, <4>1, <4>4
        <3>5. CASE UNCHANGED cache /\ Known(film) \subseteq ReadFile(film)
            BY <3>5 DEF Known
        <3>6. QED
            BY <3>1, <3>3, <3>4, <3>5
    <2>10. CacheFresh(film)'
        BY <2>1, <2>8, <2>9 DEF CacheFresh
    <2>11. QED
        BY <2>4, <2>7, <2>10
<1>2. settled' \subseteq Films
    BY StepReadings DEF ReadingsKept, RestTyped, OtherStep, Next
<1>3. rescan' = "cleared" => filler' = NoTask
    <2>1. rescan' = "cleared" => rescan = "cleared" /\ ~RescanWarms
        BY DEF OtherStep, Replace, RescanWarms, Assign, tasks, TVStep, Browse, Search, Ask, Remembers,
               Offer, LooksInside, Listed, Answer, WarmStep, WarmReads, WarmRemembers, WarmWrites, FillStep, FillForgets,
               FillReads, FillProbed, FillRemembers, FillWrites
    <2>2. filler = NoTask /\ ~RescanWarms => UNCHANGED filler
        <3>1. NoTask.todo = {} /\ NoTask.hand.stage = "idle"
            BY DEF NoTask, Idle
        <3>2. filler = NoTask => ~FillStep
            BY <3>1 DEF FillStep, FillForgets, FillReads, FillProbed, FillRemembers, FillWrites
        <3>3. ~FillStep /\ ~RescanWarms => UNCHANGED filler
            BY DEF OtherStep, Replace, Assign, tasks, TVStep, Browse, Search, Ask, Remembers,
                   Offer, LooksInside, Listed, Answer, WarmStep, WarmReads, WarmRemembers, WarmWrites
        <3>4. QED
            BY <3>2, <3>3
    <2>3. QED
        BY <2>1, <2>2 DEF Held
<1>4. QED
    BY <1>1, <1>2, <1>3 DEF Held

\* After a start nothing is known but the rows.
LEMMA RestartHeld ==
    ASSUME ReadingsKept, Restart
    PROVE  Held'
<1>1. \A todo : [NoTask EXCEPT !.todo = todo].hand = Idle
    BY DEF NoTask
<1>2. /\ warmer'.hand = Idle /\ filler'.hand = Idle /\ UNCHANGED rows
      /\ cache' = Warmed([film \in Films |-> {}]) /\ request' = [tv \in TVs |-> NoRequest]
      /\ rescan' = "idle" /\ settled' = Films
    BY <1>1 DEF Restart, Booted
<1>3. ASSUME NEW film \in Films
      PROVE  HandsFresh(film)' /\ FillerFresh(film)' /\ CacheFresh(film)'
    <2>1. film # Nobody /\ Idle.film = Nobody
        BY PlaybackAssumption DEF Idle
    <2>2. HandsFresh(film)' /\ FillerFresh(film)'
        BY <1>2, <2>1 DEF HandsFresh, Fresh, FillerFresh, NoRequest
    <2>3. \/ cache'[film] = {}
          \/ /\ cache'[film] = {{FromRow(m) : m \in rows[film]}}
             /\ {FromRow(m) : m \in rows[film]} # {}
        BY <1>2, WarmedKnows DEF ReadingsKept
    <2>4. CacheFresh(film)'
        BY <1>2, <2>3 DEF CacheFresh, Known
    <2>5. QED
        BY <2>2, <2>4
<1>4. QED
    BY <1>2, <1>3 DEF Held

\* After a rescan has forgotten everything, a film of which no task holds an
\* older reading is settled.
LEMMA RescanClearsHeld ==
    ASSUME Typed, RescanClears
    PROVE  Held'
<1>1. /\ UNCHANGED <<disk, config, rows, warmer, filler>> /\ filler = NoTask
      /\ cache' = [film \in Films |-> {}]
      /\ settled' = {film \in Films : Pending(film) \subseteq {ReadFile(film)}}
      /\ \A tv \in TVs : request'[tv].hand = request[tv].hand
    BY DEF RescanClears, Disturbed, Typed, TVsTyped, Requests
<1>2. ASSUME NEW film \in Films, film \in settled'
      PROVE  HandsFresh(film)' /\ FillerFresh(film)' /\ CacheFresh(film)'
    <2>1. Pending(film) \subseteq {ReadFile(film)} /\ ReadFile(film)' = ReadFile(film)
        BY <1>1, <1>2 DEF ReadFile
    <2>2. \A hand \in {warmer.hand, filler.hand} \cup {request[tv].hand : tv \in TVs} :
              hand.film = film /\ hand.stage \in {"read", "remember"} => hand.read = ReadFile(film)
        BY <2>1 DEF Pending
    <2>3. HandsFresh(film)'
        BY <1>1, <2>1, <2>2 DEF HandsFresh, Fresh
    <2>4. cache'[film] = {} /\ Known(film)' = {}
        BY <1>1 DEF Known
    <2>5. filler'.hand.film # film
        BY <1>1, PlaybackAssumption DEF NoTask, Idle
    <2>6. QED
        BY <2>3, <2>4, <2>5 DEF FillerFresh, CacheFresh
<1>3. QED
    BY <1>1, <1>2 DEF Held

LEMMA StepHeld ==
    ASSUME Typed, ReadingsKept, Held, [Next]_vars
    PROVE  Held'
<1>1. CASE UNCHANGED vars
    BY <1>1 DEF vars, Held, HandsFresh, Fresh, FillerFresh, CacheFresh, Known, ReadFile
<1>2. CASE OtherStep
    BY <1>2, OtherStepHeld
<1>3. QED
    BY <1>1, <1>2, RestartHeld, RescanClearsHeld DEF Next, OtherStep

\* What is held of a settled film is what the runs look at.
LEMMA HeldForgets ==
    ASSUME ReadingsKept, Held
    PROVE  RescanForgets
BY DEF ReadingsKept, RestTyped, Held, CacheFresh, RescanForgets, ReadFile

\* Whatever is replaced, probed, forgotten and completed in whatever order: each
\* reading is one of some file, and of a film that no one replaced since a rescan
\* or a start the cache of MediaProbe tells what ffprobe or the row tells.
THEOREM NothingOlderIsBelieved == Spec => []Inv
<1>1. Init => Typed /\ ReadingsKept /\ Held
    BY InitTyped, InitReadings, InitHeld
<1>2. Typed /\ ReadingsKept /\ Held /\ [Next]_vars => (Typed /\ ReadingsKept /\ Held)'
    BY StepTyped, StepReadings, StepHeld
<1>3. Typed /\ ReadingsKept /\ Held => Inv
    BY TypesFollow, HeldForgets DEF Inv
<1>4. QED
    BY <1>1, <1>2, <1>3, PTL DEF Spec

-----------------------------------------------------------------------------
(* What is sent.                                                           *)

Premise(tv, a) ==
    /\ WellKnown(a.film) /\ config.what = "av"
    /\ SoundTarget(profile[tv]) /\ HeightLimited(profile[tv])
    /\ ~WrongBitstreamFilter(a.film, profile[tv])
Promise(tv, a) ==
    IF a.is.kind = "stream"
    THEN a.is.stream # {} /\ \A s \in a.is.stream : Playable(profile[tv], s)
    ELSE a.asked = "stream" =>
             \A m \in disk[a.film].media : VideoSupported(FromRow(m), profile[tv])

\* The answer that goes out keeps the promise.
LEMMA AnswerKeepsPromise ==
    ASSUME Typed, NEW tv \in TVs, Answer(tv), NEW a \in answer'[tv], Premise(tv, a)
    PROVE  Promise(tv, a)
<1> DEFINE film == request[tv].hand.film
           prof == profile[tv]
           streams == IF request[tv].for = "original" THEN {}
                      ELSE {d \in EngineDecision(film, prof) : d.mode.kind # "direct"}
<1>1. a = [is |-> IF streams = {} THEN Original(film)
                  ELSE Streamed(film, CHOOSE d \in streams : TRUE),
           film |-> film, asked |-> request[tv].for, calm |-> request[tv].calm]
    BY DEF Answer, Typed, TVsTyped
<1>2. film \in Films /\ disk[film] \in Contents /\ prof \in Profiles
    BY DEF Answer, Typed, TVsTyped, Requests, Idle, FullHands, FilesTyped
<1>3. /\ disk[film].media \subseteq Media /\ \A m1, m2 \in disk[film].media : m1 = m2
      /\ \A m \in disk[film].media : \A v \in m.video : v.width = 0 <=> v.height = 0
      /\ WellFormedProfile(prof)
    BY <1>2, ContentsAssumption, CapabilitiesAssumption
<1>4. Known(film) \subseteq Media
    BY <1>2, KnownTyped DEF Typed
<1>5. /\ WellKnown(film) /\ config.what = "av" /\ SoundTarget(prof)
      /\ HeightLimitedFor(prof, config.hw) /\ ~WrongBitstreamFilter(film, prof)
    BY <1>1 DEF Premise, HeightLimited, HeightLimitedFor
<1>6. \A d \in EngineDecision(film, prof) : \E known \in Known(film) :
          d = Decide(known, prof, disk[film].ext, config.hw)
    BY <1>5, AvLeavesDecision DEF EngineDecision
<1>7. CASE streams # {}
    <2>1. PICK d : d \in streams /\ a.is = Streamed(film, d) /\ a.is.kind = "stream"
        BY <1>1, <1>7 DEF Streamed
    <2>2. PICK known \in Known(film) : d = Decide(known, prof, disk[film].ext, config.hw)
        BY <2>1, <1>6
    <2>3. PICK file \in disk[film].media : FromRow(known) = FromRow(file)
        BY <2>2, <1>5 DEF WellKnown
    <2>4. disk[film].media = {file}
        BY <2>3, <1>3
    <2>5. a.is.stream = Ffmpeg(BuildArgs(d, disk[film].ext), d, file)
        BY <2>1, <2>4 DEF Streamed
    <2>6. /\ known \in Media /\ file \in Media /\ d.mode.kind # "direct"
          /\ \A v \in file.video : v.width = 0 <=> v.height = 0
          /\ ~(/\ disk[film].ext \in IsoContainers /\ prof.target.container = "mpegts"
               /\ \E v \in file.video : v.codec # "h264")
        BY <2>1, <2>2, <2>3, <1>3, <1>4, <1>5 DEF WrongBitstreamFilter
    <2>7. /\ Ffmpeg(BuildArgs(d, disk[film].ext), d, file) # {}
          /\ \A s \in Ffmpeg(BuildArgs(d, disk[film].ext), d, file) : Playable(prof, s)
        BY <2>2, <2>3, <2>6, <1>3, <1>5, StreamIsPlayable
    <2>8. QED
        BY <2>1, <2>5, <2>7 DEF Promise
<1>8. CASE streams = {}
    <2>1. a.is.kind = "original" /\ a.film = film /\ a.asked = request[tv].for
        BY <1>1, <1>8 DEF Original
    <2>2. ASSUME request[tv].for = "stream", NEW m \in disk[film].media
          PROVE  VideoSupported(FromRow(m), prof)
        <3>1. PICK known \in Known(film) : FromRow(known) = FromRow(m)
            BY <1>5 DEF WellKnown
        <3>2. Decide(known, prof, disk[film].ext, config.hw) \in EngineDecision(film, prof)
            BY <1>5, AvLeavesDecision DEF EngineDecision
        <3>3. Mode(known, prof, disk[film].ext).kind = "direct"
            BY <3>2, <2>2, <1>8 DEF Decide
        <3>4. VideoSupported(known, prof)
            BY <3>3, <1>5, DirectIsSupported DEF SoundTarget
        <3>5. FromRow(m).video = {[v EXCEPT !.kbps = {}] : v \in m.video}
            BY <1>3 DEF FromRow, Media
        <3>6. ASSUME NEW v \in m.video
              PROVE  /\ v.codec \in prof.videoCodecs
                     /\ FitsVideo(prof, v.width, v.height)
                     /\ v.depth <= 8 \/ v.depth <= prof.maxBitDepth
            <4>1. PICK u \in known.video :
                      /\ u.codec = v.codec /\ u.depth = v.depth
                      /\ u.width = v.width /\ u.height = v.height
                BY <3>1, <1>3, <1>4, SameTracks
            <4>2. QED
                BY <4>1, <3>4 DEF VideoSupported, FitsVideo
        <3>7. m.video \subseteq VideoTracks
            BY <1>3 DEF Media
        <3>8. ASSUME NEW v \in m.video
              PROVE  /\ [v EXCEPT !.kbps = {}].codec = v.codec
                     /\ [v EXCEPT !.kbps = {}].kbps = {}
                     /\ [v EXCEPT !.kbps = {}].depth = v.depth
                     /\ [v EXCEPT !.kbps = {}].width = v.width
                     /\ [v EXCEPT !.kbps = {}].height = v.height
            BY <3>7 DEF VideoTracks
        <3>9. QED
            BY <3>5, <3>6, <3>8 DEF VideoSupported
    <2>3. QED
        BY <2>1, <2>2 DEF Promise
<1>9. QED
    BY <1>7, <1>8

\* As long as the files, the settings, the profiles and the cache are the same,
\* an answer that was good is good.
LEMMA PromiseStable ==
    ASSUME NEW tv, NEW a, UNCHANGED <<disk, config, profile, cache>>
    PROVE  (Premise(tv, a) <=> Premise(tv, a)') /\ (Promise(tv, a) <=> Promise(tv, a)')
BY DEF Premise, Promise, WellKnown, Known, HeightLimited, WrongBitstreamFilter

\* A step that sends nothing leaves nothing to judge.
LEMMA QuietStep ==
    ASSUME Quiet
    PROVE  SentIsPlayable'
BY DEF Quiet, Silence, SentIsPlayable

\* Every step sends what the TV can open.
LEMMA StepPlayable ==
    ASSUME Typed, SentIsPlayable, [Next]_vars
    PROVE  SentIsPlayable'
<1>1. SentIsPlayable <=> \A tv \in TVs : \A a \in answer[tv] : Premise(tv, a) => Promise(tv, a)
    BY DEF SentIsPlayable, Premise, Promise
<1>2. SentIsPlayable' <=>
          \A tv \in TVs : \A a \in answer'[tv] : Premise(tv, a)' => Promise(tv, a)'
    BY DEF SentIsPlayable, Premise, Promise
<1>3. CASE UNCHANGED vars
    BY <1>1, <1>2, <1>3, PromiseStable DEF vars
<1>4. ASSUME NEW tv \in TVs, Answer(tv)
      PROVE  SentIsPlayable'
    <2>1. UNCHANGED <<disk, config, profile, cache>>
        BY <1>4 DEF Answer, stores
    <2>2. \A a \in answer'[tv] : Premise(tv, a)' => Promise(tv, a)'
        BY <2>1, <1>4, PromiseStable, AnswerKeepsPromise
    <2>3. \A other \in TVs \ {tv} : answer'[other] = answer[other]
        BY <1>4 DEF Answer, Typed, TVsTyped
    <2>4. \A other \in TVs \ {tv} : \A a \in answer'[other] :
              Premise(other, a)' => Promise(other, a)'
        BY <2>1, <2>3, <1>1, PromiseStable
    <2>5. QED
        BY <2>2, <2>4, <1>2
<1>5. CASE \E film \in Films : Replace(film)
    BY <1>5, QuietStep DEF Replace
<1>6. CASE \E tv \in TVs : Assign(tv) \/ TVStep(tv)
    BY <1>4, <1>6, QuietStep DEF Assign, TVStep, Browse, Search, Ask, Remembers, Offer,
                                 LooksInside, Listed
<1>7. CASE Restart \/ RescanClears \/ RescanWarms
    BY <1>7, QuietStep DEF Restart, RescanClears, RescanWarms
<1>8. CASE WarmStep \/ FillStep
    BY <1>8, QuietStep DEF WarmStep, WarmReads, WarmRemembers, WarmWrites,
                           FillStep, FillForgets, FillReads, FillProbed, FillRemembers, FillWrites
<1>9. QED
    BY <1>3, <1>5, <1>6, <1>7, <1>8 DEF Next

\* Whatever films, devices and settings there are: with metadata of the file, a
\* target the device can open and a limit on the height, what serve_transcoded
\* sends is what the device can open.
THEOREM SentIsPlayableAlways == Spec => []SentIsPlayable
<1>1. Init => Typed /\ SentIsPlayable
    BY InitTyped DEF Init, Silence, SentIsPlayable
<1>2. Typed /\ SentIsPlayable /\ [Next]_vars => (Typed /\ SentIsPlayable)'
    BY StepTyped, StepPlayable
<1>3. QED
    BY <1>1, <1>2, PTL DEF Spec

-----------------------------------------------------------------------------
(* What is offered is what is sent.                                        *)

\* What may be known of a film: what ffprobe tells of the file that lies there,
\* or its row.
Sources(film) == disk[film].media \cup {FromRow(m) : m \in disk[film].media}

\* The decision from one reading, and the offer.
Choice(known, film, prof) ==
    ApplyWhat(config.what, Decide(known, prof, disk[film].ext, config.hw))
OfferFrom(known, film, prof) ==
    IF ~config.enabled \/ Choice(known, film, prof).mode.kind = "direct"
    THEN OriginalOffer(film) ELSE StreamOffer(Choice(known, film, prof))

\* No picture has a bit rate that the device refuses.
RateAllowed(media, prof) ==
    \A v \in media.video : \A rate \in v.kbps : prof.maxKbps > 0 => rate <= prof.maxKbps

\* Two readings with the same row, neither refused for its bit rate, lead to the
\* same decision.
LEMMA SameRowSameDecision ==
    ASSUME NEW a \in Media, NEW b \in Media, FromRow(a) = FromRow(b),
           NEW prof, RateAllowed(a, prof), RateAllowed(b, prof), NEW ext, NEW hw
    PROVE  Decide(a, prof, ext, hw) = Decide(b, prof, ext, hw)
<1>1. a.audio = b.audio
    BY SameTracks
<1>2. VideoSupported(a, prof) <=> VideoSupported(b, prof)
    <2>1. \A v \in b.video : \E u \in a.video :
              u.codec = v.codec /\ u.depth = v.depth /\ u.width = v.width /\ u.height = v.height
        BY SameTracks
    <2>2. \A v \in a.video : \E u \in b.video :
              u.codec = v.codec /\ u.depth = v.depth /\ u.width = v.width /\ u.height = v.height
        BY SameTracks
    <2>3. VideoSupported(a, prof) => VideoSupported(b, prof)
        BY <2>1 DEF VideoSupported, RateAllowed, FitsVideo
    <2>4. VideoSupported(b, prof) => VideoSupported(a, prof)
        BY <2>2 DEF VideoSupported, RateAllowed, FitsVideo
    <2>5. QED
        BY <2>3, <2>4
<1>3. AudioSupported(a, prof) <=> AudioSupported(b, prof)
    BY <1>1 DEF AudioSupported
<1>4. AudioToo(a, prof) <=> AudioToo(b, prof)
    BY <1>1 DEF AudioToo
<1>5. Mode(a, prof, ext) = Mode(b, prof, ext)
    BY <1>2, <1>3, <1>4 DEF Mode
<1>6. QED
    BY <1>5 DEF Decide

\* So every reading that may be known of a film leads to the same decision, if
\* the one of the file is not refused for its bit rate.
LEMMA OneChoice ==
    ASSUME FilesTyped, NEW film \in Films, NEW prof,
           \A m \in disk[film].media : \A v \in m.video : \A rate \in v.kbps :
               prof.maxKbps = 0 \/ rate <= prof.maxKbps,
           NEW a \in Sources(film), NEW b \in Sources(film)
    PROVE  Choice(a, film, prof) = Choice(b, film, prof)
<1>1. PICK d \in disk[film].media : disk[film].media = {d} /\ d \in Media
    BY ContentsAssumption DEF FilesTyped, Sources
<1>2. Sources(film) = {d, FromRow(d)}
    BY <1>1 DEF Sources
<1>3. FromRow(d) \in Media /\ FromRow(FromRow(d)) = FromRow(d)
    BY <1>1, FromRowMedia, FromRowTwice
<1>4. RateAllowed(d, prof)
    BY <1>1 DEF RateAllowed
<1>5. RateAllowed(FromRow(d), prof)
    <2>1. FromRow(d).video = {[v EXCEPT !.kbps = {}] : v \in d.video} /\ d.video \subseteq VideoTracks
        BY <1>1 DEF FromRow, Media
    <2>2. \A v \in VideoTracks : [v EXCEPT !.kbps = {}].kbps = {}
        BY DEF VideoTracks
    <2>3. QED
        BY <2>1, <2>2 DEF RateAllowed
<1>6. Decide(d, prof, disk[film].ext, config.hw) = Decide(FromRow(d), prof, disk[film].ext, config.hw)
    BY <1>1, <1>3, <1>4, <1>5, SameRowSameDecision
<1>7. QED
    BY <1>2, <1>6 DEF Choice

\* resolve, when one reading is known.
LEMMA ResolveFromOne ==
    ASSUME NEW film, NEW prof, NEW known, Known(film) = {known}
    PROVE  Resolve(film, prof) = OfferFrom(known, film, prof)
<1>1. EngineDecision(film, prof) = {Choice(known, film, prof)}
    BY DEF EngineDecision, Choice
<1> DEFINE streams == {d \in EngineDecision(film, prof) : d.mode.kind # "direct"}
<1>2. Resolve(film, prof) = IF ~config.enabled \/ streams = {} THEN OriginalOffer(film)
                            ELSE StreamOffer(CHOOSE d \in streams : TRUE)
    BY DEF Resolve
<1>3. CASE Choice(known, film, prof).mode.kind = "direct"
    BY <1>1, <1>2, <1>3 DEF OfferFrom
<1>4. CASE Choice(known, film, prof).mode.kind # "direct"
    <2>1. streams = {Choice(known, film, prof)}
        BY <1>1, <1>4
    <2>2. (CHOOSE d \in streams : TRUE) = Choice(known, film, prof)
        BY <2>1
    <2>3. QED
        BY <1>2, <1>4, <2>1, <2>2 DEF OfferFrom
<1>5. QED
    BY <1>3, <1>4

\* An offer that is sound is the one of some reading of the file.
OffersTrue ==
    \A tv \in TVs : \A o \in offer[tv] :
        o.sound => \E known \in Sources(o.film) : o.is = OfferFrom(known, o.film, profile[tv])

\* The handler of a URL serves the offer of its TV, and one of a stream that was
\* not disturbed finds the film in the cache.
RequestsTrue ==
    \A tv \in TVs :
        /\ request[tv].for \in {"stream", "original"} =>
               \A o \in offer[tv] : /\ o.film = request[tv].hand.film
                                    /\ request[tv].for = "stream" <=> o.is.url = "tr"
        /\ /\ request[tv].for = "stream" /\ request[tv].calm
           /\ request[tv].hand.stage = "decide"
           => cache[request[tv].hand.film] # {}

\* An offer outlives what does not change its file, its profile or the settings.
LEMMA OffersLast ==
    ASSUME OffersTrue, NEW tv \in TVs, NEW o \in offer[tv], o.sound,
           disk'[o.film] = disk[o.film], config' = config, profile'[tv] = profile[tv]
    PROVE  (\E known \in Sources(o.film) : o.is = OfferFrom(known, o.film, profile[tv]))'
<1>1. PICK known \in Sources(o.film) : o.is = OfferFrom(known, o.film, profile[tv])
    BY DEF OffersTrue
<1>2. known \in Sources(o.film)'
    BY DEF Sources
<1>3. (o.is = OfferFrom(known, o.film, profile[tv]))'
    BY <1>1 DEF OfferFrom, Choice, OriginalOffer, StreamOffer
<1>4. QED
    BY <1>2, <1>3

\* What becomes of an offer that may no longer hold.
LEMMA OutdatedOffers ==
    ASSUME OffersTyped(offer), NEW tvs, NEW films, NEW tv \in TVs,
           NEW new \in Outdated(tvs, films)[tv]
    PROVE  \E o \in offer[tv] :
               /\ new.is = o.is /\ new.film = o.film
               /\ new.sound => o.sound /\ ~(tv \in tvs /\ o.film \in films)
<1>1. PICK o \in offer[tv] : new = [o EXCEPT !.sound = @ /\ ~(tv \in tvs /\ o.film \in films)]
    BY DEF Outdated
<1>2. PICK is, sound : \E film \in Films : o = [is |-> is, film |-> film, sound |-> sound]
    BY DEF OffersTyped
<1>3. PICK film \in Films : o = [is |-> is, film |-> film, sound |-> sound]
    BY <1>2
<1>4. new = [is |-> is, film |-> film, sound |-> sound /\ ~(tv \in tvs /\ film \in films)]
    BY <1>1, <1>3
<1>5. QED
    BY <1>3, <1>4

LEMMA OfferedFilms ==
    ASSUME Typed, NEW tv \in TVs, NEW o \in offer[tv]
    PROVE  o.film \in Films
BY DEF Typed, TVsTyped, OffersTyped

\* An offer that is made is the one of what is known of the film.
LEMMA OfferIsTrue ==
    ASSUME Typed, ReadingsKept, OffersTrue, NEW tv \in TVs, Offer(tv)
    PROVE  OffersTrue'
<1>1. PICK film \in Films : film = request[tv].hand.film
    BY DEF Offer, Typed, TVsTyped, Requests, Idle, FullHands
<1>2. /\ offer' = [offer EXCEPT ![tv] =
              {[is |-> Resolve(film, profile[tv]), film |-> film, sound |-> ReadFromIt(film)]}]
      /\ UNCHANGED <<disk, config, profile>>
    BY <1>1 DEF Offer
<1>3. ASSUME ReadFromIt(film)
      PROVE  \E known \in Sources(film) : Resolve(film, profile[tv]) = OfferFrom(known, film, profile[tv])
    <2>1. PICK known \in Known(film) : known \in Sources(film)
        BY <1>3 DEF ReadFromIt, Sources
    <2>2. \A m1, m2 \in Known(film) : m1 = m2
        BY <1>1, KnownIsReading, ReadingsFacts DEF Typed, ReadingsKept
    <2>3. Known(film) = {known}
        BY <2>1, <2>2
    <2>4. QED
        BY <2>1, <2>3, ResolveFromOne
<1>4. ASSUME NEW other \in TVs, NEW o \in offer'[other], o.sound
      PROVE  (\E known \in Sources(o.film) : o.is = OfferFrom(known, o.film, profile[other]))'
    <2>1. CASE other = tv
        <3>1. o = [is |-> Resolve(film, profile[tv]), film |-> film, sound |-> ReadFromIt(film)]
            BY <1>2, <2>1 DEF Typed, TVsTyped, OffersTyped
        <3>2. PICK known \in Sources(film) : o.is = OfferFrom(known, film, profile[tv])
            BY <1>3, <1>4, <3>1
        <3>3. known \in Sources(film)' /\ (o.is = OfferFrom(known, film, profile[tv]))'
            BY <1>2, <3>2 DEF Sources, OfferFrom, Choice, OriginalOffer, StreamOffer
        <3>4. QED
            BY <2>1, <3>1, <3>3
    <2>2. CASE other # tv
        <3>1. o \in offer[other]
            BY <1>2, <2>2 DEF Typed, TVsTyped, OffersTyped
        <3>2. QED
            BY <1>2, <1>4, <3>1, OffersLast
    <2>3. QED
        BY <2>1, <2>2
<1>5. QED
    BY <1>4 DEF OffersTrue

\* No step makes a sound offer untrue.
LEMMA OffersStep ==
    ASSUME Typed, ReadingsKept, OffersTrue, [Next]_vars
    PROVE  OffersTrue'
<1>1. OffersTyped(offer) /\ disk \in [Films -> Contents] /\ profile \in [TVs -> Profiles]
    BY DEF Typed, TVsTyped, FilesTyped
<1>2. CASE UNCHANGED <<disk, config, profile, offer>>
    BY <1>2, OffersLast DEF OffersTrue
<1>3. ASSUME NEW tvs, NEW films, offer' = Outdated(tvs, films),
             \A film \in Films : \A tv \in TVs :
                 ~(tv \in tvs /\ film \in films) =>
                     disk'[film] = disk[film] /\ config' = config /\ profile'[tv] = profile[tv]
      PROVE  OffersTrue'
    <2>1. ASSUME NEW tv \in TVs, NEW new \in offer'[tv], new.sound
          PROVE  (\E known \in Sources(new.film) : new.is = OfferFrom(known, new.film, profile[tv]))'
        <3>1. PICK o \in offer[tv] :
                  /\ new.is = o.is /\ new.film = o.film
                  /\ new.sound => o.sound /\ ~(tv \in tvs /\ o.film \in films)
            BY <1>1, <1>3, <2>1, OutdatedOffers
        <3>2. disk'[o.film] = disk[o.film] /\ config' = config /\ profile'[tv] = profile[tv]
            BY <1>3, <2>1, <3>1, OfferedFilms
        <3>3. (\E known \in Sources(o.film) : o.is = OfferFrom(known, o.film, profile[tv]))'
            BY <2>1, <3>1, <3>2, OffersLast
        <3>4. QED
            BY <3>1, <3>3
    <2>2. QED
        BY <2>1 DEF OffersTrue
<1>4. CASE \E film \in Films : Replace(film)
    <2>1. PICK film \in Films : Replace(film)
        BY <1>4
    <2>2. /\ offer' = Outdated(TVs, {film}) /\ UNCHANGED <<config, profile>>
          /\ \A other \in Films : other # film => disk'[other] = disk[other]
        BY <1>1, <2>1 DEF Replace
    <2>3. QED
        BY <1>3, <2>2
<1>5. CASE \E tv \in TVs : Assign(tv)
    <2>1. PICK tv \in TVs : Assign(tv)
        BY <1>5
    <2>2. /\ offer' = Outdated({tv}, Films) /\ UNCHANGED <<disk, config>>
          /\ \A other \in TVs : other # tv => profile'[other] = profile[other]
        BY <1>1, <2>1 DEF Assign
    <2>3. QED
        BY <1>3, <2>2
<1>6. CASE Restart
    <2>1. UNCHANGED <<disk, profile>>
        BY <1>6 DEF Restart
    <2>2. ASSUME NEW tv \in TVs, NEW o \in offer'[tv], o.sound
          PROVE  (\E known \in Sources(o.film) : o.is = OfferFrom(known, o.film, profile[tv]))'
        <3>1. (config' = config /\ offer'[tv] = offer[tv]) \/ o \in Outdated(TVs, Films)[tv]
            BY <1>6, <2>2, RestartOffers
        <3>2. o \notin Outdated(TVs, Films)[tv]
            BY <1>1, <2>2, OutdatedOffers, OfferedFilms
        <3>3. config' = config /\ o \in offer[tv]
            BY <2>2, <3>1, <3>2
        <3>4. QED
            BY <2>1, <2>2, <3>3, OffersLast
    <2>3. QED
        BY <2>2 DEF OffersTrue
<1>7. CASE \E tv \in TVs : Offer(tv)
    BY <1>7, OfferIsTrue
<1>8. \/ UNCHANGED <<disk, config, profile, offer>> \/ Restart \/ (\E film \in Films : Replace(film))
      \/ \E tv \in TVs : Assign(tv) \/ Offer(tv)
    BY DEF Next, vars, RescanClears, RescanWarms, TVStep, Browse, Search, Ask, Remembers,
           LooksInside, Listed, Answer,
           WarmStep, WarmReads, WarmRemembers, WarmWrites, FillStep, FillForgets, FillReads,
           FillProbed, FillRemembers, FillWrites
<1>9. QED
    BY <1>2, <1>4, <1>5, <1>6, <1>7, <1>8

\* Begin serves the offer it was given and, for a stream, finds the film in the
\* cache or probes.
LEMMA BeginTrue ==
    ASSUME Typed, RequestsTrue, NEW tv \in TVs, NEW film \in Films, NEW purpose, NEW reading,
           Begin(tv, purpose, film, reading), UNCHANGED <<cache, offer>>,
           purpose = "stream" => reading,
           purpose \in {"stream", "original"} =>
               \A o \in offer[tv] : o.film = film /\ (purpose = "stream" <=> o.is.url = "tr")
    PROVE  RequestsTrue'
<1>1. /\ request'[tv].for = purpose
      /\ request'[tv].hand = IF reading /\ Unknown(film) THEN Hand("read", film, ReadFile(film))
                             ELSE Hand("decide", film, {})
      /\ \A other \in TVs \ {tv} : request'[other] = request[other]
    BY DEF Begin, Typed, TVsTyped
<1>2. /\ request'[tv].hand.film = film
      /\ purpose = "stream" /\ request'[tv].hand.stage = "decide" => cache[film] # {}
    BY <1>1 DEF Hand, Unknown
<1>3. QED
    BY <1>1, <1>2 DEF RequestsTrue

\* A step of no TV leaves the offers what they are about, and one that empties
\* a part of the cache disturbs the requests.
LEMMA OthersLeaveRequests ==
    ASSUME Typed, ReadingsKept, RequestsTrue,
           \/ UNCHANGED request
              /\ \A film \in Films : cache[film] # {} => cache'[film] # {}
           \/ Disturbed,
           UNCHANGED offer \/ \E tvs, films : offer' = Outdated(tvs, films)
    PROVE  RequestsTrue'
<1>1. request \in [TVs -> Requests] /\ OffersTyped(offer)
    BY DEF Typed, TVsTyped
<1>2. ASSUME NEW tv \in TVs, NEW new \in offer'[tv]
      PROVE  \E o \in offer[tv] : new.is = o.is /\ new.film = o.film
    BY <1>1, <1>2, OutdatedOffers
<1>3. ASSUME NEW tv \in TVs
      PROVE  /\ request'[tv].for = request[tv].for /\ request'[tv].hand = request[tv].hand
             /\ \/ request'[tv].calm = request[tv].calm
                   /\ \A film \in Films : cache[film] # {} => cache'[film] # {}
                \/ request'[tv].for = "stream" => ~request'[tv].calm
    <2>1. CASE Disturbed
        BY <1>1, <2>1 DEF Disturbed, Requests
    <2>2. CASE UNCHANGED request /\ \A film \in Films : cache[film] # {} => cache'[film] # {}
        BY <2>2
    <2>3. QED
        BY <2>1, <2>2
<1>4. \A tv \in TVs : request[tv].hand.stage = "decide" => request[tv].hand.film \in Films
    BY <1>1 DEF Requests, FullHands, Idle
<1>5. ASSUME NEW tv \in TVs, request'[tv].for \in {"stream", "original"}, NEW new \in offer'[tv]
      PROVE  new.film = request'[tv].hand.film /\ (request'[tv].for = "stream" <=> new.is.url = "tr")
    BY <1>2, <1>3, <1>5 DEF RequestsTrue
<1>6. ASSUME NEW tv \in TVs, request'[tv].for = "stream", request'[tv].calm,
             request'[tv].hand.stage = "decide"
      PROVE  cache'[request'[tv].hand.film] # {}
    BY <1>3, <1>4, <1>6 DEF RequestsTrue
<1>7. QED
    BY <1>5, <1>6 DEF RequestsTrue

\* What no one forgets stays in the cache.
LEMMA CacheGrows ==
    ASSUME Typed, [Next]_vars, ~Restart, ~Disturbed
    PROVE  \A film \in Films : cache[film] # {} => cache'[film] # {}
<1>1. cache \in [Films -> SUBSET SUBSET Media]
    BY DEF Typed, StoresTyped
<1>2. CASE UNCHANGED cache
    BY <1>2
<1>3. CASE WarmRemembers \/ \E tv \in TVs : Remembers(tv) \/ Listed(tv)
    BY <1>1, <1>3 DEF WarmRemembers, Remembers, Listed
<1>4. UNCHANGED cache \/ WarmRemembers \/ \E tv \in TVs : Remembers(tv) \/ Listed(tv)
    BY DEF Next, vars, Replace, Assign, RescanClears, RescanWarms, stores, tasks, TVStep, Browse, Search, Ask,
           Offer, LooksInside, Answer, WarmStep, WarmReads, WarmWrites, FillStep, FillForgets,
           FillReads, FillProbed, FillRemembers, FillWrites
<1>5. QED
    BY <1>2, <1>3, <1>4

\* The steps of a TV keep its request true to its offer.
LEMMA TVRequestsTrue ==
    ASSUME Typed, ReadingsKept, RequestsTrue, NEW tv \in TVs, TVStep(tv)
    PROVE  RequestsTrue'
<1>1. request \in [TVs -> Requests] /\ DOMAIN offer = TVs
    BY DEF Typed, TVsTyped, OffersTyped
<1>2. CASE \E film \in Films : Browse(tv, film) \/ Search(tv, film)
    BY <1>2, BeginTrue DEF Browse, Search, stores
<1>3. CASE Ask(tv)
    <2>1. PICK o \in offer[tv] :
              Begin(tv, IF o.is.url = "tr" THEN "stream" ELSE "original", o.film, o.is.url = "tr")
        BY <1>3 DEF Ask
    <2>2. offer[tv] = {o}
        BY DEF ReadingsKept, RestTyped, AtMostOne
    <2>3. o.film \in Films
        BY OfferedFilms
    <2>4. UNCHANGED <<cache, offer>>
        BY <1>3 DEF Ask, stores
    <2>5. QED
        <3>1. CASE o.is.url = "tr"
            <4>1. Begin(tv, "stream", o.film, TRUE)
                BY <2>1, <3>1
            <4>2. QED
                BY <2>2, <2>3, <2>4, <3>1, <4>1, BeginTrue
        <3>2. CASE o.is.url # "tr"
            <4>1. Begin(tv, "original", o.film, FALSE)
                BY <2>1, <3>2
            <4>2. \A x \in offer[tv] : x.film = o.film /\ ("original" = "stream" <=> x.is.url = "tr")
                BY <2>2, <3>2
            <4>3. "original" = "stream" => FALSE
                OBVIOUS
            <4>4. QED
                BY <2>3, <2>4, <4>1, <4>2, <4>3, BeginTrue
        <3>3. QED
            BY <3>1, <3>2
<1>4. CASE Remembers(tv)
    <2>1. request[tv].hand.film \in Films
        BY <1>1, <1>4 DEF Remembers, Requests, FullHands, Idle
    <2>2. /\ UNCHANGED offer /\ \A other \in TVs \ {tv} : request'[other] = request[other]
          /\ request'[tv].for = request[tv].for /\ request'[tv].hand.film = request[tv].hand.film
          /\ cache'[request[tv].hand.film] # {}
          /\ \A film \in Films : cache[film] # {} => cache'[film] # {}
        BY <1>1, <1>4, <2>1 DEF Remembers, Requests, Hand, Typed, StoresTyped
    <2>3. \A other \in TVs : request[other].hand.stage = "decide" => request[other].hand.film \in Films
        BY <1>1 DEF Requests, FullHands, Idle
    <2>4. QED
        BY <2>2, <2>3 DEF RequestsTrue
<1>5. CASE Offer(tv) \/ LooksInside(tv) \/ Listed(tv) \/ Answer(tv)
    <2>1. request'[tv].for \in {"listed", "none"}
        BY <1>1, <1>5 DEF Offer, LooksInside, Listed, Answer, Requests, NoRequest
    <2>2. \A other \in TVs \ {tv} : request'[other] = request[other] /\ offer'[other] = offer[other]
        BY <1>1, <1>5 DEF Offer, LooksInside, Listed, Answer
    <2>3. \A film \in Films : cache[film] # {} => cache'[film] # {}
        BY <1>5 DEF Offer, LooksInside, Listed, Answer, stores, Typed, StoresTyped
    <2>4. \A other \in TVs : request[other].hand.stage = "decide" => request[other].hand.film \in Films
        BY <1>1 DEF Requests, FullHands, Idle
    <2>5. QED
        BY <2>1, <2>2, <2>3, <2>4 DEF RequestsTrue
<1>6. QED
    BY <1>2, <1>3, <1>4, <1>5 DEF TVStep

LEMMA RequestsTrueStep ==
    ASSUME Typed, ReadingsKept, RequestsTrue, [Next]_vars
    PROVE  RequestsTrue'
<1>1. CASE Restart
    BY <1>1 DEF Restart, RequestsTrue, NoRequest
<1>2. CASE \E tv \in TVs : TVStep(tv)
    BY <1>2, TVRequestsTrue
<1>3. CASE ~Restart /\ ~\E tv \in TVs : TVStep(tv)
    <2>1. UNCHANGED offer \/ \E tvs, films : offer' = Outdated(tvs, films)
        BY <1>3 DEF Next, vars, Replace, Assign, RescanClears, RescanWarms,
               WarmStep, WarmReads, WarmRemembers, WarmWrites, FillStep, FillForgets, FillReads,
               FillProbed, FillRemembers, FillWrites
    <2>2. UNCHANGED request \/ Disturbed
        BY <1>3 DEF Next, vars, Replace, Assign, RescanClears, RescanWarms,
               WarmStep, WarmReads, WarmRemembers, WarmWrites, FillStep, FillForgets, FillReads,
               FillProbed, FillRemembers, FillWrites
    <2>3. QED
        BY <1>3, <2>1, <2>2, CacheGrows, OthersLeaveRequests
<1>4. QED
    BY <1>1, <1>2, <1>3

-----------------------------------------------------------------------------
(* The answer.                                                             *)

KeptPremise(tv, a, o) ==
    /\ o.sound /\ a.calm /\ a.film = o.film
    /\ o.film \in settled /\ RowTells(o.film, profile[tv])
KeptPromise(a, o) ==
    /\ a.is.mime = o.is.mime /\ a.is.pn = o.is.pn
    /\ (a.is.kind = "stream") = (o.is.url = "tr")

\* What is known of a settled film whose row is that of the file comes from the
\* file, and something is known if ffprobe tells something.
LEMMA SettledIsKnown ==
    ASSUME Typed, ReadingsKept, Held, NEW film \in Films, film \in settled, NEW prof,
           RowTells(film, prof), disk[film].media # {}, cache[film] # {}, config.probing
    PROVE  \E known \in Sources(film) : Known(film) = {known}
<1>1. CacheFresh(film) /\ ReadFile(film) = disk[film].media
    BY DEF Held, ReadFile
<1>2. PICK r : cache[film] = {r} /\ Known(film) = r /\ r # {}
    <2>1. PICK r \in Readings : cache[film] = {r}
        BY DEF ReadingsKept, CacheReads, Holds
    <2>2. QED
        BY <1>1, <2>1 DEF CacheFresh, Known
<1>3. PICK known \in r : TRUE
    BY <1>2
<1>4. Known(film) = {known}
    <2>1. \A m1, m2 \in Known(film) : m1 = m2
        BY KnownIsReading, ReadingsFacts DEF Typed, ReadingsKept
    <2>2. QED
        BY <1>2, <1>3, <2>1
<1>5. known \in disk[film].media \/ \E m \in rows[film] : known = FromRow(m)
    BY <1>1, <1>2, <1>3 DEF CacheFresh
<1>6. \A m \in rows[film] : FromRow(m) \in {FromRow(c) : c \in disk[film].media}
    BY DEF RowTells
<1>7. known \in Sources(film)
    BY <1>5, <1>6 DEF Sources
<1>8. QED
    BY <1>4, <1>7

\* The answer that goes out is the offer.
LEMMA AnswerIsOffer ==
    ASSUME Typed, ReadingsKept, Held, OffersTrue, RequestsTrue, NEW tv \in TVs, Answer(tv),
           NEW a \in answer'[tv], NEW o \in offer[tv], KeptPremise(tv, a, o)
    PROVE  KeptPromise(a, o)
<1>1. PICK film : film = request[tv].hand.film
    OBVIOUS
<1> DEFINE prof == profile[tv]
           streams == IF request[tv].for = "original" THEN {}
                      ELSE {d \in EngineDecision(film, prof) : d.mode.kind # "direct"}
<1>2. a = [is |-> IF streams = {} THEN Original(film)
                  ELSE Streamed(film, CHOOSE d \in streams : TRUE),
           film |-> film, asked |-> request[tv].for, calm |-> request[tv].calm]
    BY <1>1 DEF Answer, Typed, TVsTyped
<1>3. film \in Films /\ request[tv].for \in {"stream", "original"}
      /\ request[tv].hand.stage = "decide"
    BY <1>1 DEF Answer, Typed, TVsTyped, Requests, Idle, FullHands
<1>4. /\ o.sound /\ request[tv].calm /\ o.film = film /\ film \in settled /\ RowTells(film, prof)
      /\ request[tv].for = "stream" <=> o.is.url = "tr"
    BY <1>1, <1>2, <1>3 DEF KeptPremise, RequestsTrue
<1>5. PICK source \in Sources(film) : o.is = OfferFrom(source, film, prof)
    BY <1>4 DEF OffersTrue
<1> DEFINE choice == Choice(source, film, prof)
<1>6. OriginalOffer(film).url = "res" /\ StreamOffer(choice).url = "tr"
    BY DEF OriginalOffer, StreamOffer
<1>7. CASE request[tv].for = "original"
    <2>1. o.is = OriginalOffer(film)
        BY <1>4, <1>5, <1>6, <1>7 DEF OfferFrom
    <2>2. a.is = Original(film)
        BY <1>2, <1>7
    <2>3. QED
        BY <2>1, <2>2 DEF OriginalOffer, Original, KeptPromise
<1>8. CASE request[tv].for = "stream"
    <2>1. config.enabled /\ choice.mode.kind # "direct" /\ o.is = StreamOffer(choice)
        BY <1>4, <1>5, <1>6, <1>8 DEF OfferFrom
    <2>2. config.probing /\ disk[film].media # {} /\ cache[film] # {}
        <3>1. config.probing
            BY <2>1, ConfigsAssumption DEF ReadingsKept, RestTyped
        <3>2. disk[film].media # {}
            BY <1>5 DEF Sources
        <3>3. cache[film] # {}
            BY <1>1, <1>3, <1>4, <1>8 DEF RequestsTrue
        <3>4. QED
            BY <3>1, <3>2, <3>3
    <2>3. PICK known \in Sources(film) : Known(film) = {known}
        BY <1>3, <1>4, <2>2, SettledIsKnown
    <2>4. Choice(known, film, prof) = choice
        BY <1>3, <1>4, OneChoice DEF RowTells, Typed
    <2>5. EngineDecision(film, prof) = {choice}
        BY <2>3, <2>4 DEF EngineDecision, Choice
    <2> HIDE DEF choice
    <2>6. streams = {choice} /\ (CHOOSE d \in streams : TRUE) = choice
        BY <2>1, <2>5, <1>8
    <2>7. a.is = Streamed(film, choice)
        BY <1>2, <2>6
    <2>8. QED
        BY <2>1, <2>7 DEF Streamed, StreamOffer, KeptPromise
<1>9. QED
    BY <1>3, <1>7, <1>8

\* Every step answers what was offered.
LEMMA StepKeepsOffer ==
    ASSUME Typed, ReadingsKept, Held, OffersTrue, RequestsTrue, OfferKept, [Next]_vars
    PROVE  OfferKept'
<1>1. OfferKept <=> \A tv \in TVs : \A a \in answer[tv] : \A o \in offer[tv] :
                        KeptPremise(tv, a, o) => KeptPromise(a, o)
    BY DEF OfferKept, KeptPremise, KeptPromise
<1>2. OfferKept' <=> \A tv \in TVs : \A a \in answer'[tv] : \A o \in offer'[tv] :
                         KeptPremise(tv, a, o)' => KeptPromise(a, o)
    BY DEF OfferKept, KeptPremise, KeptPromise
<1>3. ASSUME UNCHANGED <<disk, profile, rows, settled>>
      PROVE  \A tv, a, o : KeptPremise(tv, a, o)' <=> KeptPremise(tv, a, o)
    BY <1>3 DEF KeptPremise, RowTells
<1>4. CASE UNCHANGED vars
    BY <1>1, <1>2, <1>3, <1>4 DEF vars
<1>5. CASE Quiet
    BY <1>2, <1>5 DEF Quiet, Silence
<1>6. ASSUME NEW tv \in TVs, Answer(tv)
      PROVE  OfferKept'
    <2>1. UNCHANGED <<disk, profile, rows, settled, offer>>
        BY <1>6 DEF Answer, stores
    <2>2. \A other \in TVs \ {tv} : answer'[other] = answer[other]
        BY <1>6 DEF Answer, Typed, TVsTyped
    <2>3. \A a \in answer'[tv] : \A o \in offer'[tv] : KeptPremise(tv, a, o)' => KeptPromise(a, o)
        BY <1>3, <1>6, <2>1, AnswerIsOffer
    <2>4. \A other \in TVs \ {tv} : \A a \in answer'[other] : \A o \in offer'[other] :
              KeptPremise(other, a, o)' => KeptPromise(a, o)
        BY <1>1, <1>3, <2>1, <2>2
    <2>5. QED
        BY <1>2, <2>3, <2>4
<1>7. UNCHANGED vars \/ Quiet \/ \E tv \in TVs : Answer(tv)
    BY DEF Next, Replace, Assign, Restart, RescanClears, RescanWarms,
           TVStep, Browse, Search, Ask, Remembers, Offer, LooksInside, Listed,
           WarmStep, WarmReads, WarmRemembers, WarmWrites, FillStep, FillForgets, FillReads,
           FillProbed, FillRemembers, FillWrites
<1>8. QED
    BY <1>4, <1>5, <1>6, <1>7

\* Whatever films, devices and settings there are, and whatever the tasks, a
\* rescan or a restart did to the cache between the two: what Browse or Search
\* offers is what serve_transcoded and the handler of the original send, as
\* OfferKept says.
THEOREM OfferKeptAlways == Spec => []OfferKept
<1>1. Init => Typed /\ ReadingsKept /\ Held /\ OffersTrue /\ RequestsTrue /\ OfferKept
    <2>1. Init => OffersTrue /\ RequestsTrue /\ OfferKept
        BY DEF Init, Silence, NoRequest, OffersTrue, RequestsTrue, OfferKept
    <2>2. QED
        BY <2>1, InitTyped, InitReadings, InitHeld
<1>2. Typed /\ ReadingsKept /\ Held /\ OffersTrue /\ RequestsTrue /\ OfferKept /\ [Next]_vars
      => (Typed /\ ReadingsKept /\ Held /\ OffersTrue /\ RequestsTrue /\ OfferKept)'
    BY StepTyped, StepReadings, StepHeld, OffersStep, RequestsTrueStep, StepKeepsOffer
<1>3. QED
    BY <1>1, <1>2, PTL DEF Spec

=============================================================================
