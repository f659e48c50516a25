------------------------------ MODULE Decision ------------------------------
(***************************************************************************)
(* The decision engine (rustiio-transcode/src/decision.rs), the ffmpeg     *)
(* command built from its answer (ffmpeg.rs, hwaccel.rs) and what ffmpeg   *)
(* makes of that command: direct play, remux or transcode.                 *)
(*                                                                         *)
(* An optional value is a set of at most one element; a limit that the     *)
(* code takes for absent when it is 0 is the number 0.  Containers and     *)
(* codecs are names in one spelling.  An encoder name such as `h264_nvenc` *)
(* is the record of its codec and its family; `libx264` is h264 in         *)
(* software.  Left out: the reasons (text), bit rates of the output,       *)
(* threads, hardware decoding and burnt-in subtitles, none of which        *)
(* changes whether the device opens the stream.                            *)
(*                                                                         *)
(*   media    a member of Media with at most one track of a kind; kbps is  *)
(*            optional, depth 0 means that ffprobe's pix_fmt and profile   *)
(*            are not known                                                *)
(*   profile  the capabilities of a device and, in target, its             *)
(*            [transcode] section                                          *)
(*   hw       [preferred |-> family, encoder |-> optional encoder]         *)
(***************************************************************************)
EXTENDS Integers

\* MediaInfo, VideoStream, AudioStream.
VideoTracks == [codec : STRING, width : Nat, height : Nat, kbps : SUBSET Nat, depth : Nat]
AudioTracks == [codec : STRING, channels : Nat]
Media == [video : SUBSET VideoTracks, audio : SUBSET AudioTracks]

\* A screen of at least 2x2, the smallest picture that is ever scaled to, and
\* at most one height in the target.
WellFormedProfile(profile) ==
    /\ profile.maxWidth \in Nat \ {0, 1} /\ profile.maxHeight \in Nat \ {0, 1}
    /\ profile.target.maxHeight \subseteq Nat
    /\ \A h1, h2 \in profile.target.maxHeight : h1 = h2

InSoftware == "software"
Least(a, b) == IF a <= b THEN a ELSE b

Direct == [kind |-> "direct", video |-> FALSE, audio |-> FALSE]
Remux == [kind |-> "remux", video |-> FALSE, audio |-> FALSE]
Transcode(video, audio) == [kind |-> "transcode", video |-> video, audio |-> audio]

-----------------------------------------------------------------------------
(* What the device can do with the file as it is.                          *)

FitsVideo(profile, width, height) ==
    width <= profile.maxWidth /\ height <= profile.maxHeight

\* The bit rate rule is skipped when either side is unknown; an 8-bit picture
\* and one of unknown depth are the same to bit_depth().
VideoSupported(media, profile) ==
    \A v \in media.video :
        /\ v.codec \in profile.videoCodecs
        /\ FitsVideo(profile, v.width, v.height)
        /\ \A rate \in v.kbps : profile.maxKbps > 0 => rate <= profile.maxKbps
        /\ v.depth <= 8 \/ v.depth <= profile.maxBitDepth

AudioSupported(media, profile) ==
    \A a \in media.audio :
        a.codec \in profile.audioCodecs /\ a.channels <= profile.maxChannels

\* Beside a re-encoded picture AC-3 in MPEG-TS is always encoded anew.
AudioToo(media, profile) ==
    /\ media.audio # {}
    /\ profile.target.container = "mpegts"
    /\ profile.target.audioCodec = "ac3"

Mode(media, profile, ext) ==
    LET video == VideoSupported(media, profile)
        audio == AudioSupported(media, profile)
    IN  IF ~profile.target.enabled THEN Direct
        ELSE IF video /\ audio
             THEN IF ext \in profile.containers THEN Direct
                  ELSE IF profile.target.allowRemux THEN Remux
                  ELSE Transcode(TRUE, TRUE)
             ELSE Transcode(~video, ~audio \/ (~video /\ AudioToo(media, profile)))

-----------------------------------------------------------------------------
(* What is sent instead.                                                   *)

OutputContainer(profile) ==
    CASE profile.target.container = "mp4" -> [name |-> "mp4", mime |-> "video/mp4"]
      [] profile.target.container = "mkv" -> [name |-> "matroska", mime |-> "video/x-matroska"]
      [] OTHER -> [name |-> "mpegts", mime |-> "video/mpeg"]

SoftwareOnly == {"mpeg2video", "mpeg4", "vp8", "vp9"}

\* Any other name, misspelt ones too, becomes h264.
VideoEncoder(family, codec) ==
    IF codec \in SoftwareOnly
    THEN [codec |-> codec, family |-> InSoftware]
    ELSE [codec |-> IF codec = "hevc" THEN "hevc" ELSE "h264", family |-> family]

\* The user's encoder is taken only if it is the one this codec and its own
\* family give.
EncoderFor(hw, codec) ==
    LET accepted == {e \in hw.encoder : VideoEncoder(e.family, codec) = e}
    IN  IF accepted # {} THEN accepted ELSE {VideoEncoder(hw.preferred, codec)}

\* DLNA.ORG_PN of a transcoded stream, told from the target alone.
ProfileName(target, container) ==
    LET hd == target.maxHeight = {} \/ \A h \in target.maxHeight : h > 576
    IN  IF container # "mpegts" THEN {}
        ELSE IF target.videoCodec = "mpeg2video"
             THEN {[family |-> "MPEG_TS", hd |-> hd, ac3 |-> FALSE]}
        ELSE IF target.videoCodec \in {"h264", "hevc"}
             THEN {[family |-> "AVC_TS", hd |-> hd, ac3 |-> target.audioCodec = "ac3"]}
        ELSE {}

Decide(media, profile, ext, hw) ==
    LET target == profile.target
        mode   == Mode(media, profile, ext)
        output == OutputContainer(profile)
    IN  [mode         |-> mode,
         container    |-> IF mode.kind = "direct" THEN ext ELSE output.name,
         mime         |-> IF mode.kind = "direct" THEN ext ELSE output.mime,
         pn           |-> IF mode.kind = "transcode"
                          THEN ProfileName(target, output.name) ELSE {},
         videoEncoder |-> IF mode.video THEN EncoderFor(hw, target.videoCodec) ELSE {},
         maxWidth     |-> IF mode.video THEN profile.maxWidth ELSE 0,
         maxHeight    |-> IF mode.video /\ target.maxHeight # {}
                          THEN CHOOSE h \in target.maxHeight : TRUE ELSE 0,
         audioEncoder |-> IF mode.audio
                          THEN {[codec |-> target.audioCodec, channels |-> target.channels]}
                          ELSE {}]

\* PlaybackEngine::decision applies the setting `what` to the mode only.
ApplyWhat(what, decision) ==
    LET mode == decision.mode
    IN  IF mode.kind # "transcode" THEN decision
        ELSE [decision EXCEPT !.mode =
                 CASE what = "audio" /\ mode.video /\ ~mode.audio -> Remux
                   [] what = "audio" /\ ~(mode.video /\ ~mode.audio) ->
                        Transcode(FALSE, mode.audio)
                   [] what = "video" -> Transcode(mode.video, FALSE)
                   [] OTHER -> mode]

\* The name in the URL of a stream ends in what the stream is.
Extension(container) ==
    CASE container = "mpegts" -> "ts"
      [] container = "matroska" -> "mkv"
      [] OTHER -> container

-----------------------------------------------------------------------------
(* The ffmpeg command.                                                     *)

IsoContainers == {"mp4", "m4v", "mov", "3gp"}   \* needs_annexb

\* `libx264` does not contain "h264", so the software encoder is not capped.
LevelCapped(encoder) ==
    \/ encoder.codec = "mpeg2video"
    \/ encoder.codec = "h264" /\ encoder.family # InSoftware

Even(n) == IF n < 2 THEN 2 ELSE 2 * (n \div 2)

TargetSizeByHeight(width, height, maxWidth, maxHeight) ==
    LET h == IF maxHeight = 0 THEN height ELSE Least(maxHeight, height)
    IN  IF width = 0 \/ height = 0 THEN [width |-> width, height |-> height]
        ELSE [width |-> Even((width * h) \div height), height |-> Even(h)]

\* ciljna_velicina: shrink to both limits, keep the shape, never enlarge.
\* 0 is no limit.  The code multiplies floats; the fractions here are exact.
TargetSize(width, height, maxWidth, maxHeight) ==
    LET w == IF maxWidth = 0 THEN width ELSE maxWidth
        h == IF maxHeight = 0 THEN height ELSE maxHeight
    IN  IF width = 0 \/ height = 0 THEN [width |-> width, height |-> height]
        ELSE IF w >= width /\ h >= height
             THEN [width |-> Even(width), height |-> Even(height)]
        ELSE IF w * height <= h * width
             THEN [width |-> Even(w), height |-> Even((height * w) \div width)]
        ELSE [width |-> Even((width * h) \div height), height |-> Even(h)]

Capped(limit, cap) == IF limit = 0 THEN cap ELSE Least(limit, cap)

\* The picture that leaves the filters in front of `encoder`: scaled, 8-bit.
Filtered(v, decision, encoder) ==
    LET capped == LevelCapped(encoder)
        size == TargetSize(v.width, v.height,
                    IF capped THEN Capped(decision.maxWidth, 1920) ELSE decision.maxWidth,
                    IF capped THEN Capped(decision.maxHeight, 1080) ELSE decision.maxHeight)
    IN  [codec |-> encoder.codec, width |-> size.width, height |-> size.height, depth |-> 8]

BuildArgs(decision, ext) ==
    LET copy == decision.mode.kind = "remux"
    IN  [video  |-> IF copy THEN {} ELSE decision.videoEncoder,
         audio  |-> IF copy THEN {} ELSE decision.audioEncoder,
         annexb |-> copy /\ decision.container = "mpegts" /\ ext \in IsoContainers,
         muxer  |-> IF decision.container = "mp4" THEN "mp4" ELSE "mpegts"]

Picture(v) == [codec |-> v.codec, width |-> v.width, height |-> v.height, depth |-> v.depth]

\* What ffmpeg writes for the command when it reads `media`: the first video
\* and the first audio track; nothing at all if the bit stream filter does not
\* know the codec.
Ffmpeg(args, decision, media) ==
    IF args.annexb /\ \E v \in media.video : v.codec # "h264" THEN {}
    ELSE {[container |-> args.muxer,
           video |-> IF args.video = {} THEN {Picture(v) : v \in media.video}
                     ELSE UNION {{Filtered(v, decision, e) : e \in args.video} :
                                     v \in media.video},
           audio |-> IF args.audio = {} \/ media.audio = {} THEN media.audio
                     ELSE args.audio]}

-----------------------------------------------------------------------------
(* What the device can open.                                               *)

CanShow(profile, picture) ==
    /\ picture.codec \in profile.videoCodecs
    /\ FitsVideo(profile, picture.width, picture.height)
    /\ picture.depth <= 8 \/ picture.depth <= profile.maxBitDepth

CanHear(profile, sound) ==
    sound.codec \in profile.audioCodecs /\ sound.channels <= profile.maxChannels

Playable(profile, stream) ==
    /\ \A v \in stream.video : CanShow(profile, v)
    /\ \A a \in stream.audio : CanHear(profile, a)

=============================================================================
