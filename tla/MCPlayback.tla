----------------------------- MODULE MCPlayback -----------------------------
(* One film and one TV, with files and profiles taken from the built-in    *)
(* ones so that every branch of the decision is met.                       *)
EXTENDS Playback

Video(codec, width, height, kbps, depth) ==
    {[codec |-> codec, width |-> width, height |-> height, kbps |-> kbps, depth |-> depth]}
Audio(codec, channels) == {[codec |-> codec, channels |-> channels]}
File(ext, video, audio) == [ext |-> ext, media |-> {[video |-> video, audio |-> audio]}]

MCContents == {
    File("mkv", Video("h264", 1920, 1080, {8000}, 8), Audio("aac", 2)),
    File("mkv", Video("hevc", 1920, 1080, {}, 10), Audio("dts", 6)),
    File("mkv", Video("h264", 2160, 1080, {60000}, 8), Audio("ac3", 6)),
    File("mov", Video("hevc", 1920, 1080, {}, 8), Audio("aac", 2)),
    File("mov", Video("h264", 1080, 1920, {9000}, 8), Audio("aac", 2)),
    File("mov", Video("h264", 1080, 1920, {60000}, 8), Audio("aac", 2)),
    File("webm", Video("vp9", 3840, 2160, {}, 8), Audio("opus", 2)),
    [ext |-> "mkv", media |-> {}]}

Target(container, video, audio, height, remux) ==
    [container |-> container, videoCodec |-> video, audioCodec |-> audio, channels |-> 2,
     maxHeight |-> height, allowRemux |-> remux, enabled |-> TRUE]

Panasonic ==
    [containers |-> {"mp4", "mkv", "ts"}, videoCodecs |-> {"h264", "hevc", "mpeg2video"},
     maxWidth |-> 1920, maxHeight |-> 1080, maxBitDepth |-> 8, maxKbps |-> 25000,
     audioCodecs |-> {"aac", "ac3", "dts"}, maxChannels |-> 6,
     target |-> Target("mpegts", "h264", "ac3", {}, TRUE)]
Browser ==
    [containers |-> {"mp4", "webm", "mov"}, videoCodecs |-> {"h264", "vp9"},
     maxWidth |-> 3840, maxHeight |-> 2160, maxBitDepth |-> 8, maxKbps |-> 40000,
     audioCodecs |-> {"aac", "opus"}, maxChannels |-> 2,
     target |-> Target("mp4", "h264", "aac", {}, TRUE)]
OldSamsung ==
    [Panasonic EXCEPT !.videoCodecs = {"h264", "mpeg2video"}, !.maxChannels = 2,
                      !.target = Target("mpegts", "mpeg2video", "ac3", {720}, FALSE)]
MCProfiles == {Panasonic, Browser, OldSamsung}

Settings(enabled, what, family, encoder) ==
    [enabled |-> enabled, probing |-> TRUE, what |-> what,
     hw |-> [preferred |-> family, encoder |-> encoder]]
H264(family) == [codec |-> "h264", family |-> family]
MCConfigs == {
    Settings(TRUE, "av", "nvenc", {H264(InSoftware)}),
    Settings(TRUE, "av", "nvenc", {}),
    Settings(TRUE, "audio", "vaapi", {}),
    Settings(FALSE, "video", InSoftware, {})}

=============================================================================
