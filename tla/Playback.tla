------------------------------ MODULE Playback ------------------------------
(***************************************************************************)
(* From the metadata of a film to what the TV gets: the probe cache        *)
(* (MediaProbe), the media columns of the database, the three tasks that   *)
(* fill them, the offer in a Browse or Search answer (PlaybackEngine) and  *)
(* the answer to a request for the offered URL (serve_transcoded).         *)
(*                                                                         *)
(*   disk     what lies at the film's path: extension and what ffprobe     *)
(*            tells of it, {} when it cannot read the file                 *)
(*   config   the [transcode] settings the process runs with               *)
(*   profile  the profile profile_for finds for the TV                     *)
(*   cache    MediaProbe.cache: {} not known, {{}} known to be unreadable, *)
(*            {{m}} known                                                  *)
(*   rows     the media columns of items: {} never probed                  *)
(*   rescan   rescan() between media_probe.clear() and the warm-up         *)
(*   warmer   warm_media_cache: films left, the film in hand               *)
(*   filler   backfill_bit_depth: rows left, the row in hand               *)
(*   request  the handler that serves the TV                               *)
(*   offer    the last one the TV got, or is getting (request.for =        *)
(*            "listed": decided, the list has not gone out)                *)
(*   answer   the one that is just going out, {} after any other step      *)
(*   settled  films that were not replaced since a rescan or a start, and  *)
(*            of which no task holds an older reading (history)            *)
(*                                                                         *)
(* ffprobe reads the file when it starts and its result is written later,  *)
(* so every task is split there.                                           *)
(***************************************************************************)
EXTENDS Decision, FiniteSets

CONSTANTS Films, TVs,
          Contents,     \* [ext, media]: what may lie at a path
          Profiles, Configs,
          Nobody,       \* a task with no film in hand
          MaxRestarts   \* bound on restarts of the process

ASSUME PlaybackAssumption ==
    /\ IsFiniteSet(Films) /\ IsFiniteSet(TVs)
    /\ Nobody \notin Films
    /\ MaxRestarts \in Nat

\* ffprobe tells both sizes of a picture or none.
ASSUME ContentsAssumption ==
    \A c \in Contents :
        /\ c.media \subseteq Media /\ \A m1, m2 \in c.media : m1 = m2
        /\ \A m \in c.media : \A v \in m.video : v.width = 0 <=> v.height = 0

\* MediaProbe is on whenever transcoding is.
ASSUME ConfigsAssumption == \A c \in Configs : c.enabled => c.probing

ASSUME CapabilitiesAssumption == \A p \in Profiles : WellFormedProfile(p)

VARIABLES disk, config, profile, cache, rows, rescan, warmer, filler,
          request, offer, answer, restarts, settled

stores == <<cache, rows>>
tasks == <<rescan, warmer, filler>>
vars == <<disk, config, profile, cache, rows, rescan, warmer, filler,
          request, offer, answer, restarts, settled>>

-----------------------------------------------------------------------------
(* Metadata.                                                               *)

FromRowWithoutDepth(media) ==
    [media EXCEPT !.video = {[v EXCEPT !.kbps = {}, !.depth = 0] : v \in @}]

\* What media_for_probe makes of a row: the bit rate of the picture is not in
\* the table.
FromRow(media) == [media EXCEPT !.video = {[v EXCEPT !.kbps = {}] : v \in @}]

\* Rows written before schema 5 do not tell the depth.
WithoutDepth(media) == [media EXCEPT !.video = {[v EXCEPT !.depth = 0] : v \in @}]

\* The row has nothing that media_for_probe would select.
Blank(media) == media.video = {} /\ media.audio = {}

\* media_without_bit_depth
Incomplete(film) == \E media \in rows[film] : \E v \in media.video : v.depth = 0

\* warm_probe_cache: every usable row overwrites what the cache holds.
Warmed(old) ==
    [film \in Films |->
        LET usable == {media \in rows[film] : ~Blank(media)}
        IN  IF usable = {} THEN old[film] ELSE {{FromRow(media) : media \in usable}}]

Unknown(film) == cache[film] = {}
Known(film) == UNION cache[film]      \* MediaProbe::get
\* ffprobe; a MediaProbe that is switched off knows nothing of any file.
ReadFile(film) == IF config.probing THEN disk[film].media ELSE {}

\* update_media: a result without media is not written.
Written(film, result) == [rows EXCEPT ![film] = IF result = {} THEN @ ELSE result]

Idle == [stage |-> "idle", film |-> Nobody, read |-> {}]
NoTask == [todo |-> {}, hand |-> Idle]
Hand(stage, film, read) == [stage |-> stage, film |-> film, read |-> read]

\* Readings taken from a film and not yet in the cache.
Pending(film) ==
    {hand.read : hand \in {h \in {warmer.hand, filler.hand} \cup {request[tv].hand : tv \in TVs} :
                              h.film = film /\ h.stage \in {"read", "remember"}}}

-----------------------------------------------------------------------------
(* The engine: PlaybackEngine::decision, {} when nothing is known.         *)

EngineDecision(film, prof) ==
    {ApplyWhat(config.what, Decide(media, prof, disk[film].ext, config.hw)) :
        media \in Known(film)}

OriginalOffer(film) == [url |-> "res", mime |-> disk[film].ext, ext |-> disk[film].ext, pn |-> {}]
StreamOffer(d) == [url |-> "tr", mime |-> d.mime, ext |-> Extension(d.container), pn |-> d.pn]

\* resolve: the original when transcoding is off, nothing is known or the
\* device can do with it.
Resolve(film, prof) ==
    LET streams == {d \in EngineDecision(film, prof) : d.mode.kind # "direct"}
    IN  IF ~config.enabled \/ streams = {} THEN OriginalOffer(film)
        ELSE StreamOffer(CHOOSE d \in streams : TRUE)

\* What the handlers of /res and /tr send.
Original(film) == [kind |-> "original", mime |-> disk[film].ext, pn |-> {}, stream |-> {}]
Streamed(film, d) ==
    [kind |-> "stream", mime |-> d.mime, pn |-> d.pn,
     stream |-> UNION {Ffmpeg(BuildArgs(d, disk[film].ext), d, media) : media \in disk[film].media}]

-----------------------------------------------------------------------------
NoRequest == [hand |-> Idle, for |-> "none", calm |-> TRUE]
Silence == [tv \in TVs |-> {}]

\* What is known of the film is what ffprobe tells of the file that lies there,
\* but for the bit rate that the table does not keep.
WellKnown(film) ==
    /\ Known(film) # {}
    /\ {FromRow(m) : m \in Known(film)} = {FromRow(m) : m \in disk[film].media}

\* It was read from the file that lies there, by ffprobe or through its row: not
\* from an older one that differs in the bit rate alone.
ReadFromIt(film) ==
    Known(film) # {} /\ Known(film) \subseteq disk[film].media \cup {FromRow(m) : m \in disk[film].media}

\* Offers that no longer speak of this film, these profiles, these settings.
Outdated(tvs, films) ==
    [tv \in TVs |-> {[o EXCEPT !.sound = @ /\ ~(tv \in tvs /\ o.film \in films)] :
                         o \in offer[tv]}]
Quiet == answer' = Silence

\* start_probe at boot: the rows are in the cache before the tasks run.
Booted(conf) ==
    LET warm == Warmed([film \in Films |-> {}])
    IN  /\ cache' = warm
        /\ warmer' = [NoTask EXCEPT !.todo =
                        IF conf.enabled THEN {film \in Films : warm[film] = {}} ELSE {}]
        /\ filler' = [NoTask EXCEPT !.todo = {film \in Films : Incomplete(film)}]

Init ==
    /\ disk \in [Films -> Contents]
    /\ config \in Configs
    /\ profile \in [TVs -> Profiles]
    /\ rows \in [Films -> {{}} \cup {c.media : c \in Contents}
                               \cup {{WithoutDepth(m) : m \in c.media} : c \in Contents}]
    /\ \A film \in Films :
           rows[film] \in {{}, disk[film].media, {WithoutDepth(m) : m \in disk[film].media}}
    /\ cache = Warmed([film \in Films |-> {}])
    /\ warmer = [NoTask EXCEPT !.todo =
                    IF config.enabled THEN {film \in Films : cache[film] = {}} ELSE {}]
    /\ filler = [NoTask EXCEPT !.todo = {film \in Films : Incomplete(film)}]
    /\ rescan = "idle"
    /\ request = [tv \in TVs |-> NoRequest]
    /\ offer = Silence
    /\ answer = Silence
    /\ restarts = 0
    /\ settled = Films

\* A request in flight is no longer calm: the cache changes under it.
Disturbed == request' = [tv \in TVs |->
                 IF request[tv].for = "none" THEN request[tv]
                 ELSE [request[tv] EXCEPT !.calm = FALSE]]

-----------------------------------------------------------------------------
(* The world.                                                              *)

\* Another file takes the place of the film, under its name.
Replace(film) ==
    /\ \E content \in Contents :
          /\ content # disk[film] /\ content.ext = disk[film].ext
          /\ disk' = [disk EXCEPT ![film] = content]
    /\ settled' = settled \ {film}
    /\ offer' = Outdated(TVs, {film})
    /\ Quiet
    /\ UNCHANGED <<config, profile, stores, tasks, request, restarts>>

\* The user gives the TV another profile.
Assign(tv) ==
    /\ \E p \in Profiles \ {profile[tv]} : profile' = [profile EXCEPT ![tv] = p]
    /\ offer' = Outdated({tv}, Films)
    /\ Quiet
    /\ UNCHANGED <<disk, config, stores, tasks, request, restarts, settled>>

\* The process ends and starts again, with settings that may have changed.
Restart ==
    /\ restarts < MaxRestarts
    /\ restarts' = restarts + 1
    /\ config' \in Configs
    /\ Booted(config')
    /\ rescan' = "idle"
    /\ request' = [tv \in TVs |-> NoRequest]
    /\ settled' = Films
    /\ offer' = LET got == IF config' = config THEN offer ELSE Outdated(TVs, Films)
                IN  [tv \in TVs |-> IF request[tv].for = "listed" THEN {} ELSE got[tv]]
    /\ Quiet
    /\ UNCHANGED <<disk, profile, rows>>

-----------------------------------------------------------------------------
(* AppState::rescan, the part that touches the metadata: what is known is  *)
(* forgotten, then read back from the rows.  A thread then completes the   *)
(* rows; one such thread at a time is modelled.                            *)

RescanKeepsCache ==
    /\ rescan = "idle" /\ filler = NoTask
    /\ rescan' = "cleared"
    /\ settled' = {film \in Films : Pending(film) \subseteq {ReadFile(film)}}
    /\ Disturbed
    /\ Quiet
    /\ UNCHANGED <<disk, config, profile, stores, warmer, filler, offer, restarts>>

RescanClears ==
    /\ rescan = "idle" /\ filler = NoTask
    /\ rescan' = "cleared"
    /\ cache' = [film \in Films |-> {}]
    /\ settled' = {film \in Films : Pending(film) \subseteq {ReadFile(film)}}
    /\ Disturbed
    /\ Quiet
    /\ UNCHANGED <<disk, config, profile, rows, warmer, filler, offer, restarts>>

RescanWarms ==
    /\ rescan = "cleared"
    /\ rescan' = "idle"
    /\ cache' = Warmed(cache)
    /\ filler' = [NoTask EXCEPT !.todo = {film \in Films : Incomplete(film)}]
    /\ Disturbed
    /\ Quiet
    /\ UNCHANGED <<disk, config, profile, rows, warmer, offer, restarts, settled>>

-----------------------------------------------------------------------------
(* warm_media_cache at boot: one film after another, as the tasks of a     *)
(* chunk do.                                                               *)

WarmReads(film) ==
    /\ warmer.hand = Idle /\ film \in warmer.todo
    /\ warmer' = [todo |-> warmer.todo \ {film},
                  hand |-> IF Unknown(film) THEN Hand("read", film, ReadFile(film))
                           ELSE Hand("write", film, {})]
    /\ Quiet
    /\ UNCHANGED <<disk, config, profile, stores, rescan, filler, request, offer, restarts, settled>>

WarmRemembers ==
    /\ warmer.hand.stage = "read"
    /\ cache' = [cache EXCEPT ![warmer.hand.film] = {warmer.hand.read}]
    /\ warmer' = [warmer EXCEPT !.hand = Hand("write", @.film, {})]
    /\ Quiet
    /\ UNCHANGED <<disk, config, profile, rows, rescan, filler, request, offer, restarts, settled>>

\* What the cache holds by now goes into the row.
WarmWrites ==
    /\ warmer.hand.stage = "write"
    /\ rows' = Written(warmer.hand.film, Known(warmer.hand.film))
    /\ warmer' = [warmer EXCEPT !.hand = Idle]
    /\ Quiet
    /\ UNCHANGED <<disk, config, profile, cache, rescan, filler, request, offer, restarts, settled>>

-----------------------------------------------------------------------------
(* backfill_bit_depth: forget the row's copy, probe, remember, write.      *)

FillTrustsCache(film) ==
    /\ filler.hand = Idle /\ film \in filler.todo
    /\ filler' = [todo |-> filler.todo \ {film}, hand |-> Hand("forgot", film, {})]
    /\ Disturbed
    /\ Quiet
    /\ UNCHANGED <<disk, config, profile, stores, rescan, warmer, offer, restarts, settled>>

FillForgets(film) ==
    /\ filler.hand = Idle /\ film \in filler.todo
    /\ cache' = [cache EXCEPT ![film] = {}]
    /\ filler' = [todo |-> filler.todo \ {film}, hand |-> Hand("forgot", film, {})]
    /\ Disturbed
    /\ Quiet
    /\ UNCHANGED <<disk, config, profile, rows, rescan, warmer, offer, restarts, settled>>

\* probe() starts; it returns what a request may have put into the cache
\* meanwhile, and there is nothing to complete if that is a failure.
FillReads ==
    /\ filler.hand.stage = "forgot"
    /\ LET film == filler.hand.film
       IN  filler' = [filler EXCEPT !.hand =
              IF Unknown(film) THEN Hand("read", film, ReadFile(film))
              ELSE IF Known(film) = {} THEN Idle
              ELSE Hand("remember", film, Known(film))]
    /\ Quiet
    /\ UNCHANGED <<disk, config, profile, stores, rescan, warmer, request, offer, restarts, settled>>

\* probe() ends.
FillProbed ==
    /\ filler.hand.stage = "read"
    /\ cache' = [cache EXCEPT ![filler.hand.film] = {filler.hand.read}]
    /\ filler' = [filler EXCEPT !.hand =
          IF filler.hand.read = {} THEN Idle
          ELSE Hand("remember", filler.hand.film, filler.hand.read)]
    /\ Disturbed
    /\ Quiet
    /\ UNCHANGED <<disk, config, profile, rows, rescan, warmer, offer, restarts, settled>>

\* remember(), after the languages of the subtitles were guessed.
FillRemembers ==
    /\ filler.hand.stage = "remember"
    /\ cache' = [cache EXCEPT ![filler.hand.film] = {filler.hand.read}]
    /\ filler' = [filler EXCEPT !.hand.stage = "write"]
    /\ Disturbed
    /\ Quiet
    /\ UNCHANGED <<disk, config, profile, rows, rescan, warmer, offer, restarts, settled>>

FillWrites ==
    /\ filler.hand.stage = "write"
    /\ rows' = Written(filler.hand.film, filler.hand.read)
    /\ filler' = [filler EXCEPT !.hand = Idle]
    /\ Quiet
    /\ UNCHANGED <<disk, config, profile, cache, rescan, warmer, request, offer, restarts, settled>>

-----------------------------------------------------------------------------
(* The TV.                                                                 *)

Begin(tv, purpose, film, reading) ==
    request' = [request EXCEPT ![tv] =
        [for |-> purpose, calm |-> rescan = "idle",
         hand |-> IF reading /\ Unknown(film) THEN Hand("read", film, ReadFile(film))
                  ELSE Hand("decide", film, {})]]

\* Browse probes what it will list; prefetch_media does so only when
\* transcoding is on.
Browse(tv, film) ==
    /\ request[tv].for = "none"
    /\ Begin(tv, "offer", film, config.enabled)
    /\ Quiet
    /\ UNCHANGED <<disk, config, profile, stores, tasks, offer, restarts, settled>>

\* Search lists with the same engine and probes nothing before it decides.
Search(tv, film) ==
    /\ request[tv].for = "none"
    /\ Begin(tv, "offer", film, FALSE)
    /\ Quiet
    /\ UNCHANGED <<disk, config, profile, stores, tasks, offer, restarts, settled>>

\* The TV asks for the URL it was given.  /tr probes whatever the settings say.
Ask(tv) ==
    /\ request[tv].for = "none"
    /\ \E o \in offer[tv] :
          Begin(tv, IF o.is.url = "tr" THEN "stream" ELSE "original", o.film, o.is.url = "tr")
    /\ Quiet
    /\ UNCHANGED <<disk, config, profile, stores, tasks, offer, restarts, settled>>

Remembers(tv) ==
    /\ request[tv].hand.stage = "read" /\ request[tv].for # "listed"
    /\ cache' = [cache EXCEPT ![request[tv].hand.film] = {request[tv].hand.read}]
    /\ request' = [request EXCEPT ![tv].hand = Hand("decide", @.film, {})]
    /\ Quiet
    /\ UNCHANGED <<disk, config, profile, rows, tasks, offer, restarts, settled>>

Offer(tv) ==
    /\ request[tv].for = "offer" /\ request[tv].hand.stage = "decide"
    /\ LET film == request[tv].hand.film
       IN  offer' = [offer EXCEPT ![tv] =
              {[is |-> Resolve(film, profile[tv]), film |-> film,
                sound |-> ReadFromIt(film)]}]
    /\ request' = [request EXCEPT ![tv].for = "listed", ![tv].calm = FALSE]
    /\ Quiet
    /\ UNCHANGED <<disk, config, profile, stores, tasks, restarts, settled>>

\* EmbeddedSubtitles: a film whose offer is decided is probed for the subtitles
\* it holds if the cache does not know it, in Browse and Search alike.
LooksInside(tv) ==
    /\ request[tv].for = "listed" /\ request[tv].hand.stage = "decide"
    /\ Unknown(request[tv].hand.film)
    /\ request' = [request EXCEPT ![tv].hand = Hand("read", @.film, ReadFile(@.film))]
    /\ Quiet
    /\ UNCHANGED <<disk, config, profile, stores, tasks, offer, restarts, settled>>

\* The list goes out.  Nothing is probed if the film is known, nor while a
\* rescan waits to publish its catalog.
Listed(tv) ==
    /\ request[tv].for = "listed"
    /\ cache' = IF request[tv].hand.stage = "read"
                THEN [cache EXCEPT ![request[tv].hand.film] = {request[tv].hand.read}]
                ELSE cache
    /\ request' = [request EXCEPT ![tv] = NoRequest]
    /\ Quiet
    /\ UNCHANGED <<disk, config, profile, rows, tasks, offer, restarts, settled>>

\* serve_transcoded decides again, with the profile of this moment, and sends
\* the original when the decision is direct or there is none.
Answer(tv) ==
    /\ request[tv].for \in {"stream", "original"} /\ request[tv].hand.stage = "decide"
    /\ LET film == request[tv].hand.film
           streams == IF request[tv].for = "original" THEN {}
                      ELSE {d \in EngineDecision(film, profile[tv]) : d.mode.kind # "direct"}
       IN  answer' = [answer EXCEPT ![tv] =
              {[is |-> IF streams = {} THEN Original(film)
                       ELSE Streamed(film, CHOOSE d \in streams : TRUE),
                film |-> film, asked |-> request[tv].for, calm |-> request[tv].calm]}]
    /\ request' = [request EXCEPT ![tv] = NoRequest]
    /\ UNCHANGED <<disk, config, profile, stores, tasks, offer, restarts, settled>>

-----------------------------------------------------------------------------
WarmStep == (\E film \in Films : WarmReads(film)) \/ WarmRemembers \/ WarmWrites
FillStep ==
    \/ \E film \in Films : FillForgets(film)
    \/ FillReads \/ FillProbed \/ FillRemembers \/ FillWrites
TVStep(tv) ==
    \/ \E film \in Films : Browse(tv, film) \/ Search(tv, film)
    \/ Ask(tv) \/ Remembers(tv) \/ Offer(tv) \/ LooksInside(tv) \/ Listed(tv) \/ Answer(tv)

Next ==
    \/ \E film \in Films : Replace(film)
    \/ \E tv \in TVs : Assign(tv) \/ TVStep(tv)
    \/ Restart
    \/ RescanClears \/ RescanWarms
    \/ WarmStep \/ FillStep

\* The backfill is a thread of its own and ffprobe ends.
Spec == Init /\ [][Next]_vars /\ WF_vars(FillStep) /\ WF_vars(RescanWarms)

-----------------------------------------------------------------------------
(* Properties.                                                             *)

Results == {{}} \cup {c.media : c \in Contents}
Readings ==
    LET partial == {{WithoutDepth(m) : m \in r} : r \in Results}
        full == Results \cup partial
    IN  full \cup {{FromRow(m) : m \in r} : r \in full}
Hands == [stage : {"idle", "read", "forgot", "remember", "write", "decide"},
          film : Films \cup {Nobody}, read : Readings]

\* Types of the variables; every reading is one ffprobe or a row can give.
TypeOK ==
    /\ disk \in [Films -> Contents]
    /\ config \in Configs
    /\ profile \in [TVs -> Profiles]
    /\ \A film \in Films : \A known \in cache[film] : known \in Readings
    /\ \A film \in Films : Cardinality(cache[film]) <= 1 /\ rows[film] \in Readings
    /\ rescan \in {"idle", "cleared"}
    /\ warmer \in [todo : SUBSET Films, hand : Hands]
    /\ filler \in [todo : SUBSET Films, hand : Hands]
    /\ request \in [TVs -> [for : {"none", "offer", "listed", "stream", "original"},
                              calm : BOOLEAN, hand : Hands]]
    /\ \A tv \in TVs : Cardinality(offer[tv]) <= 1 /\ Cardinality(answer[tv]) <= 1
    /\ restarts \in 0..MaxRestarts
    /\ settled \subseteq Films

\* A target the device itself can open, in a container that build_args muxes
\* and in a codec that video_encoder knows.
SoundTarget(prof) ==
    /\ prof.target.enabled
    /\ prof.target.container \in {"mpegts", "mp4"}
    /\ prof.target.videoCodec \in {"h264", "hevc"} \cup SoftwareOnly
    /\ prof.target.videoCodec \in prof.videoCodecs
    /\ prof.target.audioCodec \in prof.audioCodecs
    /\ prof.target.channels <= prof.maxChannels

\* The height of a re-encoded picture is limited by the encoder's level or by
\* the target; profile.video.max_height alone is not looked at.
HeightLimited(prof) ==
    \/ \E h \in prof.target.maxHeight : h \in 1..prof.maxHeight
    \/ /\ prof.maxHeight >= 1080
       /\ \A e \in EncoderFor(config.hw, prof.target.videoCodec) : LevelCapped(e)

\* h264_mp4toannexb is also given to HEVC, and ffmpeg then writes nothing.
WrongBitstreamFilter(film, prof) ==
    /\ disk[film].ext \in IsoContainers
    /\ prof.target.container = "mpegts"
    /\ \E m \in disk[film].media : \E v \in m.video : v.codec # "h264"

\* A TV gets what it can open.  When the metadata is that of the file, a stream
\* from ffmpeg is never empty and its picture and sound are within the
\* profile, and an original goes out under /tr only if its picture is within
\* the profile.  The profile's target is one the device can open, its height
\* is limited, and the file is not one that gets the wrong bit stream filter.
SentIsPlayable ==
    \A tv \in TVs : \A a \in answer[tv] :
        (/\ WellKnown(a.film) /\ config.what = "av"
         /\ SoundTarget(profile[tv]) /\ HeightLimited(profile[tv])
         /\ ~WrongBitstreamFilter(a.film, profile[tv]))
        => IF a.is.kind = "stream"
           THEN a.is.stream # {} /\ \A s \in a.is.stream : Playable(profile[tv], s)
           ELSE a.asked = "stream" =>
                    \A m \in disk[a.film].media : VideoSupported(FromRow(m), profile[tv])

\* The row, if there is one, is that of the file, and the decision does not
\* rest on a bit rate, which the table does not keep.
RowTells(film, prof) ==
    /\ \A m \in rows[film] : {FromRow(m)} = {FromRow(c) : c \in disk[film].media}
    /\ \A m \in disk[film].media : \A v \in m.video : \A rate \in v.kbps :
           prof.maxKbps = 0 \/ rate <= prof.maxKbps

\* What Browse offers is what the TV gets: MIME type, protocolInfo and whether
\* it is the original.  Between the two the metadata may have been forgotten by
\* a rescan, filled in by the backfill or lost with the process; the file, the
\* profile and the settings are the same (the offer is sound), no task holds
\* what it read of an older file, and the cache was not cleared while the
\* handler ran.
OfferKept ==
    \A tv \in TVs : \A a \in answer[tv] : \A o \in offer[tv] :
        (/\ o.sound /\ a.calm /\ a.film = o.film
         /\ o.film \in settled /\ RowTells(o.film, profile[tv]))
        => /\ a.is.mime = o.is.mime /\ a.is.pn = o.is.pn
           /\ (a.is.kind = "stream") = (o.is.url = "tr")

\* After a rescan nothing older than it is believed: what the cache holds of a
\* film that no one replaced since is what ffprobe tells of it or what its row
\* tells.
RescanForgets ==
    \A film \in settled :
        Known(film) \subseteq disk[film].media \cup {FromRow(m) : m \in rows[film]}

\* Whatever is known of a film is a reading of some file, and of a film that
\* was not replaced since a rescan it is a reading of that film (MediaProbe).
Inv == TypeOK /\ RescanForgets

\* A row without the depth of the picture gets it: if the film stays readable,
\* the backfill of some start or rescan completes its row.
OldRowsAreCompleted ==
    \A film \in Films : [](ReadFile(film) # {}) => <>(~Incomplete(film))

=============================================================================
