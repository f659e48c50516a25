------------------------------ MODULE MCHouse ------------------------------
(* What a house keeps on its server and its televisions are served: bytes   *)
(* of a file, subtitles, the place where somebody stopped, pictures, the    *)
(* settings, the database it is all in and who the televisions are taken    *)
(* for.  The seven share no state, so a behaviour runs one of them, part,   *)
(* and the others stay as they begin.                                       *)
EXTENDS FileServing, MCSubtitles, PlayState, MCPosters, MCSettings, Migration, MCRecognition

VARIABLE part

Bytes(first, last) == [first |-> first, last |-> last]
MCRanges == {{}, {Bytes({}, {})}, {Bytes({0}, {})}, {Bytes({2}, {2})}, {Bytes({1}, {9})},
             {Bytes({2}, {1})}, {Bytes({4}, {})}, {Bytes({}, {2})}, {Bytes({}, {0})}, {Bytes({}, {9})}}
Time(h, m, ms) == [hours |-> h, minutes |-> m, ms |-> ms]
Span(start, end) == [start |-> start, end |-> end]
MCSeeks == {{}, {Span({Time(0, 30, 0)}, {Time(1, 0, 500)})}, {Span({Time(0, 0, 2500)}, {})},
            {Span({Time(0, 0, 2000)}, {Time(0, 0, 2000)})}, {Span({Time(5, 0, 0)}, {Time(6, 0, 0)})},
            {Span({Time(0, 1, 0)}, {Time(0, 0, 1)})}, {Span({}, {})}}
MCRequests == {[range |-> r, seek |-> {}, head |-> FALSE] : r \in MCRanges}
              \cup {[range |-> {}, seek |-> s, head |-> FALSE] : s \in MCSeeks}
              \cup {[range |-> {Bytes({1}, {})}, seek |-> {Span({}, {})}, head |-> TRUE]}
MCLengthOf(n) == CASE n = 0 -> {} [] n = 1 -> {0} [] n = 3 -> {6000} [] OTHER -> {7200000}

MCRowDuration(i) == IF i = "a" THEN {7200000} ELSE {}

\* What a part that does not run looks like.
StillFile == file = {0} /\ req = CHOOSE r \in Requests : TRUE
StillSubtitles == embedded = [film \in DOMAIN Films |-> <<>>] /\ temp = <<>>
                  /\ wants = [v \in Viewers |-> {}]
StillPosters == posters = <<>> /\ pass = [w \in Workers |-> Idle]
MCInit ==
    /\ part \in {"file", "subtitles", "play", "posters", "settings", "migration", "recognition"}
    /\ FileInit /\ PlayInit /\ SettingsInit /\ MigrationInit /\ RecognitionInit
    /\ part = "migration" \/ oldVersion = VERSION
    /\ part = "settings" \/ machine = CHOOSE m \in Machines : TRUE
    /\ part = "file" \/ StillFile
    /\ IF part = "subtitles" THEN SubInit ELSE StillSubtitles
    /\ IF part = "posters" THEN PosterInit
       ELSE StillPosters /\ art = <<>> /\ titleIds = <<>> /\ refreshes = 0 /\ changes = 0
            /\ restarts = 0 /\ calm = TRUE
FileStep == part = "file" /\ FileNext
            /\ UNCHANGED <<part, subVars, playVars, posterVars, settingsVars, migrationVars, recognitionVars>>
SubtitleStep == part = "subtitles" /\ SubNext
                /\ UNCHANGED <<part, fileVars, playVars, posterVars, settingsVars, migrationVars, recognitionVars>>
PlayStep == part = "play" /\ PlayNext
            /\ UNCHANGED <<part, fileVars, subVars, posterVars, settingsVars, migrationVars, recognitionVars>>
PosterStep == part = "posters" /\ PosterNext
              /\ UNCHANGED <<part, fileVars, subVars, playVars, settingsVars, migrationVars, recognitionVars>>
SettingsStep == part = "settings" /\ SettingsNext
                /\ UNCHANGED <<part, fileVars, subVars, playVars, posterVars, migrationVars, recognitionVars>>
MigrationStep == part = "migration" /\ MigrationNext
                 /\ UNCHANGED <<part, fileVars, subVars, playVars, posterVars, settingsVars, recognitionVars>>
RecognitionStep == part = "recognition" /\ RecognitionNext
                   /\ UNCHANGED <<part, fileVars, subVars, playVars, posterVars, settingsVars, migrationVars>>
MCNext == FileStep \/ SubtitleStep \/ PlayStep \/ PosterStep \/ SettingsStep \/ MigrationStep \/ RecognitionStep
MCSpec == MCInit /\ [][MCNext]_<<part, fileVars, subVars, playVars, posterVars, settingsVars, migrationVars,
                                 recognitionVars>>

=============================================================================
