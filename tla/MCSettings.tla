------------------------------ MODULE MCSettings ------------------------------
EXTENDS Settings, TLC
MCInBundleDirs == <<"lib/ffmpeg">>
MCOnPath == <<"bin/ffmpeg">>
MCLists == <<"libx264", "h264_nvenc", "h264_qsv", "h264_vaapi", "libx265", "hevc_nvenc", "hevc_vaapi">>
Box(exists, encoders) ==
  [exists |-> exists, same |-> ("bin/ffmpeg" :> "opt/ffmpeg"), encoders |-> encoders,
   lists |-> MCLists, renderNode |-> FALSE]
Card == {"h264_nvenc", "hevc_nvenc", "libx264", "h264_vaapi"}
Plain == {"libx264", "libx265"}
MCMachines ==
  {Box({"bin/ffmpeg"}, ("ffmpeg" :> Card) @@ ("bin/ffmpeg" :> Card)),
   Box({"app/ffmpeg", "bin/ffmpeg"}, ("ffmpeg" :> Plain) @@ ("bin/ffmpeg" :> Plain) @@ ("app/ffmpeg" :> Card)),
   Box({"lib/ffmpeg", "bin/ffmpeg"}, ("ffmpeg" :> Card) @@ ("bin/ffmpeg" :> Card) @@ ("lib/ffmpeg" :> Plain)),
   Box({}, [p \in {} |-> {}])}
Speed(nvenc, hevc, soft) ==
  [e \in KANDIDATI |->
     CASE e = "h264_nvenc" -> nvenc [] e = "hevc_nvenc" -> hevc [] e = "libx264" -> soft [] OTHER -> 45]
MCSpeeds == {Speed(90, 120, 60), Speed(30, 40, 90), Speed(40, 40, 40), Speed(70, 20, 100)}
=============================================================================
