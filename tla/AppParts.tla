------------------------------ MODULE AppParts ------------------------------
(***************************************************************************)
(* Parts of the apps that share no state, side by side: the settings of    *)
(* radar, those of aoa with files of earlier versions, the scenes that aoa *)
(* sets in AOA, the start and the end of detectx, and the way of a frame   *)
(* through it.                                                             *)
(***************************************************************************)
EXTENDS Integers, Sequences

CONSTANTS
  Group, Publish, RadarSchedule, Points, RadarDefault, MaxRequests,   \* of RadarConfig
  Alert, Schedule, Unscheduled, Interval, Command, AoaFile, MaxPages, \* of AoaSettings
  Id, Name, Transfer, Domain, ConfigVersion, TotalPoints, MaxChanges, \* of OtaScene
  Label, Platform, Bundle, DetectxFile, MaxPosts,                     \* of DetectxStart
  Buffer, numAppFrames, MaxRefused, Frame, Box, Width, Threshold,     \* of DetectxPipeline
  DetectionConfig, MaxSettings

VARIABLES
  settings, settings_file, live, schedule, request, half, saved, set, set_schedule, requests,
  aoa_settings, aoa_file, streams, writing, on_file, pages,
  scenes, transfers, pending, memory, file, call, apart, acked, changes,
  bundle, platform, main, held, g_config, selected, g_selection_valid, posts,
  vdo, deliveredFrames, processedFrames, yuvBuffer, refused, frame, g_detection_config, g_nms,
  counted, detection_changes

R == INSTANCE RadarConfig WITH
  Schedule <- RadarSchedule, Default <- RadarDefault, MaxChanges <- MaxRequests,
  memory <- settings, file <- settings_file, call <- request, acked <- set,
  acked_schedule <- set_schedule, changes <- requests
A == INSTANCE AoaSettings WITH
  NoSchedule <- Unscheduled, File <- AoaFile, MaxChanges <- MaxPages,
  memory <- aoa_settings, file <- aoa_file, live <- streams, call <- writing,
  saved <- on_file, changes <- pages
S == INSTANCE OtaScene
M == INSTANCE DetectxStart WITH File <- DetectxFile
D == INSTANCE DetectxPipeline WITH Settings <- DetectionConfig, changes <- detection_changes

rvars == <<settings, settings_file, live, schedule, request, half, saved, set, set_schedule,
           requests>>
avars == <<aoa_settings, aoa_file, streams, writing, on_file, pages>>
svars == <<scenes, transfers, pending, memory, file, call, apart, acked, changes>>
mvars == <<bundle, platform, main, held, g_config, selected, g_selection_valid, posts>>
dvars == <<vdo, deliveredFrames, processedFrames, yuvBuffer, refused, frame,
           g_detection_config, g_nms, counted, detection_changes>>
-----------------------------------------------------------------------------
\* What the settings promise in each of the places they are kept in: what was acknowledged
\* holds, what is stored is in effect, and a restart changes nothing (radar/app/main.c,
\* aoa/app/main.c, ACAP.c); with the types.
SettingsHold ==
  /\ R!TypeOK /\ R!AckedHolds /\ R!StoredInEffect
  /\ A!TypeOK /\ A!SameAfterRestart

\* A scene of AOA is set as a whole or not at all, in AOA and in the settings alike
\* (ota_scene.c); with the types.
ScenesWhole == S!TypeOK /\ S!WholeTransfers /\ S!Together

\* detectx has all of what it needs or nothing of it, its selection means labels of the
\* model in use, no buffer is lost, and what it counts stands for all it found (Model.c,
\* imgprovider.c, detection_nms.c); with the types.
DetectxSound ==
  /\ M!TypeOK /\ M!Grounded /\ M!AllOrNothing /\ M!Meant
  /\ D!TypeOK /\ D!PoolKept /\ D!Representative
=============================================================================
