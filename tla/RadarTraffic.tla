----------------------------- MODULE RadarTraffic -----------------------------
(***************************************************************************)
(* The radar's tracks, and the counting scenes with their totals, side by  *)
(* side.  The two modules share no variable: a track ends in RadarTracks,  *)
(* under g_radar_mutex of main.c, and that it crosses lines is an input of *)
(* RadarCounting, under the mutex of counting.c.  The tracks are extended, *)
(* the counting scenes an instance.                                        *)
(***************************************************************************)
EXTENDS RadarTracks

CONSTANTS SceneId, COUNTING_MAX_SCENES,                      \* of RadarCounting
          MaxTracks, MaxScenes, MaxRequests, MaxRestarts, PublishesAfterRace

VARIABLES
  up, tree, file, g_scenes, totals, inode, counters, temporary, pc, made, requests, tracks,
  restarts, crossed, floor, raced

C == INSTANCE RadarCounting WITH Id <- SceneId

cvars == <<up, tree, file, g_scenes, totals, inode, counters, temporary, pc, made, requests,
           tracks, restarts, crossed, floor, raced>>
tvars == <<vars, cvars>>

TrafficInit == Init /\ C!Init

Tracked == Next /\ UNCHANGED cvars
Counted == C!Next /\ UNCHANGED vars

TrafficSpec == TrafficInit /\ [][Tracked \/ Counted]_tvars
-----------------------------------------------------------------------------
\* Within one run of the process, each scene's total counts the tracks that crossed that very
\* scene, or the scenes it replaced under its id, and what is counted for is what the settings
\* say unless they are invalid (counting.c, ota_counting.c); with the types of the variables.
TotalsExact == C!TypeOK /\ C!ActiveIsConfigured /\ C!TotalsExact

\* radar/README.md:89, totals persist across restarts: counters.json is absent or whole.
CountersFileWhole == C!CountersFileWhole

\* How far that is true: only two saves at once tear it, and otherwise a scene does not fall
\* behind the totals last published and saved.
CountersSurvive == C!OnlyRacesTear /\ C!PublishedTotalsSurvive
=============================================================================
