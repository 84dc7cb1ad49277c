---------------------------- MODULE RadarConfig ----------------------------
(***************************************************************************)
(* The settings of the radar app and the commands that change them over    *)
(* LoRaWAN (radar/app/main.c, common/app/ACAP.c).                          *)
(*                                                                         *)
(* A setting lives in three places: the settings in memory, which the web  *)
(* pages and some of the GET commands read; the file they are saved to,    *)
(* written over the old one; and the globals of the use cases, which is    *)
(* what the app does.  One thread serves pages and downlinks, so that      *)
(* commands do not interleave, but each write of the file can fail, and    *)
(* the app can stop before it or in the middle of it.  Some commands look  *)
(* at the result of the write and some do not.                             *)
(*                                                                         *)
(* A request that its handler refuses changes nothing and is not a step.   *)
(* saved, acked and acked_schedule are history variables.                  *)
(***************************************************************************)
EXTENDS Integers, Sequences, FiniteSets

CONSTANTS Group,     \* use cases configured under "transmission", and "radar"
          Publish,   \* values of a use case that are neither its area nor its schedule
          Schedule,  \* daily schedules of the presence alert
          Points,    \* numbers of corners of an area
          Default,   \* settings/settings.json
          MaxChanges \* bound: commands and pages in a behaviour

\* The fields of a use case: points is the number of corners of its area of interest.
MAX_POINTS == 10
Config == [publish : Publish, aoi : BOOLEAN, points : Points]

\* A file of an earlier version has no schedule.
NoSchedule == "none"
Settings == [config : [Group -> Config], schedule : Schedule \cup {NoSchedule}]

ConstantsAssumption ==
  /\ {"occupancy", "presence", "speed", "radar"} \subseteq Group
  /\ Points \subseteq 0 .. MAX_POINTS
  /\ NoSchedule \notin Schedule
  /\ Default \in Settings /\ Default.schedule # NoSchedule
  /\ MaxChanges \in Nat

VARIABLES
  memory,         \* the settings of the app object
  file,           \* localdata/settings.json: <<settings>>, or <<>> if unreadable
  live,           \* the globals of each use case
  schedule,       \* the schedule of alert.c
  call,           \* the command or page being served: <<>> or <<call>>
  half,           \* a schedule is in memory that alert.c was not given
  saved,          \* the last write of the file left all that was written
  acked,          \* per use case: what its last SET, acknowledged OK, asked for
  acked_schedule, \* the same for the schedule
  changes

vars == <<memory, file, live, schedule, call, half, saved, acked, acked_schedule, changes>>
-----------------------------------------------------------------------------
\* The globals: the corners, or a rectangle: the whole picture, or what two corners span.
Area(points) == CASE points >= 3 -> "corners" [] points = 0 -> "full" [] OTHER -> "span"

\* X_Load_Area_Points, X_Set_Rectangle_Area_Points: from the settings.
Loaded(config) ==
  [publish |-> config.publish, aoi |-> config.aoi, area |-> Area(config.points)]

\* From a command: fewer than three corners stand for the whole picture.
Applied(body) == [Loaded(body) EXCEPT !.area = IF body.points >= 3 THEN "corners" ELSE "full"]

\* An area that is not enabled has no effect.
Effect(l) == IF l.aoi THEN l ELSE [l EXCEPT !.area = "full"]

Live == [publish : Publish, aoi : BOOLEAN, area : {"corners", "full", "span"}]

Transmission == Group \ {"radar"}

\* Load_Transmission_Config, and the settings of the radar itself, loaded apart.
Load(groups, settings) ==
  [g \in Group |-> IF g \in groups THEN Loaded(settings.config[g]) ELSE live[g]]

\* ACAP_Init: what can be read of the file replaces the defaults, use case by use case.
Merged(contents) == IF contents = <<>> THEN Default ELSE contents[1]

Migrated(settings) ==
  [settings EXCEPT !.schedule = IF @ = NoSchedule THEN Default.schedule ELSE @]

\* ACAP_FILE_Write: the file is opened and cut, then written.  A failure of fclose is
\* not noticed.
Outcome == {"written", "not_opened", "cut", "cut_unnoticed"}
Returns(outcome) == outcome \in {"written", "cut_unnoticed"}
ACAP_FILE_Write(outcome) ==
  /\ file' = CASE outcome = "written" -> <<memory>>
               [] outcome = "not_opened" -> file
               [] OTHER -> <<>>
  /\ saved' = (outcome = "written")
-----------------------------------------------------------------------------
Idle == call = <<>>
Serving(op) == call # <<>> /\ call[1].op = op
Serve(op, g, body, s, writes) ==
  call' = <<[op |-> op, group |-> g, body |-> body, schedule |-> s, writes |-> writes]>>

Migrating(contents) ==
  IF Migrated(Merged(contents)) = Merged(contents) THEN <<>>
  ELSE <<[op |-> "migrate", group |-> "radar", body |-> Default.config["radar"],
          schedule |-> NoSchedule, writes |-> 1]>>

Init ==
  /\ file \in {<<>>, <<Default>>, <<[Default EXCEPT !.schedule = NoSchedule]>>}
  /\ memory = Migrated(Merged(file)) /\ call = Migrating(file)
  /\ live = [g \in Group |-> Loaded(memory.config[g])]
  /\ schedule = memory.schedule /\ half = FALSE /\ saved = TRUE
  /\ acked = [g \in Group |-> <<>>] /\ acked_schedule = <<>> /\ changes = 0

\* A request that is served.
Change == Idle /\ changes < MaxChanges /\ changes' = changes + 1

\* ACAP_ENDPOINT_settings: a page posts a use case, in a copy of the whole group.
ACAP_ENDPOINT_settings(g, config, s) ==
  /\ Change
  /\ memory' = [memory EXCEPT !.config[g] = config,
                              !.schedule = IF g = "presence" THEN s ELSE @]
  /\ IF g = "radar" THEN live' = Load({"radar"}, memory') /\ UNCHANGED <<schedule, half>>
     ELSE live' = Load(Transmission, memory') /\ schedule' = memory'.schedule /\ half' = FALSE
  /\ acked' = [acked EXCEPT ![g] = <<>>]
  /\ acked_schedule' = IF g = "presence" THEN <<>> ELSE acked_schedule
  /\ Serve("post", g, config, s, 1)
  /\ UNCHANGED <<file, saved>>

\* The page is told that the settings were updated, whatever became of the write.
Settings_Posted(outcome) ==
  /\ Serving("post")
  /\ ACAP_FILE_Write(outcome) /\ call' = <<>>
  /\ UNCHANGED <<memory, live, schedule, half, acked, acked_schedule, changes>>

\* Apply_Transmission_Config_Body: port 130 sets on, off and interval of a use case.
Apply_Transmission_Config_Body(g, publish) ==
  /\ Change /\ g \in Group \cap {"counting", "occupancy", "presence"}
  /\ memory' = [memory EXCEPT !.config[g].publish = publish]
  /\ Serve("transmission", g, memory.config[g], memory.schedule, 1)
  /\ UNCHANGED <<file, live, schedule, half, saved, acked, acked_schedule>>

Transmission_Restored_Not(g, previous) == memory
Transmission_Restored(g, previous) == [memory EXCEPT !.config[g] = previous]

Transmission_Written(outcome) ==
  /\ Serving("transmission")
  /\ ACAP_FILE_Write(outcome) /\ call' = <<>>
  /\ LET g == call[1].group IN
     \/ /\ Returns(outcome)
        /\ live' = Load(Transmission, memory) /\ schedule' = memory.schedule /\ half' = FALSE
        /\ acked' = [acked EXCEPT ![g] = <<memory.config[g]>>]
        /\ UNCHANGED <<memory, acked_schedule>>
     \/ /\ ~Returns(outcome)
        /\ memory' = Transmission_Restored(g, call[1].body)
        /\ UNCHANGED <<live, schedule, half, acked, acked_schedule>>
  /\ UNCHANGED changes
-----------------------------------------------------------------------------
\* Ports 132, 133 and 134, in their frames and, for two of them, in the 48 bytes of
\* earlier versions, which a frame that cannot be decoded is taken for.
Framed(body) == (body.points = 0 \/ body.points >= 3) /\ (body.aoi => body.points > 0)
Legacy_AnyPoints(body) == TRUE
Legacy(body) == body.aoi => body.points = 0 \/ body.points >= 3

Stored_NoArea(g, body) == [body EXCEPT !.aoi = memory.config[g].aoi,
                                       !.points = memory.config[g].points]
Stored(g, body) == body

\* The globals first, the settings in memory next: Update_X_Settings_JSON.
Apply_Set_Config(g, body, s, writes) ==
  /\ Change
  /\ live' = [live EXCEPT ![g] = Applied(body)]
  /\ memory' = [memory EXCEPT !.config[g] = Stored(g, body)]
  /\ acked' = [acked EXCEPT ![g] = <<>>]
  /\ Serve("service", g, body, s, writes)
  /\ UNCHANGED <<file, schedule, half, saved>>

\* 48 bytes: applied and saved once; the schedule is left alone.
Apply_Occupancy_OTA_Set_Config(body) ==
  /\ Legacy(body) /\ Apply_Set_Config("occupancy", body, NoSchedule, 1)
  /\ UNCHANGED acked_schedule
Apply_Alert_OTA_Set_Config(body) ==
  /\ Legacy(body) /\ Apply_Set_Config("presence", body, NoSchedule, 1)
  /\ UNCHANGED acked_schedule

\* A frame: turned into the 48 bytes, then saved once more.
Apply_Occupancy_Framed_Body(body) ==
  /\ Framed(body) /\ Apply_Set_Config("occupancy", body, NoSchedule, 2)
  /\ UNCHANGED acked_schedule
Apply_Alert_Framed_Body(body, s) ==
  /\ Framed(body) /\ Apply_Set_Config("presence", body, s, 2)
  /\ acked_schedule' = <<>>
Apply_Speed_Framed_Body(body) ==
  /\ Framed(body) /\ Apply_Set_Config("speed", body, NoSchedule, 1)
  /\ UNCHANGED acked_schedule

\* Update_Occupancy_Settings_JSON and Update_Alert_Settings_JSON return 1 whatever became
\* of the write; Update_Speed_Settings_JSON returns its result, with all that was changed
\* left as it is.  The frame of the alert goes on with its schedule.
Service_Written(outcome) ==
  /\ Serving("service")
  /\ ACAP_FILE_Write(outcome)
  /\ LET c == call[1]  g == c.group IN
     \/ /\ c.writes > 1
        /\ call' = <<[c EXCEPT !.writes = @ - 1]>>
        /\ UNCHANGED <<memory, acked>>
     \/ /\ c.writes = 1 /\ c.schedule = NoSchedule
        /\ call' = <<>>
        /\ acked' = IF g = "speed" => Returns(outcome) THEN [acked EXCEPT ![g] = <<c.body>>]
                    ELSE acked
        /\ UNCHANGED memory
     \/ /\ c.writes = 1 /\ c.schedule # NoSchedule
        /\ memory' = [memory EXCEPT !.schedule = c.schedule]
        /\ call' = <<[c EXCEPT !.op = "schedule"]>>
        /\ UNCHANGED acked
  /\ UNCHANGED <<live, schedule, half, acked_schedule, changes>>

\* Update_Alert_Schedule_JSON: alert.c is given the schedule only once it is saved.
Update_Alert_Schedule_JSON(outcome) ==
  /\ Serving("schedule")
  /\ ACAP_FILE_Write(outcome) /\ call' = <<>>
  /\ \/ /\ Returns(outcome)
        /\ schedule' = memory.schedule /\ half' = FALSE
        /\ acked' = [acked EXCEPT !["presence"] = <<call[1].body>>]
        /\ acked_schedule' = <<memory.schedule>>
     \/ /\ ~Returns(outcome)
        /\ half' = TRUE
        /\ UNCHANGED <<schedule, acked, acked_schedule>>
  /\ UNCHANGED <<memory, live, changes>>

\* The app stops, anywhere, and is started again: ACAP_Init, Migrate_Settings and the
\* loading of main.  A file of an earlier version is written over.
Restart ==
  /\ memory' = Migrated(Merged(file))
  /\ live' = [g \in Group |-> Loaded(memory'.config[g])]
  /\ schedule' = memory'.schedule /\ half' = FALSE
  /\ acked' = IF saved THEN acked ELSE [g \in Group |-> <<>>]
  /\ acked_schedule' = IF saved THEN acked_schedule ELSE <<>>
  /\ call' = Migrating(file)
  /\ UNCHANGED <<file, saved, changes>>

Migrate_Settings(outcome) ==
  /\ Serving("migrate")
  /\ ACAP_FILE_Write(outcome) /\ call' = <<>>
  /\ UNCHANGED <<memory, live, schedule, half, acked, acked_schedule, changes>>

\* The answers to GET: of port 130, from the settings; of ports 132, 133 and 134, from the
\* globals, the schedule of the alert aside; and in the 48 bytes of earlier versions, that
\* tell no corners of an area that is not enabled.
Build_Transmission_Config_Body(g) == memory.config[g].publish
Build_Framed_Body(g) == live[g]
Read_Alert_Schedule == memory.schedule
Config_Response(g) == IF live[g].aoi THEN live[g] ELSE [live[g] EXCEPT !.area = "full"]

Written(outcome) ==
  \/ Settings_Posted(outcome) \/ Transmission_Written(outcome) \/ Service_Written(outcome)
  \/ Update_Alert_Schedule_JSON(outcome) \/ Migrate_Settings(outcome)

Next ==
  \/ \E g \in Group, config \in Config, s \in Schedule : ACAP_ENDPOINT_settings(g, config, s)
  \/ \E g \in Group, publish \in Publish : Apply_Transmission_Config_Body(g, publish)
  \/ \E body \in Config :
       \/ Apply_Occupancy_OTA_Set_Config(body) \/ Apply_Alert_OTA_Set_Config(body)
       \/ Apply_Occupancy_Framed_Body(body) \/ Apply_Speed_Framed_Body(body)
       \/ \E s \in Schedule : Apply_Alert_Framed_Body(body, s)
  \/ \E outcome \in Outcome : Written(outcome)
  \/ Restart

Spec == Init /\ [][Next]_vars
-----------------------------------------------------------------------------
\* The types.
TypeOK ==
  /\ memory \in [config : [Group -> Config], schedule : Schedule]
  /\ file = <<>> \/ file[1] \in Settings
  /\ live \in [Group -> Live] /\ schedule \in Schedule
  /\ half \in BOOLEAN /\ saved \in BOOLEAN
  /\ changes \in 0 .. MaxChanges

\* What a SET was acknowledged OK for stays in effect, whatever else is asked for,
\* refused, rolled back, loaded again or saved in the middle of a stop, until the same
\* use case is set again, or the app restarts from a file that a failed write left
\* behind (handlers of ports 130 to 134, main.c:928-1857; ACAP.c:1455-1483).
AckedHolds ==
  /\ \A g \in Group : acked[g] # <<>> => Effect(live[g]) = Effect(Loaded(acked[g][1]))
  /\ acked_schedule # <<>> => schedule = acked_schedule[1]

\* Between commands the settings that the pages read are those in effect, also after a
\* write that failed, and the answers to GET, in each of their forms and from each of
\* their sources, are the same; only the schedule of an alert command that ended in
\* APPLY_FAILED is told and not in effect (Apply_Transmission_Config_Body, main.c:957-970;
\* Build_X_Framed_Body, Send_X_OTA_Config_Response; Read_Alert_Schedule and
\* Update_Alert_Schedule_JSON, 1581-1629).
StoredInEffect ==
  Idle =>
    /\ \A g \in Group :
         LET stored == Loaded(memory.config[g]) IN
         /\ Effect(Build_Framed_Body(g)) = Effect(stored)
         /\ Config_Response(g) = Effect(stored)
         /\ Build_Transmission_Config_Body(g) = Build_Framed_Body(g).publish
    /\ half \/ schedule = Read_Alert_Schedule
=============================================================================
