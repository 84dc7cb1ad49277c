--------------------------- MODULE AppPartsProofs ---------------------------
(***************************************************************************)
(* Proofs about parts of the apps that share no state, for any values of   *)
(* their constants.                                                        *)
(***************************************************************************)
EXTENDS AppParts, SequenceTheorems, FiniteSetTheorems, WellFoundedInduction, TLAPS

(***************************************************************************)
(* The settings of radar.  While a command is served the settings in       *)
(* memory may be ahead of what is in effect, or back from what they were:  *)
(* InEffect says where the settings in effect are found at each point.     *)
(***************************************************************************)
RadarCall ==
  [op : {"post", "transmission", "service", "schedule", "migrate"}, group : Group,
   body : R!Config, schedule : RadarSchedule \cup {R!NoSchedule}, writes : {1, 2}]
Asked == {<<>>} \cup {<<c>> : c \in R!Config}
RadarTypes ==
  /\ settings \in [config : [Group -> R!Config], schedule : RadarSchedule]
  /\ settings_file = <<>> \/ \E s \in R!Settings : settings_file = <<s>>
  /\ live \in [Group -> R!Live] /\ schedule \in RadarSchedule
  /\ request = <<>> \/ \E c \in RadarCall : request = <<c>>
  /\ half \in BOOLEAN /\ saved \in BOOLEAN /\ requests \in 0 .. MaxRequests
  /\ set \in [Group -> Asked]
  /\ set_schedule \in {<<>>} \cup {<<s>> : s \in RadarSchedule}

\* Configurations with the same effect.
Same(one, other) == R!Effect(R!Loaded(one)) = R!Effect(R!Loaded(other))

InEffect(g) ==
  IF R!Serving("transmission") /\ request[1].group = g THEN request[1].body
  ELSE settings.config[g]

OnFile == R!Migrated(R!Merged(settings_file))

\* What is set over the air is stored before it is acknowledged.
Requested ==
  /\ R!Serving("service") \/ R!Serving("schedule") =>
       settings.config[request[1].group] = request[1].body
  /\ R!Serving("transmission") => request[1].group # "radar"
  /\ R!Serving("schedule") => request[1].group = "presence" /\ set_schedule = <<>>
  /\ R!Serving("service") /\ request[1].schedule # R!NoSchedule =>
       request[1].group = "presence" /\ set_schedule = <<>>

GroupsHold ==
  \A g \in Group :
    /\ R!Effect(live[g]) = R!Effect(R!Loaded(InEffect(g)))
    /\ set[g] # <<>> => /\ Same(set[g][1], InEffect(g))
                        /\ saved => Same(set[g][1], OnFile.config[g])

ScheduleHolds ==
  /\ half \/ R!Serving("schedule") \/ schedule = settings.schedule
  /\ set_schedule # <<>> =>
       /\ ~half /\ settings.schedule = set_schedule[1] /\ schedule = set_schedule[1]
       /\ saved => OnFile.schedule = set_schedule[1]

RInv == RadarTypes /\ Requested /\ GroupsHold /\ ScheduleHolds

LEMMA RadarHolds ==
  ASSUME R!ConstantsAssumption, RInv
  PROVE  R!TypeOK /\ R!AckedHolds /\ R!StoredInEffect
<1>1. R!TypeOK
  BY DEF RInv, RadarTypes, R!TypeOK
<1>2. R!AckedHolds
  <2>1. SUFFICES ASSUME NEW g \in Group, set[g] # <<>>
                 PROVE  R!Effect(live[g]) = R!Effect(R!Loaded(set[g][1]))
    BY DEF RInv, ScheduleHolds, R!AckedHolds
  <2> QED
    BY <2>1 DEF RInv, GroupsHold, Same
<1>3. R!StoredInEffect
  <2>1. SUFFICES ASSUME R!Idle
                 PROVE  R!StoredInEffect
    BY DEF R!StoredInEffect
  <2>2. ~R!Serving("schedule") /\ ~R!Serving("transmission")
    BY <2>1 DEF R!Idle, R!Serving
  <2>3. ASSUME NEW g \in Group
        PROVE  /\ R!Effect(R!Build_Framed_Body(g)) = R!Effect(R!Loaded(settings.config[g]))
               /\ R!Config_Response(g) = R!Effect(R!Loaded(settings.config[g]))
               /\ R!Build_Transmission_Config_Body(g) = R!Build_Framed_Body(g).publish
    <3>1. R!Effect(live[g]) = R!Effect(R!Loaded(settings.config[g]))
      BY <2>2 DEF RInv, GroupsHold, InEffect
    <3>2. R!Config_Response(g) = R!Effect(live[g])
      BY DEF R!Config_Response, R!Effect
    <3>3. live[g] \in R!Live /\ settings.config[g] \in R!Config
      BY DEF RInv, RadarTypes
    <3>4. R!Loaded(settings.config[g]) \in R!Live
      BY <3>3 DEF R!Loaded, R!Live, R!Config, R!Area
    <3>5. ASSUME NEW l \in R!Live
          PROVE  R!Effect(l).publish = l.publish
      BY DEF R!Effect, R!Live
    <3>6. R!Loaded(settings.config[g]).publish = settings.config[g].publish
      BY DEF R!Loaded
    <3> QED
      BY <3>1, <3>2, <3>3, <3>4, <3>5, <3>6
      DEF R!Build_Framed_Body, R!Build_Transmission_Config_Body
  <2> QED
    BY <2>1, <2>2, <2>3 DEF RInv, ScheduleHolds, R!StoredInEffect, R!Read_Alert_Schedule
<1> QED
  BY <1>1, <1>2, <1>3

\* A file that has no schedule takes that of the defaults.
LEMMA FileTyped ==
  ASSUME R!ConstantsAssumption, NEW f, f = <<>> \/ \E s \in R!Settings : f = <<s>>
  PROVE  /\ R!Migrated(R!Merged(f)) \in [config : [Group -> R!Config], schedule : RadarSchedule]
         /\ R!Migrating(f) = <<>> \/ \E c \in RadarCall : R!Migrating(f) = <<c>> /\ c.op = "migrate"
<1>1. RadarDefault \in R!Settings /\ RadarDefault.schedule \in RadarSchedule
  BY DEF R!ConstantsAssumption, R!Settings
<1>2. R!Merged(f) \in R!Settings
  BY <1>1 DEF R!Merged
<1>3. R!Migrated(R!Merged(f)) \in [config : [Group -> R!Config], schedule : RadarSchedule]
  BY <1>1, <1>2 DEF R!Migrated, R!Settings, R!ConstantsAssumption
<1>4. RadarDefault.config["radar"] \in R!Config
  BY <1>1 DEF R!Settings, R!ConstantsAssumption
<1>5. [op |-> "migrate", group |-> "radar", body |-> RadarDefault.config["radar"],
       schedule |-> R!NoSchedule, writes |-> 1] \in RadarCall
  BY <1>4 DEF RadarCall, R!ConstantsAssumption
<1> QED
  BY <1>3, <1>5 DEF R!Migrating

\* What is written is what the next start reads.
LEMMA WrittenIsRead ==
  ASSUME R!ConstantsAssumption, RadarTypes
  PROVE  R!Migrated(R!Merged(<<settings>>)) = settings
<1>1. settings.schedule # R!NoSchedule
  BY DEF RadarTypes, R!ConstantsAssumption
<1>2. R!Merged(<<settings>>) = settings
  BY DEF R!Merged
<1> QED
  BY <1>1, <1>2 DEF R!Migrated, RadarTypes

LEMMA NoneAsked ==
  /\ <<>> \in Asked /\ [g \in Group |-> <<>>] \in [Group -> Asked]
  /\ \A c \in R!Config : <<c>> \in Asked
<1>1. <<>> \in Asked /\ \A c \in R!Config : <<c>> \in Asked
  BY DEF Asked
<1> QED
  BY <1>1

LEMMA RadarStarts ==
  ASSUME R!ConstantsAssumption, R!Init
  PROVE  RInv
<1>1. settings_file = <<>> \/ \E s \in R!Settings : settings_file = <<s>>
  BY DEF R!Init, R!ConstantsAssumption, R!Settings
<1>2. /\ settings = OnFile
      /\ settings \in [config : [Group -> R!Config], schedule : RadarSchedule]
      /\ request = <<>> \/ \E c \in RadarCall : request = <<c>> /\ c.op = "migrate"
  BY <1>1, FileTyped DEF R!Init, OnFile
<1>3. live \in [Group -> R!Live]
  <2>1. \A g \in Group : R!Loaded(settings.config[g]) \in R!Live
    BY <1>2 DEF R!Loaded, R!Live, R!Config, R!Area
  <2> QED
    BY <2>1 DEF R!Init
<1>4. RadarTypes
  <2>1. schedule \in RadarSchedule /\ half \in BOOLEAN /\ saved \in BOOLEAN
    <3>1. settings.schedule \in RadarSchedule
      BY <1>2
    <3> QED
      BY <3>1 DEF R!Init
  <2>2. set \in [Group -> Asked]
    BY NoneAsked DEF R!Init
  <2> QED
    BY <1>1, <1>2, <1>3, <2>1, <2>2 DEF R!Init, RadarTypes, R!ConstantsAssumption
<1>5. ~R!Serving("transmission") /\ ~R!Serving("service") /\ ~R!Serving("schedule")
  BY <1>2 DEF R!Serving
<1>6. GroupsHold
  BY <1>5 DEF R!Init, GroupsHold, InEffect
<1> QED
  BY <1>4, <1>5, <1>6 DEF RInv, Requested, ScheduleHolds, R!Init

\* A page loads what it stores.
LEMMA RadarPosted ==
  ASSUME R!ConstantsAssumption, RInv,
         NEW g \in Group, NEW config \in R!Config, NEW s \in RadarSchedule,
         R!ACAP_ENDPOINT_settings(g, config, s)
  PROVE  RInv'
<1> USE DEF RInv
<1>1. request = <<>> /\ requests' \in 0 .. MaxRequests
  BY DEF R!ACAP_ENDPOINT_settings, R!Change, R!Idle, RadarTypes, R!ConstantsAssumption
<1>2. request' = <<[op |-> "post", group |-> g, body |-> config, schedule |-> s, writes |-> 1]>>
  BY DEF R!ACAP_ENDPOINT_settings, R!Serve
<1>3. /\ ~R!Serving("transmission") /\ ~R!Serving("service") /\ ~R!Serving("schedule")
      /\ ~R!Serving("transmission")' /\ ~R!Serving("service")' /\ ~R!Serving("schedule")'
  BY <1>1, <1>2 DEF R!Serving
<1>4. /\ settings' \in [config : [Group -> R!Config], schedule : RadarSchedule]
      /\ \A h \in Group : settings'.config[h] = IF h = g THEN config ELSE settings.config[h]
      /\ g # "presence" => settings'.schedule = settings.schedule
  BY DEF R!ACAP_ENDPOINT_settings, RadarTypes
<1>5. \A h \in Group :
        live'[h] = IF h = "radar" <=> g = "radar" THEN R!Loaded(settings'.config[h]) ELSE live[h]
  BY DEF R!ACAP_ENDPOINT_settings, R!Load, R!Transmission
<1>6. live' \in [Group -> R!Live]
  <2>1. \A h \in Group : R!Loaded(settings'.config[h]) \in R!Live
    BY <1>4 DEF R!Loaded, R!Live, R!Config, R!Area
  <2>2. live' = [h \in Group |-> live'[h]]
    BY DEF R!ACAP_ENDPOINT_settings, R!Load
  <2> QED
    BY <1>5, <2>1, <2>2 DEF RadarTypes
<1>7. /\ set' = [set EXCEPT ![g] = <<>>] /\ set \in [Group -> Asked]
      /\ set_schedule' = IF g = "presence" THEN <<>> ELSE set_schedule
      /\ settings_file' = settings_file /\ saved' = saved
      /\ IF g = "radar" THEN schedule' = schedule /\ half' = half
         ELSE schedule' = settings'.schedule /\ half' = FALSE
  BY DEF R!ACAP_ENDPOINT_settings, RadarTypes
<1>8. RadarTypes'
  <2>1. [op |-> "post", group |-> g, body |-> config, schedule |-> s, writes |-> 1] \in RadarCall
    BY DEF RadarCall
  <2>2. set' \in [Group -> Asked] /\ set_schedule' \in {<<>>} \cup {<<x>> : x \in RadarSchedule}
    BY <1>7, NoneAsked DEF RadarTypes
  <2>3. schedule' \in RadarSchedule /\ half' \in BOOLEAN
    BY <1>4, <1>7 DEF RadarTypes
  <2> QED
    BY <1>1, <1>2, <1>4, <1>6, <1>7, <2>1, <2>2, <2>3 DEF RadarTypes
<1>9. GroupsHold'
  <2> SUFFICES ASSUME NEW h \in Group
               PROVE  /\ R!Effect(live'[h]) = R!Effect(R!Loaded(settings'.config[h]))
                      /\ set'[h] # <<>> => /\ Same(set'[h][1], settings'.config[h])
                                           /\ saved' => Same(set'[h][1], OnFile'.config[h])
    BY <1>3 DEF GroupsHold, InEffect, Same
  <2>1. R!Effect(live'[h]) = R!Effect(R!Loaded(settings'.config[h]))
    BY <1>3, <1>4, <1>5 DEF GroupsHold, InEffect
  <2>2. OnFile' = OnFile
    BY <1>7 DEF OnFile
  <2>3. set'[h] # <<>> => h # g /\ set'[h] = set[h]
    BY <1>7
  <2> QED
    BY <1>3, <1>4, <1>7, <2>1, <2>2, <2>3 DEF GroupsHold, InEffect
<1>10. OnFile' = OnFile
  BY <1>7 DEF OnFile
<1>11. ScheduleHolds'
  BY <1>3, <1>4, <1>7, <1>10 DEF ScheduleHolds
<1> QED
  BY <1>3, <1>8, <1>9, <1>11 DEF Requested

\* Whatever becomes of a write, the settings stand; what it leaves on the file is what was
\* in memory if it is said to be saved.
LEMMA FileWritten ==
  ASSUME R!ConstantsAssumption, RInv, NEW outcome \in R!Outcome, R!ACAP_FILE_Write(outcome)
  PROVE  /\ settings_file' = <<>> \/ \E s \in R!Settings : settings_file' = <<s>>
         /\ saved' \in BOOLEAN
         /\ saved' => outcome = "written" /\ OnFile' = settings
<1>1. settings \in R!Settings
  BY DEF RInv, RadarTypes, R!Settings
<1>2. saved' => settings_file' = <<settings>>
  BY DEF R!ACAP_FILE_Write
<1> QED
  BY <1>1, <1>2, WrittenIsRead DEF RInv, RadarTypes, R!ACAP_FILE_Write, OnFile

\* What is done in the end with a page, or with a file that was migrated.
LEMMA RadarSaved ==
  ASSUME R!ConstantsAssumption, RInv, NEW outcome \in R!Outcome,
         R!Settings_Posted(outcome) \/ R!Migrate_Settings(outcome)
  PROVE  RInv'
<1> USE DEF RInv
<1>1. /\ R!ACAP_FILE_Write(outcome) /\ request' = <<>>
      /\ UNCHANGED <<settings, live, schedule, half, set, set_schedule, requests>>
      /\ ~R!Serving("transmission") /\ ~R!Serving("service") /\ ~R!Serving("schedule")
  BY DEF R!Settings_Posted, R!Migrate_Settings, R!Serving
<1>2. /\ settings_file' = <<>> \/ \E s \in R!Settings : settings_file' = <<s>>
      /\ saved' \in BOOLEAN
      /\ saved' => OnFile' = settings
  BY <1>1, FileWritten
<1>3. ~R!Serving("transmission")' /\ ~R!Serving("service")' /\ ~R!Serving("schedule")'
  BY <1>1 DEF R!Serving
<1>4. RadarTypes'
  BY <1>1, <1>2 DEF RadarTypes
<1>5. GroupsHold'
  BY <1>1, <1>2, <1>3 DEF GroupsHold, InEffect, Same
<1>6. ScheduleHolds'
  BY <1>1, <1>2, <1>3 DEF ScheduleHolds
<1> QED
  BY <1>3, <1>4, <1>5, <1>6 DEF Requested

\* Port 130: until its write is done, what is in effect is what was replaced.
LEMMA TransmissionSet ==
  ASSUME R!ConstantsAssumption, RInv, NEW g \in Group, NEW publish \in Publish,
         R!Apply_Transmission_Config_Body(g, publish)
  PROVE  RInv'
<1> USE DEF RInv
<1>1. request = <<>> /\ requests' \in 0 .. MaxRequests
  BY DEF R!Apply_Transmission_Config_Body, R!Change, R!Idle, RadarTypes, R!ConstantsAssumption
<1>2. /\ request' = <<[op |-> "transmission", group |-> g, body |-> settings.config[g],
                       schedule |-> settings.schedule, writes |-> 1]>>
      /\ g # "radar"
      /\ UNCHANGED <<settings_file, live, schedule, half, saved, set, set_schedule>>
  BY DEF R!Apply_Transmission_Config_Body, R!Serve
<1>3. /\ ~R!Serving("transmission") /\ ~R!Serving("service") /\ ~R!Serving("schedule")
      /\ R!Serving("transmission")' /\ ~R!Serving("service")' /\ ~R!Serving("schedule")'
  BY <1>1, <1>2 DEF R!Serving
<1>4. /\ settings' \in [config : [Group -> R!Config], schedule : RadarSchedule]
      /\ \A h \in Group \ {g} : settings'.config[h] = settings.config[h]
      /\ settings'.schedule = settings.schedule
  BY DEF R!Apply_Transmission_Config_Body, RadarTypes, R!Config
<1>5. RadarTypes'
  <2>1. [op |-> "transmission", group |-> g, body |-> settings.config[g],
         schedule |-> settings.schedule, writes |-> 1] \in RadarCall
    BY DEF RadarCall, RadarTypes
  <2> QED
    BY <1>1, <1>2, <1>4, <2>1 DEF RadarTypes
<1>6. OnFile' = OnFile
  BY <1>2 DEF OnFile
<1>7. \A h \in Group : InEffect(h)' = InEffect(h)
  BY <1>2, <1>3, <1>4 DEF InEffect
<1>8. GroupsHold'
  BY <1>2, <1>6, <1>7 DEF GroupsHold, Same
<1>9. ScheduleHolds'
  BY <1>2, <1>3, <1>4, <1>6 DEF ScheduleHolds
<1> QED
  BY <1>2, <1>3, <1>5, <1>8, <1>9 DEF Requested

LEMMA LoadedTyped ==
  ASSUME NEW config \in R!Config
  PROVE  R!Loaded(config) \in R!Live /\ R!Applied(config) \in R!Live
BY DEF R!Loaded, R!Applied, R!Live, R!Config, R!Area

\* It is then put into effect, or back into the settings.
LEMMA TransmissionWritten ==
  ASSUME R!ConstantsAssumption, RInv, NEW outcome \in R!Outcome,
         R!Transmission_Written(outcome)
  PROVE  RInv'
<1> USE DEF RInv
<1>1. PICK c \in RadarCall : request = <<c>> /\ c.op = "transmission" /\ c.group # "radar"
  BY DEF R!Transmission_Written, R!Serving, RadarTypes, Requested
<1> DEFINE g == c.group
<1>2. g \in Group /\ c.body \in R!Config
  BY DEF RadarCall
<1>3. /\ settings_file' = <<>> \/ \E s \in R!Settings : settings_file' = <<s>>
      /\ saved' \in BOOLEAN
      /\ saved' => outcome = "written" /\ OnFile' = settings
      /\ request' = <<>> /\ requests' = requests /\ set_schedule' = set_schedule
  BY FileWritten DEF R!Transmission_Written
<1>4. /\ R!Serving("transmission") /\ ~R!Serving("service") /\ ~R!Serving("schedule")
      /\ ~R!Serving("transmission")' /\ ~R!Serving("service")' /\ ~R!Serving("schedule")'
  BY <1>1, <1>3 DEF R!Serving
<1>5. \A h \in Group : InEffect(h) = IF h = g THEN c.body ELSE settings.config[h]
  BY <1>1, <1>4 DEF InEffect
<1>6. \A h \in Group : InEffect(h)' = settings'.config[h]
  BY <1>4 DEF InEffect
<1>7. CASE /\ live' = R!Load(R!Transmission, settings) /\ schedule' = settings.schedule
           /\ half' = FALSE /\ set' = [set EXCEPT ![g] = <<settings.config[g]>>]
           /\ settings' = settings
  <2>1. \A h \in Group :
          live'[h] = IF h = "radar" THEN live[h] ELSE R!Loaded(settings.config[h])
    BY <1>7 DEF R!Load, R!Transmission
  <2>2. live' \in [Group -> R!Live]
    <3>1. live' = [h \in Group |-> live'[h]]
      BY <1>7 DEF R!Load
    <3>2. \A h \in Group : R!Loaded(settings.config[h]) \in R!Live
      BY LoadedTyped DEF RadarTypes
    <3> QED
      BY <2>1, <3>1, <3>2 DEF RadarTypes
  <2>3. set' \in [Group -> Asked]
    BY <1>2, <1>7, NoneAsked DEF RadarTypes
  <2>4. RadarTypes'
    BY <1>3, <1>7, <2>2, <2>3 DEF RadarTypes
  <2>5. GroupsHold'
    <3> SUFFICES ASSUME NEW h \in Group
                 PROVE  /\ R!Effect(live'[h]) = R!Effect(R!Loaded(settings.config[h]))
                        /\ set'[h] # <<>> => /\ Same(set'[h][1], settings.config[h])
                                             /\ saved' => Same(set'[h][1], OnFile'.config[h])
      BY <1>6, <1>7 DEF GroupsHold, Same
    <3>1. R!Effect(live'[h]) = R!Effect(R!Loaded(settings.config[h]))
      BY <1>1, <1>5, <2>1 DEF GroupsHold
    <3>2. set'[h] # <<>> => Same(set'[h][1], settings.config[h])
      BY <1>2, <1>5, <1>7 DEF GroupsHold, Same, RadarTypes
    <3> QED
      BY <1>3, <3>1, <3>2
  <2>6. ScheduleHolds'
    BY <1>3, <1>4, <1>7 DEF ScheduleHolds
  <2> QED
    BY <1>4, <2>4, <2>5, <2>6 DEF Requested
<1>8. CASE /\ outcome # "written" /\ settings' = [settings EXCEPT !.config[g] = c.body]
           /\ UNCHANGED <<live, schedule, half, set>>
  <2>1. ~saved'
    BY <1>3, <1>8
  <2>2. /\ settings' \in [config : [Group -> R!Config], schedule : RadarSchedule]
        /\ \A h \in Group : settings'.config[h] = InEffect(h)
        /\ settings'.schedule = settings.schedule
    BY <1>2, <1>5, <1>8 DEF RadarTypes
  <2>3. RadarTypes'
    BY <1>3, <1>8, <2>2 DEF RadarTypes
  <2>4. GroupsHold'
    BY <1>6, <1>8, <2>1, <2>2 DEF GroupsHold, Same
  <2>5. ScheduleHolds'
    BY <1>3, <1>4, <1>8, <2>1, <2>2 DEF ScheduleHolds
  <2> QED
    BY <1>4, <2>3, <2>4, <2>5 DEF Requested
<1> QED
  BY <1>1, <1>7, <1>8 DEF R!Transmission_Written, R!Transmission_Restored, R!Returns

\* A frame whose area is enabled has corners, at least three; an area that is not enabled
\* has no effect.  What is applied is then what would be loaded.
LEMMA AppliedSame ==
  ASSUME NEW body \in R!Config, Points \subseteq Nat, R!Framed(body) \/ R!Legacy(body)
  PROVE  R!Effect(R!Applied(body)) = R!Effect(R!Loaded(body))
<1>1. CASE body.aoi
  <2>1. body.points \in Nat /\ (body.points = 0 \/ body.points >= 3)
    BY <1>1 DEF R!Framed, R!Legacy, R!Config
  <2>2. R!Area(body.points) = IF body.points >= 3 THEN "corners" ELSE "full"
    BY <2>1 DEF R!Area
  <2>3. R!Applied(body) = R!Loaded(body)
    BY <2>2 DEF R!Applied, R!Loaded
  <2> QED
    BY <2>3
<1>2. CASE ~body.aoi
  BY <1>2 DEF R!Applied, R!Loaded, R!Effect
<1> QED
  BY <1>1, <1>2

\* Ports 132, 133 and 134.
LEMMA ServiceSet ==
  ASSUME R!ConstantsAssumption, RInv, NEW g \in Group, NEW body \in R!Config,
         NEW s \in RadarSchedule \cup {R!NoSchedule}, NEW writes \in {1, 2},
         R!Framed(body) \/ R!Legacy(body),
         R!Apply_Set_Config(g, body, s, writes),
         IF s = R!NoSchedule THEN UNCHANGED set_schedule
         ELSE g = "presence" /\ set_schedule' = <<>>
  PROVE  RInv'
<1> USE DEF RInv
<1>1. request = <<>> /\ requests' \in 0 .. MaxRequests
  BY DEF R!Apply_Set_Config, R!Change, R!Idle, RadarTypes, R!ConstantsAssumption
<1>2. /\ request' = <<[op |-> "service", group |-> g, body |-> body, schedule |-> s,
                       writes |-> writes]>>
      /\ UNCHANGED <<settings_file, schedule, half, saved>>
      /\ live' = [live EXCEPT ![g] = R!Applied(body)]
      /\ settings' = [settings EXCEPT !.config[g] = body]
      /\ set' = [set EXCEPT ![g] = <<>>]
  BY DEF R!Apply_Set_Config, R!Serve, R!Stored
<1>3. /\ ~R!Serving("transmission") /\ ~R!Serving("service") /\ ~R!Serving("schedule")
      /\ ~R!Serving("transmission")' /\ R!Serving("service")' /\ ~R!Serving("schedule")'
  BY <1>1, <1>2 DEF R!Serving
<1>4. /\ settings' \in [config : [Group -> R!Config], schedule : RadarSchedule]
      /\ \A h \in Group : settings'.config[h] = IF h = g THEN body ELSE settings.config[h]
      /\ settings'.schedule = settings.schedule
  BY <1>2 DEF RadarTypes
<1>5. set_schedule' \in {set_schedule, <<>>} /\ (s # R!NoSchedule => set_schedule' = <<>>)
  OBVIOUS
<1>6. RadarTypes'
  <2>1. [op |-> "service", group |-> g, body |-> body, schedule |-> s,
         writes |-> writes] \in RadarCall
    BY DEF RadarCall
  <2>2. set' \in [Group -> Asked]
    BY <1>2, NoneAsked DEF RadarTypes
  <2>3. live' \in [Group -> R!Live]
    BY <1>2, LoadedTyped DEF RadarTypes
  <2> QED
    BY <1>1, <1>2, <1>4, <1>5, <2>1, <2>2, <2>3 DEF RadarTypes
<1>7. OnFile' = OnFile
  BY <1>2 DEF OnFile
<1>8. R!Effect(R!Applied(body)) = R!Effect(R!Loaded(body))
  <2>1. Points \subseteq Nat
    BY DEF R!ConstantsAssumption
  <2> QED
    BY <2>1, AppliedSame
<1>9. GroupsHold'
  <2> SUFFICES ASSUME NEW h \in Group
               PROVE  /\ R!Effect(live'[h]) = R!Effect(R!Loaded(settings'.config[h]))
                      /\ set'[h] # <<>> => /\ Same(set'[h][1], settings'.config[h])
                                           /\ saved' => Same(set'[h][1], OnFile'.config[h])
    BY <1>3 DEF GroupsHold, InEffect, Same
  <2>1. CASE h = g
    <3>1. set'[h] = <<>> /\ live'[h] = R!Applied(body)
      BY <1>2, <2>1 DEF RadarTypes
    <3> QED
      BY <1>4, <1>8, <2>1, <3>1
  <2>2. CASE h # g
    <3>1. set'[h] = set[h] /\ live'[h] = live[h] /\ settings'.config[h] = settings.config[h]
      BY <1>2, <1>4, <2>2 DEF RadarTypes
    <3> QED
      BY <1>2, <1>3, <1>7, <3>1 DEF GroupsHold, InEffect
  <2> QED
    BY <2>1, <2>2
<1>10. ScheduleHolds'
  BY <1>2, <1>3, <1>4, <1>5, <1>7 DEF ScheduleHolds
<1>11. Requested'
  BY <1>2, <1>3, <1>4, <1>5 DEF Requested
<1> QED
  BY <1>6, <1>9, <1>10, <1>11

\* They are saved, once or twice, and acknowledged whatever became of it, but for speed.
LEMMA ServiceWritten ==
  ASSUME R!ConstantsAssumption, RInv, NEW outcome \in R!Outcome, R!Service_Written(outcome)
  PROVE  RInv'
<1> USE DEF RInv
<1>1. PICK c \in RadarCall : request = <<c>> /\ c.op = "service"
  BY DEF R!Service_Written, R!Serving, RadarTypes
<1>2. c.group \in Group /\ c.body \in R!Config /\ c.writes \in {1, 2}
  BY DEF RadarCall
<1>3. /\ settings_file' = <<>> \/ \E s \in R!Settings : settings_file' = <<s>>
      /\ saved' \in BOOLEAN
      /\ saved' => outcome = "written" /\ OnFile' = settings
      /\ UNCHANGED <<live, schedule, half, set_schedule, requests>>
  BY FileWritten DEF R!Service_Written
<1>4. /\ ~R!Serving("transmission") /\ R!Serving("service") /\ ~R!Serving("schedule")
      /\ settings.config[c.group] = c.body
      /\ c.schedule # R!NoSchedule => c.group = "presence" /\ set_schedule = <<>>
  BY <1>1 DEF R!Serving, Requested
<1>5. \A h \in Group : InEffect(h) = settings.config[h]
  BY <1>4 DEF InEffect
<1>6. CASE request' = <<[c EXCEPT !.writes = @ - 1]>> /\ c.writes = 2 /\ UNCHANGED <<settings, set>>
  <2>1. [c EXCEPT !.writes = @ - 1] \in RadarCall /\ [c EXCEPT !.writes = @ - 1].op = "service"
    BY <1>1, <1>6 DEF RadarCall
  <2>2. ~R!Serving("transmission")' /\ R!Serving("service")' /\ ~R!Serving("schedule")'
    BY <1>6, <2>1 DEF R!Serving
  <2>3. RadarTypes'
    BY <1>3, <1>6, <2>1 DEF RadarTypes
  <2>4. GroupsHold'
    BY <1>3, <1>5, <1>6, <2>2 DEF GroupsHold, InEffect, Same
  <2>5. ScheduleHolds'
    BY <1>3, <1>4, <1>6, <2>2 DEF ScheduleHolds
  <2>6. Requested'
    <3>1. LET d == [c EXCEPT !.writes = @ - 1]
          IN  d.group = c.group /\ d.body = c.body /\ d.schedule = c.schedule
      BY DEF RadarCall
    <3> QED
      BY <1>3, <1>4, <1>6, <2>2, <3>1 DEF Requested
  <2> QED
    BY <2>3, <2>4, <2>5, <2>6
<1>7. CASE /\ request' = <<>> /\ settings' = settings
           /\ set' \in {set, [set EXCEPT ![c.group] = <<c.body>>]}
  <2>1. ~R!Serving("transmission")' /\ ~R!Serving("service")' /\ ~R!Serving("schedule")'
    BY <1>7 DEF R!Serving
  <2>2. set' \in [Group -> Asked]
    BY <1>2, <1>7, NoneAsked DEF RadarTypes
  <2>3. RadarTypes'
    BY <1>3, <1>7, <2>2 DEF RadarTypes
  <2>4. GroupsHold'
    <3>1. \A h \in Group : set'[h] = set[h] \/ (h = c.group /\ set'[h] = <<c.body>>)
      BY <1>2, <1>7 DEF RadarTypes
    <3>2. \A h \in Group : set'[h] # <<>> => Same(set'[h][1], settings.config[h])
      BY <1>4, <1>5, <3>1 DEF GroupsHold, Same
    <3> QED
      BY <1>3, <1>5, <1>7, <2>1, <3>2 DEF GroupsHold, InEffect, Same
  <2>5. ScheduleHolds'
    BY <1>3, <1>4, <1>7, <2>1 DEF ScheduleHolds
  <2> QED
    BY <2>1, <2>3, <2>4, <2>5 DEF Requested
<1>8. CASE /\ c.schedule # R!NoSchedule /\ settings' = [settings EXCEPT !.schedule = c.schedule]
           /\ request' = <<[c EXCEPT !.op = "schedule"]>> /\ set' = set
  <2>1. /\ settings' \in [config : [Group -> R!Config], schedule : RadarSchedule]
        /\ settings'.config = settings.config
    BY <1>8 DEF RadarTypes, RadarCall
  <2>2. LET d == [c EXCEPT !.op = "schedule"]
        IN  d \in RadarCall /\ d.op = "schedule" /\ d.group = c.group /\ d.body = c.body
    BY DEF RadarCall
  <2>3. ~R!Serving("transmission")' /\ ~R!Serving("service")' /\ R!Serving("schedule")'
    BY <1>8, <2>2 DEF R!Serving
  <2>4. RadarTypes'
    BY <1>3, <1>8, <2>1, <2>2 DEF RadarTypes
  <2>5. GroupsHold'
    BY <1>3, <1>5, <1>8, <2>1, <2>3 DEF GroupsHold, InEffect, Same
  <2>6. ScheduleHolds'
    BY <1>3, <1>4, <1>8, <2>3 DEF ScheduleHolds
  <2>7. Requested'
    BY <1>3, <1>4, <1>8, <2>1, <2>2, <2>3 DEF Requested
  <2> QED
    BY <2>4, <2>5, <2>6, <2>7
<1> QED
  BY <1>1, <1>2, <1>6, <1>7, <1>8 DEF R!Service_Written

\* The schedule of a frame is given to alert.c once it is saved, and acknowledged then.
LEMMA ScheduleSaved ==
  ASSUME R!ConstantsAssumption, RInv, NEW outcome \in R!Outcome,
         R!Update_Alert_Schedule_JSON(outcome)
  PROVE  RInv'
<1> USE DEF RInv
<1>1. PICK c \in RadarCall : request = <<c>> /\ c.op = "schedule"
  BY DEF R!Update_Alert_Schedule_JSON, R!Serving, RadarTypes
<1>2. c.body \in R!Config /\ "presence" \in Group
  BY DEF RadarCall, R!ConstantsAssumption
<1>3. /\ settings_file' = <<>> \/ \E s \in R!Settings : settings_file' = <<s>>
      /\ saved' \in BOOLEAN
      /\ saved' => outcome = "written" /\ OnFile' = settings
      /\ UNCHANGED <<live, settings, requests>> /\ request' = <<>>
  BY FileWritten DEF R!Update_Alert_Schedule_JSON
<1>4. /\ ~R!Serving("transmission") /\ ~R!Serving("service") /\ R!Serving("schedule")
      /\ ~R!Serving("transmission")' /\ ~R!Serving("service")' /\ ~R!Serving("schedule")'
      /\ settings.config["presence"] = c.body /\ set_schedule = <<>>
  BY <1>1, <1>3 DEF R!Serving, Requested
<1>5. settings.schedule \in RadarSchedule
  BY DEF RadarTypes
<1>6. \/ /\ schedule' = settings.schedule /\ half' = FALSE
         /\ set' = [set EXCEPT !["presence"] = <<c.body>>]
         /\ set_schedule' = <<settings.schedule>>
      \/ half' = TRUE /\ UNCHANGED <<schedule, set, set_schedule>>
  BY <1>1 DEF R!Update_Alert_Schedule_JSON
<1>7. RadarTypes'
  <2>1. set' \in [Group -> Asked]
    BY <1>2, <1>6, NoneAsked DEF RadarTypes
  <2> QED
    BY <1>3, <1>5, <1>6, <2>1 DEF RadarTypes
<1>8. GroupsHold'
  <2>1. \A h \in Group : set'[h] = set[h] \/ (h = "presence" /\ set'[h] = <<c.body>>)
    BY <1>2, <1>6 DEF RadarTypes
  <2>2. \A h \in Group : set'[h] # <<>> => Same(set'[h][1], settings.config[h])
    BY <1>4, <2>1 DEF GroupsHold, InEffect, Same
  <2> QED
    BY <1>3, <1>4, <2>2 DEF GroupsHold, InEffect, Same
<1>9. ScheduleHolds'
  BY <1>3, <1>4, <1>6 DEF ScheduleHolds
<1> QED
  BY <1>4, <1>7, <1>8, <1>9 DEF Requested

\* A start finds what was acknowledged if the last write left it on the file.
LEMMA RadarRestarts ==
  ASSUME R!ConstantsAssumption, RInv, R!Restart
  PROVE  RInv'
<1> USE DEF RInv
<1>1. /\ settings' \in [config : [Group -> R!Config], schedule : RadarSchedule]
      /\ request' = <<>> \/ \E c \in RadarCall : request' = <<c>> /\ c.op = "migrate"
      /\ settings' = OnFile /\ OnFile' = OnFile /\ UNCHANGED <<settings_file, saved, requests>>
  BY FileTyped DEF R!Restart, RadarTypes, OnFile
<1>2. ~R!Serving("transmission")' /\ ~R!Serving("service")' /\ ~R!Serving("schedule")'
  BY <1>1 DEF R!Serving
<1>3. /\ \A h \in Group : live'[h] = R!Loaded(settings'.config[h])
      /\ schedule' = settings'.schedule /\ half' = FALSE
      /\ live' = [h \in Group |-> live'[h]]
  BY DEF R!Restart
<1>4. /\ set' = IF saved THEN set ELSE [g \in Group |-> <<>>]
      /\ set_schedule' = IF saved THEN set_schedule ELSE <<>>
  BY DEF R!Restart
<1>5. RadarTypes'
  <2>1. live' \in [Group -> R!Live] /\ set' \in [Group -> Asked]
    BY <1>1, <1>3, <1>4, LoadedTyped, NoneAsked DEF RadarTypes
  <2>2. schedule' \in RadarSchedule /\ half' \in BOOLEAN
    BY <1>1, <1>3
  <2>3. set_schedule' \in {<<>>} \cup {<<s>> : s \in RadarSchedule}
    BY <1>4 DEF RadarTypes
  <2> QED
    BY <1>1, <2>1, <2>2, <2>3 DEF RadarTypes
<1>6. GroupsHold'
  <2>1. \A h \in Group : set'[h] # <<>> => saved /\ set'[h] = set[h]
    BY <1>4
  <2> QED
    BY <1>1, <1>2, <1>3, <2>1 DEF GroupsHold, InEffect, Same
<1>7. ScheduleHolds'
  BY <1>1, <1>2, <1>3, <1>4 DEF ScheduleHolds
<1> QED
  BY <1>2, <1>5, <1>6, <1>7 DEF Requested

LEMMA RadarStep ==
  ASSUME R!ConstantsAssumption, RInv, [R!Next]_(R!vars)
  PROVE  RInv'
<1>1. CASE UNCHANGED R!vars
  BY <1>1 DEF R!vars, RInv, RadarTypes, Requested, GroupsHold, ScheduleHolds, InEffect, OnFile,
              R!Serving
<1>2. ASSUME NEW body \in R!Config, NEW s \in RadarSchedule,
             \/ R!Apply_Occupancy_OTA_Set_Config(body) \/ R!Apply_Alert_OTA_Set_Config(body)
             \/ R!Apply_Occupancy_Framed_Body(body) \/ R!Apply_Speed_Framed_Body(body)
             \/ R!Apply_Alert_Framed_Body(body, s)
      PROVE  RInv'
  <2>1. /\ {"occupancy", "presence", "speed"} \subseteq Group
        /\ R!NoSchedule \notin RadarSchedule
    BY DEF R!ConstantsAssumption
  <2>2. R!Apply_Occupancy_OTA_Set_Config(body) => RInv'
    BY <2>1, ServiceSet DEF R!Apply_Occupancy_OTA_Set_Config
  <2>3. R!Apply_Alert_OTA_Set_Config(body) => RInv'
    BY <2>1, ServiceSet DEF R!Apply_Alert_OTA_Set_Config
  <2>4. R!Apply_Occupancy_Framed_Body(body) => RInv'
    BY <2>1, ServiceSet DEF R!Apply_Occupancy_Framed_Body
  <2>5. R!Apply_Speed_Framed_Body(body) => RInv'
    BY <2>1, ServiceSet DEF R!Apply_Speed_Framed_Body
  <2>6. R!Apply_Alert_Framed_Body(body, s) => RInv'
    BY <2>1, ServiceSet DEF R!Apply_Alert_Framed_Body
  <2> QED
    BY <1>2, <2>2, <2>3, <2>4, <2>5, <2>6
<1>3. RadarSchedule # {}
  BY DEF RInv, RadarTypes
<1> QED
  BY <1>1, <1>2, <1>3, RadarPosted, TransmissionSet, RadarSaved, TransmissionWritten,
     ServiceWritten, ScheduleSaved, RadarRestarts
  DEF R!Next, R!Written

\* What a SET was acknowledged OK for stays in effect until the same use case is set again,
\* and what is stored is in effect, whatever becomes of a write and wherever the app stops
\* (radar/app/main.c:928-1857).
THEOREM RadarSettingsHold ==
  ASSUME R!ConstantsAssumption
  PROVE  R!Spec => [](R!TypeOK /\ R!AckedHolds /\ R!StoredInEffect)
<1>1. R!Init => RInv
  BY RadarStarts
<1>2. RInv /\ [R!Next]_(R!vars) => RInv'
  BY RadarStep
<1>3. RInv => R!TypeOK /\ R!AckedHolds /\ R!StoredInEffect
  BY RadarHolds
<1> QED
  BY <1>1, <1>2, <1>3, PTL DEF R!Spec
-----------------------------------------------------------------------------
(***************************************************************************)
(* The settings of aoa.  What a start makes of a file, and what pages and  *)
(* commands leave, is in the form of this version: a start that finds it   *)
(* changes nothing.                                                        *)
(***************************************************************************)
Whole(object) == object = [k \in DOMAIN object |-> object[k]]

KeptAlerts(group) ==
  /\ "schedule" \notin DOMAIN group /\ "scenarios" \in DOMAIN group
  /\ group.scenarios = [a \in DOMAIN group.scenarios |-> [schedule |-> group.scenarios[a].schedule]]
  /\ \A a \in DOMAIN group.scenarios : group.scenarios[a].schedule \in Schedule \ {Unscheduled}

KeptStream(group, stream) ==
  /\ Whole(group) /\ {"enabled", "port"} \subseteq DOMAIN group
  /\ group.enabled \in BOOLEAN /\ group.port = A!LORA_PORT(stream)
  /\ A!Or(group, "interval", 15) \in Interval
  /\ stream = "presence" => KeptAlerts(group)

\* Settings with all that a start merges into: a form for each use case.
Formed(m) ==
  /\ Whole(m) /\ DOMAIN m = DOMAIN A!Default /\ m.disabled \subseteq Command

Kept(m) ==
  /\ Formed(m) /\ m.version = A!SETTINGS_VERSION
  /\ \A stream \in A!Stream : KeptStream(m[stream], stream)

OnDisk(contents) == contents = <<>> \/ \E f \in {contents[1]} : contents = <<f>> /\ A!Readable(f)

LEMMA DefaultKeys ==
  DOMAIN A!Default = {"version", "disabled", "lorawan", "counting", "occupancy", "presence"}
BY DEF A!Default

LEMMA DefaultFits ==
  ASSUME A!ConstantsAssumption, NEW stream \in A!Stream
  PROVE  A!Fits(A!Default[stream], stream)
<1>1. A!Default[stream].enabled \in BOOLEAN /\ A!Default[stream].port \in Int
  <2>1. /\ A!Default["counting"].port = 1 /\ A!Default["occupancy"].port = 2
        /\ A!Default["presence"].port = 3
    BY DEF A!Default
  <2>2. /\ A!Default["counting"].enabled \in BOOLEAN
        /\ A!Default["occupancy"].enabled \in BOOLEAN
        /\ A!Default["presence"].enabled \in BOOLEAN
    BY DEF A!Default
  <2>3. A!Default[stream].enabled \in BOOLEAN
    BY <2>2, Zenon DEF A!Stream
  <2>4. A!Default[stream].port \in Int
    BY <2>1 DEF A!Stream
  <2> QED
    BY <2>3, <2>4
<1>2. /\ "enabled" \in DOMAIN A!Default[stream] /\ "schedule" \notin DOMAIN A!Default[stream]
      /\ "scenarios" \in DOMAIN A!Default[stream] => A!Default[stream].scenarios = A!NoAlerts
      /\ "interval" \in DOMAIN A!Default[stream] => A!Default[stream].interval = 15
  BY DEF A!Default, A!Stream
<1>3. /\ 15 \in Interval /\ "evening" \in Schedule \ {Unscheduled}
      /\ DOMAIN A!NoAlerts = {}
  BY DEF A!ConstantsAssumption, A!NoAlerts
<1> QED
  BY <1>1, <1>2, <1>3 DEF A!Fits, A!Or, A!Has

LEMMA MergedFits ==
  ASSUME A!ConstantsAssumption, NEW contents, OnDisk(contents)
  PROVE  /\ Formed(A!Merged(contents))
         /\ \A stream \in A!Stream : A!Fits(A!Merged(contents)[stream], stream)
         /\ A!saved_version(contents) < 2 =>
              \A stream \in A!Stream : A!Merged(contents)[stream] = A!Default[stream]
<1>1. CASE contents = <<>>
  <2>1. A!Merged(contents) = A!Default
    BY <1>1 DEF A!Merged
  <2>2. Formed(A!Default)
    BY DEF Formed, Whole, A!Default
  <2> QED
    BY <2>1, <2>2, DefaultFits
<1>2. CASE contents # <<>>
  <2>1. PICK f : contents = <<f>> /\ A!Readable(f)
    BY <1>2 DEF OnDisk
  <2>2. A!Merged(contents) = [k \in DOMAIN A!Default |-> A!Or(f, k, A!Default[k])]
    BY <1>2, <2>1 DEF A!Merged
  <2>3. A!Or(f, "disabled", A!Default["disabled"]) \subseteq Command
    BY <2>1 DEF A!Readable, A!Default, A!Or, A!Has
  <2>4. Formed(A!Merged(contents))
    BY <2>2, <2>3, DefaultKeys DEF Formed, Whole
  <2>5. ASSUME NEW stream \in A!Stream
        PROVE  /\ A!Fits(A!Merged(contents)[stream], stream)
               /\ A!saved_version(contents) < 2 =>
                    A!Merged(contents)[stream] = A!Default[stream]
    <3>1. A!Merged(contents)[stream] = A!Or(f, stream, A!Default[stream])
      BY <2>2, DefaultKeys DEF A!Stream
    <3>2. stream \in DOMAIN f => A!Fits(f[stream], stream)
      BY <2>1 DEF A!Readable
    <3>3. A!Fits(A!Merged(contents)[stream], stream)
      BY <3>1, <3>2, DefaultFits DEF A!Or, A!Has
    <3>4. A!saved_version(contents) < 2 => stream \notin DOMAIN f
      BY <1>2, <2>1 DEF A!saved_version, A!Readable
    <3> QED
      BY <3>1, <3>3, <3>4 DEF A!Or, A!Has
  <2> QED
    BY <2>4, <2>5
<1> QED
  BY <1>1, <1>2

\* A group with its stream switched on or off and its port, all else as it was.
Switched(w, group, stream) ==
  /\ Whole(w) /\ DOMAIN w = DOMAIN group \cup {"enabled", "port"}
  /\ w.enabled \in BOOLEAN /\ w.port = A!LORA_PORT(stream)
  /\ \A k \in DOMAIN group \ {"enabled", "port"} : w[k] = group[k]

LEMMA NormalSwitched ==
  ASSUME NEW m, NEW stream, NEW default \in BOOLEAN, A!Fits(m[stream], stream)
  PROVE  Switched(A!NormalStream(m, stream, default), m[stream], stream)
<1> DEFINE group == m[stream]
           on == A!Stream_Enabled_From_Config(group, default)
           w == A!With(group, "enabled", on)
           n == A!With(w, "port", A!LORA_PORT(stream))
<1>1. on \in BOOLEAN
  <2>1. A!Has(group, "enabled") => group["enabled"] \in BOOLEAN
    BY Zenon DEF A!Fits, A!Or, A!Has
  <2>2. CASE A!Has(group, "enabled")
    <3>1. on = group["enabled"]
      BY <2>2 DEF A!Stream_Enabled_From_Config, A!Or
    <3> QED
      BY <2>1, <2>2, <3>1
  <2>3. CASE ~A!Has(group, "enabled") /\ A!Has(group, "port")
    <3>1. on = (group.port > 0)
      BY <2>3 DEF A!Stream_Enabled_From_Config, A!Or
    <3> QED
      BY <3>1
  <2>4. CASE ~A!Has(group, "enabled") /\ ~A!Has(group, "port")
    <3>1. on = default
      BY <2>4 DEF A!Stream_Enabled_From_Config, A!Or
    <3> QED
      BY <3>1
  <2> QED
    BY <2>2, <2>3, <2>4
<1>2. A!NormalStream(m, stream, default) = n
  BY DEF A!NormalStream
<1> HIDE DEF on
<1>3. /\ Whole(w) /\ DOMAIN w = DOMAIN group \cup {"enabled"} /\ w["enabled"] = on
      /\ \A k \in DOMAIN group \ {"enabled"} : w[k] = group[k]
  BY DEF A!With, Whole
<1> HIDE DEF w
<1>4. /\ Whole(n) /\ DOMAIN n = DOMAIN w \cup {"port"} /\ n["port"] = A!LORA_PORT(stream)
      /\ \A k \in DOMAIN w \ {"port"} : n[k] = w[k]
  BY DEF A!With, Whole
<1> HIDE DEF n
<1>5. n.enabled \in BOOLEAN
  <2>1. n["enabled"] = on
    BY <1>3, <1>4
  <2> QED
    BY <1>1, <2>1
<1>6. DOMAIN n = DOMAIN group \cup {"enabled", "port"} /\ n.port = A!LORA_PORT(stream)
  BY <1>3, <1>4
<1>7. \A k \in DOMAIN group \ {"enabled", "port"} : n[k] = group[k]
  BY <1>3, <1>4
<1> QED
  BY <1>2, <1>4, <1>5, <1>6, <1>7 DEF Switched

LEMMA SwitchedKept ==
  ASSUME NEW group, NEW stream, A!Fits(group, stream), NEW w, Switched(w, group, stream)
  PROVE  /\ A!Or(w, "interval", 15) \in Interval
         /\ stream # "presence" => KeptStream(w, stream)
         /\ stream = "presence" => A!Or(w, "schedule", "evening") \in Schedule \ {Unscheduled}
         /\ A!Or(w, "scenarios", A!NoAlerts) = A!Or(group, "scenarios", A!NoAlerts)
<1>1. \A key \in {"interval", "schedule", "scenarios"} :
        (key \in DOMAIN w <=> key \in DOMAIN group) /\ (key \in DOMAIN group => w[key] = group[key])
  BY DEF Switched
<1>2. A!Or(w, "interval", 15) \in Interval
  BY <1>1 DEF A!Fits, A!Or, A!Has
<1> QED
  BY <1>1, <1>2 DEF A!Fits, A!Or, A!Has, KeptStream, Switched

LEMMA AlertsNormal ==
  ASSUME A!ConstantsAssumption, NEW group, A!Fits(group, "presence"),
         NEW w, Switched(w, group, "presence")
  PROVE  LET p == A!With(A!Without(w, {"schedule"}), "scenarios", A!NormalAlerts(w))
         IN  KeptStream(p, "presence") /\ ("interval" \in DOMAIN group => "interval" \in DOMAIN p)
<1> DEFINE u == A!Without(w, {"schedule"})
           alerts == A!NormalAlerts(w)
           p == A!With(u, "scenarios", alerts)
           scenarios == A!Or(w, "scenarios", A!NoAlerts)
<1>1. /\ A!Or(w, "interval", 15) \in Interval
      /\ A!Or(w, "schedule", "evening") \in Schedule \ {Unscheduled}
      /\ scenarios = A!Or(group, "scenarios", A!NoAlerts)
  BY SwitchedKept
<1>2. DOMAIN alerts = DOMAIN scenarios
  BY DEF A!NormalAlerts
<1>3. ASSUME NEW a \in DOMAIN alerts
      PROVE  alerts[a] = [schedule |-> alerts[a].schedule]
             /\ alerts[a].schedule \in Schedule \ {Unscheduled}
  <2>1. "scenarios" \in DOMAIN w /\ a \in DOMAIN w.scenarios /\ w.scenarios = group.scenarios
        /\ "scenarios" \in DOMAIN group
    <3>1. DOMAIN A!NoAlerts = {}
      BY DEF A!NoAlerts
    <3> QED
      BY <1>2, <3>1 DEF A!Or, A!Has, Switched
  <2>2. w.scenarios[a].schedule \in Schedule
    BY <2>1 DEF A!Fits, A!Or, A!Has
  <2>3. alerts[a] = [schedule |-> IF w.scenarios[a].schedule # Unscheduled
                                  THEN w.scenarios[a].schedule
                                  ELSE A!Or(w, "schedule", "evening")]
    BY <1>2 DEF A!NormalAlerts
  <2> QED
    BY <1>1, <2>2, <2>3
<1>4. Whole(alerts)
  BY DEF A!NormalAlerts, Whole
<1> HIDE DEF alerts
<1>5. /\ DOMAIN u = DOMAIN w \ {"schedule"} /\ \A k \in DOMAIN u : u[k] = w[k]
  BY DEF A!Without
<1> HIDE DEF u
<1>6. /\ Whole(p) /\ DOMAIN p = DOMAIN u \cup {"scenarios"} /\ p["scenarios"] = alerts
      /\ \A k \in DOMAIN u \ {"scenarios"} : p[k] = u[k]
  BY DEF A!With, Whole
<1> HIDE DEF p
<1>7. p.scenarios = alerts /\ "schedule" \notin DOMAIN p /\ "scenarios" \in DOMAIN p
  BY <1>5, <1>6
<1>8. KeptAlerts(p)
  <2>1. alerts = [a \in DOMAIN alerts |-> [schedule |-> alerts[a].schedule]]
    BY <1>3, <1>4 DEF Whole
  <2> QED
    BY <1>3, <1>7, <2>1 DEF KeptAlerts
<1>9. {"enabled", "port"} \subseteq DOMAIN p /\ p["enabled"] = w["enabled"] /\ p["port"] = w["port"]
  BY <1>5, <1>6 DEF Switched
<1>10. A!Or(p, "interval", 15) = A!Or(w, "interval", 15)
  BY <1>5, <1>6 DEF A!Or, A!Has
<1>11. p.enabled \in BOOLEAN /\ p.port = A!LORA_PORT("presence")
  BY <1>9 DEF Switched
<1>12. "interval" \in DOMAIN group => "interval" \in DOMAIN p
  BY <1>5, <1>6 DEF Switched
<1>13. KeptStream(p, "presence")
  BY <1>1, <1>6, <1>8, <1>9, <1>10, <1>11 DEF KeptStream
<1> QED
  BY <1>12, <1>13 DEF p, u, alerts

LEMMA NormalKept ==
  ASSUME A!ConstantsAssumption, NEW m, Formed(m), \A stream \in A!Stream : A!Fits(m[stream], stream)
  PROVE  LET n == A!Normalize_Transmission_V4(m) IN
         /\ Formed(n)
         /\ \A stream \in A!Stream :
              /\ KeptStream(n[stream], stream)
              /\ "interval" \in DOMAIN m[stream] => "interval" \in DOMAIN n[stream]
<1> DEFINE c == A!NormalStream(m, "counting", TRUE)
           o == A!NormalStream(m, "occupancy", FALSE)
           w == A!NormalStream(m, "presence", FALSE)
           p == A!With(A!Without(w, {"schedule"}), "scenarios", A!NormalAlerts(w))
           n == [m EXCEPT !.counting = c, !.occupancy = o, !.presence = p]
<1>1. /\ A!Fits(m["counting"], "counting") /\ A!Fits(m["occupancy"], "occupancy") /\ A!Fits(m["presence"], "presence")
  BY DEF A!Stream
<1>2. /\ Switched(c, m["counting"], "counting") /\ Switched(o, m["occupancy"], "occupancy")
      /\ Switched(w, m["presence"], "presence")
  BY <1>1, NormalSwitched
<1>3. A!Normalize_Transmission_V4(m) = n
  BY DEF A!Normalize_Transmission_V4
<1> HIDE DEF c, o, w
<1>4. KeptStream(c, "counting") /\ KeptStream(o, "occupancy")
  BY <1>1, <1>2, SwitchedKept
<1>5. KeptStream(p, "presence") /\ ("interval" \in DOMAIN m["presence"] => "interval" \in DOMAIN p)
  BY <1>1, <1>2, AlertsNormal
<1>6. /\ "interval" \in DOMAIN m["counting"] => "interval" \in DOMAIN c
      /\ "interval" \in DOMAIN m["occupancy"] => "interval" \in DOMAIN o
  BY <1>2 DEF Switched
<1> HIDE DEF p
<1>7. /\ Whole(n) /\ DOMAIN n = DOMAIN m /\ n["counting"] = c /\ n["occupancy"] = o
      /\ n["presence"] = p /\ n.disabled = m.disabled
  BY DefaultKeys DEF Formed, Whole
<1> HIDE DEF n
<1>8. Formed(n)
  BY <1>7 DEF Formed
<1> QED
  BY <1>3, <1>4, <1>5, <1>6, <1>7, <1>8 DEF A!Stream

LEMMA VersionedKept ==
  ASSUME NEW m, Formed(m), \A stream \in A!Stream : KeptStream(m[stream], stream)
  PROVE  LET v == A!With(m, "version", A!SETTINGS_VERSION) IN
         Kept(v) /\ \A stream \in A!Stream : v[stream] = m[stream]
<1> DEFINE v == A!With(m, "version", A!SETTINGS_VERSION)
<1>1. /\ Whole(v) /\ DOMAIN v = DOMAIN m /\ v["version"] = A!SETTINGS_VERSION
      /\ \A k \in DOMAIN m \ {"version"} : v[k] = m[k]
  BY DefaultKeys DEF A!With, Whole, Formed
<1> HIDE DEF v
<1>2. v["disabled"] = m["disabled"] /\ \A stream \in A!Stream : v[stream] = m[stream]
  BY <1>1, DefaultKeys DEF Formed, A!Stream
<1>3. v.version = A!SETTINGS_VERSION /\ v.disabled = m.disabled
  BY <1>1, <1>2
<1>4. Kept(v)
  BY <1>1, <1>2, <1>3 DEF Kept, Formed
<1> QED
  BY <1>2, <1>4 DEF v

\* The files of the first version: one interval, one switch and one port for all.
LEMMA FirstKept ==
  ASSUME A!ConstantsAssumption, NEW f, A!Readable(f), NEW m, Formed(m),
         \A stream \in A!Stream : m[stream] = A!Default[stream]
  PROVE  LET n == A!FromV1(m, f) IN
         /\ Formed(n)
         /\ \A stream \in A!Stream :
              KeptStream(n[stream], stream)
              /\ ("interval" \in DOMAIN m[stream] => "interval" \in DOMAIN n[stream])
<1> DEFINE old == A!Or(f, "old", [k \in {} |-> 0])
           interval == A!Or(old, "interval", 15)
           on == A!Or(old, "enabled", TRUE) /\ A!Or(A!Or(f, "lorawan", [port |-> 1]), "port", 1) > 0
           c == A!With(A!With(A!With(m.counting, "interval", interval), "enabled", on), "port", 1)
           o == A!With(A!With(A!With(m.occupancy, "interval", interval), "enabled", FALSE), "port", 2)
           q == m.presence
           p == A!With(A!With(A!With(q, "enabled", FALSE), "port", 3), "scenarios",
                       A!Or(q, "scenarios", A!NoAlerts))
           n == [m EXCEPT !.counting = c, !.occupancy = o, !.presence = p]
<1>1. A!FromV1(m, f) = n
  BY DEF A!FromV1
<1>2. interval \in Interval
  <2>1. CASE "old" \in DOMAIN f
    <3>1. A!Fits(f["old"], "old") /\ old = f["old"]
      BY <2>1 DEF A!Readable, A!Or, A!Has
    <3> QED
      BY <3>1 DEF A!Fits
  <2>2. CASE "old" \notin DOMAIN f
    <3>1. DOMAIN old = {}
      BY <2>2 DEF A!Or, A!Has
    <3> QED
      BY <3>1 DEF A!Or, A!Has, A!ConstantsAssumption
  <2> QED
    BY <2>1, <2>2
<1>3. on \in BOOLEAN
  OBVIOUS
<1> HIDE DEF interval, on
<1>4. /\ m["counting"] = A!Default["counting"] /\ m["occupancy"] = A!Default["occupancy"]
      /\ m["presence"] = A!Default["presence"]
  BY DEF A!Stream
<1>5. KeptStream(c, "counting") /\ "interval" \in DOMAIN c
  <2>1. /\ Whole(c) /\ {"enabled", "port", "interval"} \subseteq DOMAIN c
        /\ c["enabled"] = on /\ c["port"] = 1 /\ c["interval"] = interval
    BY DEF A!With, Whole
  <2> HIDE DEF c
  <2>2. c.enabled \in BOOLEAN
    BY <1>3, <2>1
  <2> QED
    BY <1>2, <2>1, <2>2 DEF KeptStream, A!Or, A!Has, A!LORA_PORT
<1>6. KeptStream(o, "occupancy") /\ "interval" \in DOMAIN o
  <2>1. /\ Whole(o) /\ {"enabled", "port", "interval"} \subseteq DOMAIN o
        /\ o["enabled"] = FALSE /\ o["port"] = 2 /\ o["interval"] = interval
    BY DEF A!With, Whole
  <2> HIDE DEF o
  <2>2. o.enabled \in BOOLEAN
    BY <2>1
  <2> QED
    BY <1>2, <2>1, <2>2 DEF KeptStream, A!Or, A!Has, A!LORA_PORT
<1>7. KeptStream(p, "presence")
  <2>1. DOMAIN q = {"enabled", "port", "scenarios"} /\ q.scenarios = A!NoAlerts
    BY <1>4 DEF A!Default
  <2>2. A!Or(q, "scenarios", A!NoAlerts) = A!NoAlerts
    BY <2>1 DEF A!Or, A!Has
  <2>3. /\ Whole(p) /\ DOMAIN p = {"enabled", "port", "scenarios"}
        /\ p["enabled"] = FALSE /\ p["port"] = 3 /\ p["scenarios"] = A!NoAlerts
    BY <2>1, <2>2 DEF A!With, Whole
  <2> HIDE DEF p
  <2>4. A!NoAlerts = [a \in DOMAIN A!NoAlerts |-> [schedule |-> A!NoAlerts[a].schedule]]
        /\ DOMAIN A!NoAlerts = {}
    BY DEF A!NoAlerts
  <2>5. KeptAlerts(p)
    BY <2>3, <2>4 DEF KeptAlerts
  <2>6. p.enabled \in BOOLEAN
    BY <2>3
  <2> QED
    BY <2>3, <2>5, <2>6 DEF KeptStream, A!Or, A!Has, A!LORA_PORT, A!ConstantsAssumption
<1>8. "interval" \notin DOMAIN m["presence"]
  BY <1>4 DEF A!Default
<1> HIDE DEF c, o, p
<1>9. /\ Whole(n) /\ DOMAIN n = DOMAIN m /\ n["counting"] = c /\ n["occupancy"] = o
      /\ n["presence"] = p /\ n.disabled = m.disabled
  BY DefaultKeys DEF Formed, Whole
<1> HIDE DEF n
<1>10. Formed(n)
  BY <1>9 DEF Formed
<1> QED
  BY <1>1, <1>5, <1>6, <1>7, <1>8, <1>9, <1>10 DEF A!Stream

\* Whatever version a file has, a start makes settings of this version of it.
LEMMA MigratedKept ==
  ASSUME A!ConstantsAssumption, NEW contents, OnDisk(contents)
  PROVE  /\ Kept(A!Migrated(contents))
         /\ \A stream \in A!Stream : "interval" \in DOMAIN A!Merged(contents)[stream]
              => "interval" \in DOMAIN A!Migrated(contents)[stream]
<1> DEFINE m == A!Merged(contents)
           v == A!saved_version(contents)
           normal == A!Normalize_Transmission_V4(m)
           f == IF contents = <<>> THEN A!Default ELSE contents[1]
           x == CASE v = 8 -> A!AllCommands(normal)
                  [] v = 6 -> A!NoAlertsLeft(normal)
                  [] v \in {2, 3, 4, 5, 7} \/ v >= A!SETTINGS_VERSION -> normal
                  [] OTHER -> A!FromV1(m, f)
<1>1. A!Migrated(contents) = A!With(x, "version", A!SETTINGS_VERSION)
  BY DEF A!Migrated, A!Versioned
<1>2. /\ Formed(m) /\ \A stream \in A!Stream : A!Fits(m[stream], stream)
      /\ v < 2 => \A stream \in A!Stream : m[stream] = A!Default[stream]
  BY MergedFits
<1>3. v \in Nat /\ (v < 2 => A!Readable(f))
  BY DEF OnDisk, A!saved_version, A!Readable, A!SETTINGS_VERSION
<1> HIDE DEF m, v, f
<1>4. /\ Formed(normal)
      /\ \A stream \in A!Stream :
           /\ KeptStream(normal[stream], stream)
           /\ "interval" \in DOMAIN m[stream] => "interval" \in DOMAIN normal[stream]
  BY <1>2, NormalKept
<1> HIDE DEF normal
<1>5. /\ Formed(x)
      /\ \A stream \in A!Stream :
           /\ KeptStream(x[stream], stream)
           /\ "interval" \in DOMAIN m[stream] => "interval" \in DOMAIN x[stream]
  <2>1. CASE v = 8
    <3>1. x = [normal EXCEPT !.disabled = {}]
      BY <2>1 DEF A!AllCommands, A!SETTINGS_VERSION
    <3>2. /\ Whole(x) /\ DOMAIN x = DOMAIN normal /\ x.disabled = {}
          /\ \A stream \in A!Stream : x[stream] = normal[stream]
      BY <1>4, <3>1, DefaultKeys DEF Formed, Whole, A!Stream
    <3> HIDE DEF x
    <3>3. Formed(x)
      BY <1>4, <3>2 DEF Formed
    <3> QED
      BY <1>4, <3>2, <3>3
  <2>2. CASE v = 6
    <3> DEFINE p == A!With(A!With(normal.presence, "scenarios", A!NoAlerts), "enabled", FALSE)
    <3>1. x = [normal EXCEPT !.presence = p]
      BY <2>2 DEF A!NoAlertsLeft, A!SETTINGS_VERSION
    <3>2. KeptStream(normal["presence"], "presence")
      BY <1>4 DEF A!Stream
    <3>3. /\ Whole(p) /\ DOMAIN p = DOMAIN normal["presence"]
          /\ p["enabled"] = FALSE /\ p["scenarios"] = A!NoAlerts
          /\ \A k \in DOMAIN p \ {"enabled", "scenarios"} : p[k] = normal["presence"][k]
      BY <3>2 DEF A!With, Whole, KeptStream, KeptAlerts
    <3> HIDE DEF p
    <3>4. A!NoAlerts = [a \in DOMAIN A!NoAlerts |-> [schedule |-> A!NoAlerts[a].schedule]]
          /\ DOMAIN A!NoAlerts = {}
      BY DEF A!NoAlerts
    <3>5. KeptAlerts(p)
      BY <3>2, <3>3, <3>4 DEF KeptStream, KeptAlerts
    <3>6. p.enabled \in BOOLEAN
      BY <3>3
    <3>7. KeptStream(p, "presence")
      BY <3>2, <3>3, <3>5, <3>6 DEF KeptStream, A!Or, A!Has
    <3>8. /\ Whole(x) /\ DOMAIN x = DOMAIN normal /\ x["presence"] = p
          /\ x["counting"] = normal["counting"] /\ x["occupancy"] = normal["occupancy"]
          /\ x.disabled = normal.disabled
      BY <1>4, <3>1, DefaultKeys DEF Formed, Whole
    <3> HIDE DEF x
    <3>9. Formed(x)
      BY <1>4, <3>8 DEF Formed
    <3> QED
      BY <1>4, <3>3, <3>7, <3>8, <3>9 DEF A!Stream
  <2>3. CASE v \in {2, 3, 4, 5, 7} \/ v >= A!SETTINGS_VERSION
    <3>1. x = normal
      BY <1>3, <2>3 DEF A!SETTINGS_VERSION
    <3> QED
      BY <1>4, <3>1
  <2>4. CASE v < 2
    <3>1. x = A!FromV1(m, f)
      BY <1>3, <2>4 DEF A!SETTINGS_VERSION
    <3> HIDE DEF x
    <3> QED
      BY <1>2, <1>3, <2>4, <3>1, FirstKept
  <2> QED
    BY <1>3, <2>1, <2>2, <2>3, <2>4 DEF A!SETTINGS_VERSION
<1> HIDE DEF x
<1> QED
  BY <1>1, <1>5, VersionedKept DEF m

\* Settings of this version are read as they are.
LEMMA KeptSwitched ==
  ASSUME NEW m, NEW stream, KeptStream(m[stream], stream), NEW default
  PROVE  A!NormalStream(m, stream, default) = m[stream]
<1> DEFINE group == m[stream]
<1>1. A!Stream_Enabled_From_Config(group, default) = group.enabled
  BY DEF KeptStream, A!Stream_Enabled_From_Config, A!Or, A!Has
<1>2. A!With(group, "enabled", group.enabled) = group
  BY DEF KeptStream, A!With, Whole
<1>3. A!With(group, "port", A!LORA_PORT(stream)) = group
  BY DEF KeptStream, A!With, Whole
<1> QED
  BY <1>1, <1>2, <1>3 DEF A!NormalStream

LEMMA KeptRead ==
  ASSUME A!ConstantsAssumption, NEW m, Kept(m)
  PROVE  A!Migrated(<<m>>) = m /\ A!Readable(m) /\ A!Merged(<<m>>) = m
<1>1. A!Merged(<<m>>) = m
  <2>1. A!Merged(<<m>>) = [k \in DOMAIN A!Default |-> A!Or(m, k, A!Default[k])]
    BY DEF A!Merged
  <2>2. \A k \in DOMAIN m : A!Or(m, k, A!Default[k]) = m[k]
    BY DEF A!Or, A!Has
  <2> QED
    BY <2>1, <2>2 DEF Kept, Formed, Whole
<1>2. A!saved_version(<<m>>) = A!SETTINGS_VERSION
  <2>1. "version" \in DOMAIN m
    BY DefaultKeys DEF Kept, Formed
  <2> QED
    BY <2>1 DEF A!saved_version, A!Or, A!Has, Kept
<1>3. A!Normalize_Transmission_V4(m) = m
  <2>1. /\ KeptStream(m["counting"], "counting") /\ KeptStream(m["occupancy"], "occupancy")
        /\ KeptStream(m["presence"], "presence")
    BY DEF Kept, A!Stream
  <2> DEFINE g == m["presence"]
  <2>2. /\ A!NormalStream(m, "counting", TRUE) = m["counting"]
        /\ A!NormalStream(m, "occupancy", FALSE) = m["occupancy"]
        /\ A!NormalStream(m, "presence", FALSE) = g
    BY <2>1, KeptSwitched
  <2>3. A!Without(g, {"schedule"}) = g
    BY <2>1 DEF A!Without, KeptStream, KeptAlerts, Whole
  <2>4. A!NormalAlerts(g) = g.scenarios
    <3>1. A!Or(g, "scenarios", A!NoAlerts) = g.scenarios
      BY <2>1 DEF KeptStream, KeptAlerts, A!Or, A!Has
    <3>2. \A a \in DOMAIN g.scenarios : g.scenarios[a].schedule # Unscheduled
      BY <2>1 DEF KeptStream, KeptAlerts
    <3>3. A!NormalAlerts(g) =
            [a \in DOMAIN g.scenarios |-> [schedule |-> g.scenarios[a].schedule]]
      BY <3>1, <3>2 DEF A!NormalAlerts
    <3> QED
      BY <2>1, <3>3 DEF KeptStream, KeptAlerts
  <2>5. A!With(g, "scenarios", g.scenarios) = g
    BY <2>1 DEF A!With, KeptStream, KeptAlerts, Whole
  <2>6. A!Normalize_Transmission_V4(m) =
          [m EXCEPT !.counting = m["counting"], !.occupancy = m["occupancy"], !.presence = g]
    BY <2>2, <2>3, <2>4, <2>5 DEF A!Normalize_Transmission_V4
  <2> QED
    BY <2>6, DefaultKeys DEF Kept, Formed, Whole
<1>4. A!With(m, "version", A!SETTINGS_VERSION) = m
  BY DefaultKeys DEF A!With, Kept, Formed, Whole
<1>5. A!Migrated(<<m>>) = m
  <2>1. A!SETTINGS_VERSION = 9
    BY DEF A!SETTINGS_VERSION
  <2> QED
    BY <1>1, <1>2, <1>3, <1>4, <2>1 DEF A!Migrated, A!Versioned
<1>6. A!Readable(m)
  <2>1. DOMAIN m \subseteq A!Stream \cup {"version", "disabled", "old", "lorawan"}
    BY DefaultKeys DEF Kept, Formed, A!Stream
  <2>2. A!Or(m, "version", 1) = 9 /\ A!Or(m, "disabled", {}) = m.disabled
    BY DefaultKeys DEF Kept, Formed, A!Or, A!Has, A!SETTINGS_VERSION
  <2>3. ASSUME NEW stream \in A!Stream
        PROVE  A!Fits(m[stream], stream)
    <3> DEFINE g == m[stream]
    <3>1. KeptStream(g, stream)
      BY DEF Kept
    <3>2. A!Or(g, "enabled", TRUE) \in BOOLEAN
      <4>1. A!Or(g, "enabled", TRUE) = g.enabled
        BY <3>1 DEF KeptStream, A!Or, A!Has
      <4> QED
        BY <3>1, <4>1 DEF KeptStream
    <3>3. A!Or(g, "port", 0) \in Int
      BY <3>1 DEF KeptStream, A!Or, A!Has, A!LORA_PORT
    <3>4. stream = "presence" =>
            /\ A!Or(g, "schedule", "evening") \in Schedule \ {Unscheduled}
            /\ \A a \in DOMAIN A!Or(g, "scenarios", A!NoAlerts) :
                 g.scenarios[a].schedule \in Schedule
      BY <3>1 DEF KeptStream, KeptAlerts, A!Or, A!Has, A!ConstantsAssumption
    <3>5. A!Or(g, "interval", 15) \in Interval
      BY <3>1 DEF KeptStream
    <3> HIDE DEF g
    <3> QED
      BY <3>2, <3>3, <3>4, <3>5 DEF A!Fits, g
  <2>4. \A key \in DOMAIN m \cap (A!Stream \cup {"old"}) : key \in A!Stream
    BY DefaultKeys DEF Kept, Formed
  <2> QED
    BY <2>1, <2>2, <2>3, <2>4 DEF A!Readable, Kept, Formed
<1> QED
  BY <1>1, <1>5, <1>6

\* What the streams are given: the settings, or what they were while a command is written.
Ordered == writing # <<>> /\ writing[1].op \in A!Stream
Stands ==
  IF Ordered THEN [aoa_settings EXCEPT ![writing[1].op] = writing[1].previous[1]] ELSE aoa_settings

IntervalOf(group) == A!Or(group, "interval", 15)
InForce(m) ==
  [counting |-> [enabled |-> m.counting.enabled, interval |-> IntervalOf(m.counting)],
   occupancy |-> [enabled |-> m.occupancy.enabled, interval |-> IntervalOf(m.occupancy)],
   presence |-> [enabled |-> m.presence.enabled, scenarios |-> m.presence.scenarios]]

AoaStands ==
  /\ Kept(aoa_settings) /\ Kept(Stands) /\ OnDisk(aoa_file)
  /\ Ordered /\ writing[1].op # "presence" => "interval" \in DOMAIN aoa_settings[writing[1].op]
  /\ streams = InForce(Stands)
  /\ on_file \in BOOLEAN /\ pages \in 0 .. MaxPages

\* What is said to be on the file is there, also if it is a command that is given up.
AoaFiled ==
  /\ on_file => A!Migrated(aoa_file) = aoa_settings
  /\ Ordered => /\ ~on_file /\ writing[1].previous[2] \in BOOLEAN
                /\ writing[1].previous[2] => A!Migrated(aoa_file) = Stands

AInv == AoaStands /\ AoaFiled

\* What is not in the settings is left as it is, which is what a start without it has.
LEMMA LoadedInForce ==
  ASSUME NEW was, NEW m, Kept(m),
         \A stream \in {"counting", "occupancy"} :
           "interval" \in DOMAIN m[stream] \/ IntervalOf(was[stream]) = 15
  PROVE  A!Loaded(InForce(was), m) = InForce(m)
<1>1. /\ KeptStream(m["counting"], "counting") /\ KeptStream(m["occupancy"], "occupancy")
      /\ KeptStream(m["presence"], "presence")
  BY DEF Kept, A!Stream
<1> DEFINE l == InForce(was)
<1>2. /\ A!Or(m.counting, "enabled", l.counting.enabled) = m.counting.enabled
      /\ A!Or(m.occupancy, "enabled", l.occupancy.enabled) = m.occupancy.enabled
      /\ A!Or(m.presence, "enabled", l.presence.enabled) = m.presence.enabled
      /\ A!Or(m.presence, "scenarios", A!NoAlerts) = m.presence.scenarios
  BY <1>1 DEF KeptStream, KeptAlerts, A!Or, A!Has
<1>3. /\ l.counting.interval = IntervalOf(was.counting)
      /\ l.occupancy.interval = IntervalOf(was.occupancy)
  BY DEF InForce
<1>4. /\ A!Or(m.counting, "interval", l.counting.interval) = IntervalOf(m.counting)
      /\ A!Or(m.occupancy, "interval", l.occupancy.interval) = IntervalOf(m.occupancy)
  BY <1>3 DEF IntervalOf, A!Or, A!Has
<1> HIDE DEF l
<1>5. A!Loaded(l, m) =
        [counting |-> [enabled |-> m.counting.enabled, interval |-> IntervalOf(m.counting)],
         occupancy |-> [enabled |-> m.occupancy.enabled, interval |-> IntervalOf(m.occupancy)],
         presence |-> [enabled |-> m.presence.enabled, scenarios |-> m.presence.scenarios]]
  BY <1>2, <1>4 DEF A!Loaded
<1> QED
  BY <1>5 DEF InForce, l

LEMMA StartInForce ==
  ASSUME A!ConstantsAssumption, NEW contents, OnDisk(contents)
  PROVE  A!Loaded(A!Loaded(A!Live, A!Merged(contents)), A!Migrated(contents))
         = InForce(A!Migrated(contents))
<1> DEFINE m == A!Merged(contents)
           n == A!Migrated(contents)
           l == A!Loaded(A!Live, m)
<1>1. /\ l.counting.interval = IntervalOf(m.counting)
      /\ l.occupancy.interval = IntervalOf(m.occupancy)
  BY DEF A!Loaded, A!Live, IntervalOf
<1>2. /\ "interval" \in DOMAIN m["counting"] => "interval" \in DOMAIN n["counting"]
      /\ "interval" \in DOMAIN m["occupancy"] => "interval" \in DOMAIN n["occupancy"]
      /\ KeptStream(n["counting"], "counting") /\ KeptStream(n["occupancy"], "occupancy")
      /\ KeptStream(n["presence"], "presence")
  BY MigratedKept DEF Kept, A!Stream
<1> HIDE DEF m, n, l
<1>3. /\ A!Or(n.counting, "enabled", l.counting.enabled) = n.counting.enabled
      /\ A!Or(n.occupancy, "enabled", l.occupancy.enabled) = n.occupancy.enabled
      /\ A!Or(n.presence, "enabled", l.presence.enabled) = n.presence.enabled
      /\ A!Or(n.presence, "scenarios", A!NoAlerts) = n.presence.scenarios
  BY <1>2 DEF KeptStream, KeptAlerts, A!Or, A!Has
<1>4. /\ A!Or(n.counting, "interval", l.counting.interval) = IntervalOf(n.counting)
      /\ A!Or(n.occupancy, "interval", l.occupancy.interval) = IntervalOf(n.occupancy)
  BY <1>1, <1>2 DEF IntervalOf, A!Or, A!Has
<1>5. A!Loaded(l, n) =
        [counting |-> [enabled |-> n.counting.enabled, interval |-> IntervalOf(n.counting)],
         occupancy |-> [enabled |-> n.occupancy.enabled, interval |-> IntervalOf(n.occupancy)],
         presence |-> [enabled |-> n.presence.enabled, scenarios |-> n.presence.scenarios]]
  BY <1>3, <1>4 DEF A!Loaded
<1> QED
  BY <1>5 DEF InForce, l, m, n

\* Between commands the settings of the streams are those that are stored, and a start
\* finds them if they are on the file.
LEMMA AoaHolds ==
  ASSUME A!ConstantsAssumption, AInv
  PROVE  A!TypeOK /\ A!SameAfterRestart
<1>1. Kept(Stands) /\ streams = InForce(Stands)
  BY DEF AInv, AoaStands
<1>2. ASSUME NEW stream \in A!Stream
      PROVE  /\ streams[stream].enabled = Stands[stream].enabled
             /\ stream # "presence" => streams[stream].interval = IntervalOf(Stands[stream])
             /\ KeptStream(Stands[stream], stream)
  BY <1>1 DEF InForce, A!Stream, Kept
<1>3. A!TypeOK
  <2>1. ASSUME NEW stream \in A!Stream
        PROVE  streams[stream].enabled \in BOOLEAN
    BY <1>2 DEF KeptStream
  <2>2. ASSUME NEW stream \in A!Stream \ {"presence"}
        PROVE  streams[stream].interval \in Interval
    BY <1>2 DEF KeptStream, IntervalOf
  <2> QED
    BY <2>1, <2>2 DEF A!TypeOK, AInv, AoaStands, Kept, Formed
<1>4. ASSUME writing = <<>>
      PROVE  /\ on_file => A!Migrated(aoa_file) = aoa_settings
             /\ streams = A!Loaded(streams, aoa_settings)
             /\ \A stream \in A!Stream : A!Build_Transmission_Config_Body(stream) =
                  <<streams[stream].enabled>>
                  \o IF stream = "presence" THEN <<>> ELSE <<streams[stream].interval>>
             /\ \A alert \in DOMAIN streams.presence.scenarios :
                  streams.presence.scenarios[alert].schedule # Unscheduled
  <2>1. Stands = aoa_settings
    BY <1>4 DEF Stands, Ordered
  <2>2. streams = A!Loaded(streams, aoa_settings)
    <3>1. \A stream \in {"counting", "occupancy"} :
            "interval" \in DOMAIN Stands[stream] \/ IntervalOf(Stands[stream]) = 15
      BY DEF IntervalOf, A!Or, A!Has
    <3> QED
      BY <1>1, <2>1, <3>1, LoadedInForce
  <2>3. ASSUME NEW stream \in A!Stream
        PROVE  A!Build_Transmission_Config_Body(stream) =
                 <<streams[stream].enabled>>
                 \o IF stream = "presence" THEN <<>> ELSE <<streams[stream].interval>>
    <3>1. A!Or(aoa_settings[stream], "enabled", FALSE) = streams[stream].enabled
      BY <1>2, <2>1 DEF KeptStream, A!Or, A!Has
    <3>2. stream # "presence" =>
            A!Or(aoa_settings[stream], "interval", 15) = streams[stream].interval
      BY <1>2, <2>1 DEF IntervalOf
    <3> QED
      BY <3>1, <3>2 DEF A!Build_Transmission_Config_Body
  <2>4. \A alert \in DOMAIN streams.presence.scenarios :
          streams.presence.scenarios[alert].schedule # Unscheduled
    <3>1. KeptStream(Stands["presence"], "presence")
      BY <1>2 DEF A!Stream
    <3>2. streams.presence.scenarios = Stands["presence"].scenarios
      BY <1>1 DEF InForce
    <3> QED
      BY <3>1, <3>2 DEF KeptStream, KeptAlerts
  <2> QED
    BY <2>2, <2>3, <2>4 DEF AInv, AoaFiled
<1> QED
  BY <1>3, <1>4 DEF A!SameAfterRestart, A!Idle

LEMMA NotOrdered ==
  ASSUME NEW contents
  PROVE  A!Migrating(contents) = <<>> \/ A!Migrating(contents)[1].op \notin A!Stream
BY DEF A!Migrating, A!Stream

LEMMA AoaStarts ==
  ASSUME A!ConstantsAssumption, A!Init
  PROVE  AInv
<1>1. OnDisk(aoa_file)
  BY DEF A!Init, A!ConstantsAssumption, OnDisk
<1>2. ~Ordered
  BY NotOrdered DEF A!Init, Ordered
<1>3. Stands = aoa_settings
  BY <1>2 DEF Stands
<1>4. Kept(aoa_settings) /\ streams = InForce(aoa_settings)
  BY <1>1, MigratedKept, StartInForce DEF A!Init
<1> QED
  BY <1>1, <1>2, <1>3, <1>4 DEF A!Init, AInv, AoaStands, AoaFiled, A!ConstantsAssumption

LEMMA AoaRestarts ==
  ASSUME A!ConstantsAssumption, AInv, A!Restart
  PROVE  AInv'
<1>1. OnDisk(aoa_file)
  BY DEF AInv, AoaStands
<1>2. ~Ordered'
  BY NotOrdered DEF A!Restart, Ordered
<1>3. Stands' = aoa_settings'
  BY <1>2 DEF Stands
<1>4. Kept(aoa_settings') /\ streams' = InForce(aoa_settings')
  BY <1>1, MigratedKept, StartInForce DEF A!Restart
<1>5. /\ aoa_file' = aoa_file /\ pages' = pages /\ on_file' = TRUE
      /\ aoa_settings' = A!Migrated(aoa_file)
  BY DEF A!Restart
<1> QED
  BY <1>1, <1>2, <1>3, <1>4, <1>5 DEF AInv, AoaStands, AoaFiled

\* A stream that is changed.
LEMMA KeptChanged ==
  ASSUME NEW m, Kept(m), NEW stream \in A!Stream,
         NEW n, Whole(n), DOMAIN n = DOMAIN m, KeptStream(n[stream], stream),
         \A key \in DOMAIN m \ {stream} : n[key] = m[key]
  PROVE  Kept(n) /\ \A other \in A!Stream \ {stream} : n[other] = m[other]
<1>1. stream \in DOMAIN m /\ stream # "version" /\ stream # "disabled"
  BY DefaultKeys DEF Kept, Formed, A!Stream
<1>2. n["version"] = m["version"] /\ n["disabled"] = m["disabled"]
  BY <1>1, DefaultKeys DEF Kept, Formed
<1>3. \A other \in A!Stream \ {stream} : n[other] = m[other]
  BY DefaultKeys DEF Kept, Formed, A!Stream
<1>4. n.version = m.version /\ n.disabled = m.disabled
  BY <1>2
<1>5. Formed(n)
  BY <1>4 DEF Kept, Formed
<1> QED
  BY <1>3, <1>4, <1>5 DEF Kept

LEMMA SwitchKept ==
  ASSUME NEW stream \in A!Stream, NEW group, KeptStream(group, stream), NEW on \in BOOLEAN
  PROVE  KeptStream(A!With(group, "enabled", on), stream)
<1> DEFINE w == A!With(group, "enabled", on)
<1>1. /\ Whole(w) /\ DOMAIN w = DOMAIN group /\ w["enabled"] = on
      /\ \A k \in DOMAIN group \ {"enabled"} : w[k] = group[k]
  BY DEF A!With, Whole, KeptStream
<1> HIDE DEF w
<1>2. w.enabled \in BOOLEAN
  BY <1>1
<1>3. w["port"] = group["port"] /\ A!Or(w, "interval", 15) = A!Or(group, "interval", 15)
  BY <1>1 DEF KeptStream, A!Or, A!Has
<1>4. stream = "presence" => KeptAlerts(w)
  BY <1>1 DEF KeptStream, KeptAlerts
<1> QED
  BY <1>1, <1>2, <1>3, <1>4 DEF KeptStream, w

LEMMA IntervalKept ==
  ASSUME NEW stream \in A!Stream, stream # "presence", NEW group, KeptStream(group, stream),
         NEW interval \in Interval
  PROVE  LET w == A!With(group, "interval", interval) IN
         KeptStream(w, stream) /\ "interval" \in DOMAIN w
<1> DEFINE w == A!With(group, "interval", interval)
<1>1. /\ Whole(w) /\ DOMAIN w = DOMAIN group \cup {"interval"} /\ w["interval"] = interval
      /\ \A k \in DOMAIN group \ {"interval"} : w[k] = group[k]
  BY DEF A!With, Whole, KeptStream
<1> HIDE DEF w
<1>2. w["enabled"] = group["enabled"] /\ w["port"] = group["port"]
  BY <1>1 DEF KeptStream
<1>3. w.enabled \in BOOLEAN
  BY <1>2 DEF KeptStream
<1>4. A!Or(w, "interval", 15) = interval
  BY <1>1 DEF A!Or, A!Has
<1> QED
  BY <1>1, <1>2, <1>3, <1>4 DEF KeptStream, w

LEMMA AlertsKept ==
  ASSUME NEW group, KeptStream(group, "presence"), NEW alerts,
         NEW s \in Schedule \ {Unscheduled}
  PROVE  KeptStream(A!With(group, "scenarios", [a \in alerts |-> [schedule |-> s]]), "presence")
<1> DEFINE scenarios == [a \in alerts |-> [schedule |-> s]]
           w == A!With(group, "scenarios", scenarios)
<1>1. /\ scenarios = [a \in DOMAIN scenarios |-> [schedule |-> scenarios[a].schedule]]
      /\ \A a \in DOMAIN scenarios : scenarios[a].schedule \in Schedule \ {Unscheduled}
  OBVIOUS
<1> HIDE DEF scenarios
<1>2. /\ Whole(w) /\ DOMAIN w = DOMAIN group /\ w["scenarios"] = scenarios
      /\ \A k \in DOMAIN group \ {"scenarios"} : w[k] = group[k]
  BY DEF A!With, Whole, KeptStream, KeptAlerts
<1> HIDE DEF w
<1>3. KeptAlerts(w)
  BY <1>1, <1>2 DEF KeptStream, KeptAlerts
<1>4. /\ w["enabled"] = group["enabled"] /\ w["port"] = group["port"]
      /\ A!Or(w, "interval", 15) = A!Or(group, "interval", 15)
  BY <1>2 DEF KeptStream, A!Or, A!Has
<1>5. w.enabled \in BOOLEAN
  BY <1>4 DEF KeptStream
<1>6. KeptStream(w, "presence")
  BY <1>2, <1>3, <1>4, <1>5 DEF KeptStream
<1> QED
  BY <1>6 DEF w, scenarios

LEMMA PageKept ==
  ASSUME Kept(aoa_settings), NEW stream \in A!Stream, NEW group \in A!Page(stream)
  PROVE  KeptStream(group, stream) /\ (stream # "presence" => "interval" \in DOMAIN group)
<1>1. KeptStream(aoa_settings[stream], stream)
  BY DEF Kept
<1>2. CASE stream = "presence"
  <2>1. group \in A!AlertsPage
    BY <1>2 DEF A!Page
  <2>2. PICK on \in BOOLEAN, alerts \in SUBSET Alert, s \in Schedule \ {Unscheduled} :
          group = A!With(A!With(aoa_settings.presence, "enabled", on), "scenarios",
                         [a \in alerts |-> [schedule |-> s]])
    BY <2>1 DEF A!AlertsPage
  <2>3. KeptStream(A!With(aoa_settings.presence, "enabled", on), "presence")
    BY <1>1, <1>2, SwitchKept
  <2> QED
    BY <1>2, <2>2, <2>3, AlertsKept
<1>3. CASE stream # "presence"
  <2>1. group \in A!StreamPage(stream)
    BY <1>3 DEF A!Page, A!Stream
  <2>2. PICK on \in BOOLEAN, i \in Interval :
          group = A!With(A!With(aoa_settings[stream], "enabled", on), "interval", i)
    BY <2>1 DEF A!StreamPage
  <2>3. KeptStream(A!With(aoa_settings[stream], "enabled", on), stream)
    BY <1>1, SwitchKept
  <2> QED
    BY <1>3, <2>2, <2>3, IntervalKept
<1> QED
  BY <1>2, <1>3

\* A page is loaded as it is stored.
LEMMA AoaPosted ==
  ASSUME A!ConstantsAssumption, AInv, NEW key \in A!Stream \cup {"disabled"},
         NEW value \in A!Page(key), A!ACAP_ENDPOINT_settings(key, value)
  PROVE  AInv'
<1>1. /\ writing = <<>> /\ aoa_file' = aoa_file /\ on_file' = FALSE /\ pages' \in 0 .. MaxPages
      /\ writing' = <<[op |-> "post", previous |-> <<>>]>>
      /\ aoa_settings' = [aoa_settings EXCEPT ![key] = value]
  BY DEF A!ACAP_ENDPOINT_settings, A!Change, A!Idle, A!Serve, AInv, AoaStands, A!ConstantsAssumption
<1>2. ~Ordered /\ ~Ordered' /\ Stands = aoa_settings /\ Stands' = aoa_settings'
  BY <1>1 DEF Ordered, Stands, A!Stream
<1>3. Kept(aoa_settings) /\ streams = InForce(aoa_settings) /\ OnDisk(aoa_file)
  BY <1>2 DEF AInv, AoaStands
<1>4. CASE key \in A!Stream
  <2>1. KeptStream(value, key) /\ (key # "presence" => "interval" \in DOMAIN value)
    BY <1>3, <1>4, PageKept
  <2>2. /\ Kept(aoa_settings') /\ aoa_settings'[key] = value
        /\ \A other \in A!Stream \ {key} : aoa_settings'[other] = aoa_settings[other]
    <3>1. key \in DOMAIN aoa_settings
      BY <1>3, <1>4, DefaultKeys DEF Kept, Formed, A!Stream
    <3>2. /\ Whole(aoa_settings') /\ DOMAIN aoa_settings' = DOMAIN aoa_settings
          /\ aoa_settings'[key] = value
          /\ \A other \in DOMAIN aoa_settings \ {key} : aoa_settings'[other] = aoa_settings[other]
      BY <1>1, <3>1 DEF Whole
    <3> QED
      BY <1>3, <1>4, <2>1, <3>2, KeptChanged
  <2>3. \A stream \in {"counting", "occupancy"} :
          "interval" \in DOMAIN aoa_settings'[stream] \/ IntervalOf(aoa_settings[stream]) = 15
    BY <2>1, <2>2 DEF IntervalOf, A!Or, A!Has, A!Stream
  <2>4. streams' = InForce(aoa_settings')
    <3>1. streams' = A!Loaded(streams, aoa_settings')
      BY <1>4 DEF A!ACAP_ENDPOINT_settings
    <3> QED
      BY <1>3, <2>2, <2>3, <3>1, LoadedInForce
  <2> QED
    BY <1>1, <1>2, <1>3, <2>2, <2>4 DEF AInv, AoaStands, AoaFiled
<1>5. CASE key = "disabled"
  <2>1. value \subseteq Command
    BY <1>5 DEF A!Page
  <2>2. /\ Whole(aoa_settings') /\ DOMAIN aoa_settings' = DOMAIN aoa_settings
        /\ aoa_settings'["disabled"] = value /\ aoa_settings'["version"] = aoa_settings["version"]
        /\ \A stream \in A!Stream : aoa_settings'[stream] = aoa_settings[stream]
    BY <1>1, <1>3, <1>5, DefaultKeys DEF Kept, Formed, Whole, A!Stream
  <2>3. aoa_settings'.disabled = value /\ aoa_settings'.version = aoa_settings.version
    BY <2>2
  <2>4. Kept(aoa_settings')
    BY <1>3, <2>1, <2>2, <2>3 DEF Kept, Formed
  <2>5. streams' = InForce(aoa_settings')
    <3>1. streams' = streams
      BY <1>5 DEF A!ACAP_ENDPOINT_settings, A!Stream
    <3>2. /\ aoa_settings'["counting"] = aoa_settings["counting"]
          /\ aoa_settings'["occupancy"] = aoa_settings["occupancy"]
          /\ aoa_settings'["presence"] = aoa_settings["presence"]
      BY <2>2 DEF A!Stream
    <3> QED
      BY <1>3, <3>1, <3>2 DEF InForce
  <2> QED
    BY <1>1, <1>2, <1>3, <2>4, <2>5 DEF AInv, AoaStands, AoaFiled
<1> QED
  BY <1>4, <1>5

\* A command: the streams go on as they are until it is written.
LEMMA AoaOrdered ==
  ASSUME A!ConstantsAssumption, AInv, NEW stream \in A!Stream, NEW enabled \in BOOLEAN,
         NEW interval \in Interval, A!Apply_Transmission_Config_Body(stream, enabled, interval)
  PROVE  AInv'
<1> DEFINE group == aoa_settings[stream]
           on == A!With(group, "enabled", enabled)
           value == IF stream = "presence" THEN on ELSE A!With(on, "interval", interval)
<1>1. /\ writing = <<>> /\ aoa_file' = aoa_file /\ on_file' = FALSE /\ pages' \in 0 .. MaxPages
      /\ writing' = <<[op |-> stream, previous |-> <<group, on_file>>]>>
      /\ aoa_settings' = [aoa_settings EXCEPT ![stream] = value] /\ streams' = streams
  BY DEF A!Apply_Transmission_Config_Body, A!Change, A!Idle, A!Serve, AInv, AoaStands,
         A!ConstantsAssumption
<1>2. ~Ordered /\ Stands = aoa_settings
  BY <1>1 DEF Ordered, Stands
<1>3. /\ Kept(aoa_settings) /\ streams = InForce(aoa_settings) /\ OnDisk(aoa_file)
      /\ on_file \in BOOLEAN /\ (on_file => A!Migrated(aoa_file) = aoa_settings)
  BY <1>2 DEF AInv, AoaStands, AoaFiled
<1>4. KeptStream(group, stream)
  BY <1>3 DEF Kept
<1>5. KeptStream(value, stream) /\ (stream # "presence" => "interval" \in DOMAIN value)
  BY <1>4, SwitchKept, IntervalKept
<1> HIDE DEF value
<1>6. Kept(aoa_settings') /\ aoa_settings'[stream] = value
  <2>1. stream \in DOMAIN aoa_settings
    BY <1>3, DefaultKeys DEF Kept, Formed, A!Stream
  <2>2. /\ Whole(aoa_settings') /\ DOMAIN aoa_settings' = DOMAIN aoa_settings
        /\ aoa_settings'[stream] = value
        /\ \A other \in DOMAIN aoa_settings \ {stream} : aoa_settings'[other] = aoa_settings[other]
    BY <1>1, <2>1 DEF Whole
  <2> QED
    BY <1>3, <1>5, <2>2, KeptChanged
<1>7. Stands' = aoa_settings
  <2>1. /\ writing' # <<>> /\ writing'[1].op = stream /\ writing'[1].previous[1] = group
    BY <1>1
  <2>2. Stands' = [aoa_settings' EXCEPT ![stream] = group]
    BY <2>1 DEF Stands, Ordered
  <2>3. stream \in DOMAIN aoa_settings
    BY <1>3, DefaultKeys DEF Kept, Formed, A!Stream
  <2>4. \A key \in DOMAIN aoa_settings : Stands'[key] = aoa_settings[key]
    BY <1>1, <2>2, <2>3
  <2>5. Stands' = [key \in DOMAIN aoa_settings |-> Stands'[key]]
    BY <1>1, <2>2
  <2> QED
    BY <1>3, <2>4, <2>5 DEF Kept, Formed, Whole
<1>8. Ordered' => /\ ~on_file' /\ writing'[1].previous[2] \in BOOLEAN
                  /\ writing'[1].previous[2] => A!Migrated(aoa_file') = Stands'
  <2>1. writing'[1].previous[2] = on_file
    BY <1>1
  <2> QED
    BY <1>1, <1>3, <1>7, <2>1
<1>9. Ordered' /\ writing'[1].op # "presence" => "interval" \in DOMAIN aoa_settings'[writing'[1].op]
  <2>1. writing'[1].op = stream
    BY <1>1
  <2> QED
    BY <1>5, <1>6, <2>1
<1> QED
  BY <1>1, <1>3, <1>6, <1>7, <1>8, <1>9 DEF AInv, AoaStands, AoaFiled

\* What a write leaves on the file.
LEMMA AoaWritten ==
  ASSUME A!ConstantsAssumption, Kept(aoa_settings), OnDisk(aoa_file),
         NEW outcome \in A!Outcome, A!ACAP_FILE_Write(outcome)
  PROVE  /\ OnDisk(aoa_file')
         /\ outcome = "written" => A!Migrated(aoa_file') = aoa_settings
         /\ outcome = "not_opened" => aoa_file' = aoa_file
<1>1. outcome = "written" => aoa_file' = <<aoa_settings>>
  BY DEF A!ACAP_FILE_Write
<1>2. outcome = "not_opened" => aoa_file' = aoa_file
  BY DEF A!ACAP_FILE_Write
<1>3. outcome \notin {"written", "not_opened"} => aoa_file' = <<>>
  BY DEF A!ACAP_FILE_Write
<1>4. A!Migrated(<<aoa_settings>>) = aoa_settings /\ A!Readable(aoa_settings)
  BY KeptRead
<1>5. OnDisk(<<aoa_settings>>)
  BY <1>4 DEF OnDisk
<1>6. OnDisk(aoa_file')
  <2>1. CASE outcome = "written"
    BY <1>1, <1>5, <2>1
  <2>2. CASE outcome = "not_opened"
    BY <1>2, <2>2
  <2>3. CASE outcome \notin {"written", "not_opened"}
    BY <1>3, <2>3 DEF OnDisk
  <2> QED
    BY <2>1, <2>2, <2>3
<1> QED
  BY <1>1, <1>2, <1>4, <1>6

LEMMA AoaSaved ==
  ASSUME A!ConstantsAssumption, AInv, NEW outcome \in A!Outcome,
         A!Migration_Written(outcome) \/ A!Settings_Posted(outcome)
  PROVE  AInv'
<1>1. /\ ~Ordered /\ A!ACAP_FILE_Write(outcome) /\ writing' = <<>>
      /\ UNCHANGED <<aoa_settings, streams, pages>>
      /\ on_file' \in {on_file /\ outcome \in {"written", "not_opened"}, outcome = "written"}
  BY DEF A!Migration_Written, A!Settings_Posted, Ordered, A!Stream
<1>2. ~Ordered' /\ Stands = aoa_settings /\ Stands' = aoa_settings
  BY <1>1 DEF Ordered, Stands
<1>3. Kept(aoa_settings) /\ OnDisk(aoa_file)
  BY DEF AInv, AoaStands
<1>4. /\ OnDisk(aoa_file')
      /\ outcome = "written" => A!Migrated(aoa_file') = aoa_settings
      /\ outcome = "not_opened" => aoa_file' = aoa_file
  BY <1>1, <1>3, AoaWritten
<1>5. on_file' \in BOOLEAN /\ (on_file' => A!Migrated(aoa_file') = aoa_settings)
  BY <1>1, <1>4 DEF AInv, AoaStands, AoaFiled
<1> QED
  BY <1>1, <1>2, <1>3, <1>4, <1>5 DEF AInv, AoaStands, AoaFiled

\* It is given to the streams, or taken back.
LEMMA AoaGiven ==
  ASSUME A!ConstantsAssumption, AInv, NEW outcome \in A!Outcome, A!Transmission_Written(outcome)
  PROVE  AInv'
<1> DEFINE stream == writing[1].op
<1>1. /\ Ordered /\ stream \in A!Stream /\ A!ACAP_FILE_Write(outcome) /\ writing' = <<>>
      /\ pages' = pages
  BY DEF A!Transmission_Written, A!Idle, Ordered
<1>2. ~Ordered' /\ Stands' = aoa_settings'
  BY <1>1 DEF Ordered, Stands
<1>3. /\ Kept(aoa_settings) /\ Kept(Stands) /\ OnDisk(aoa_file) /\ streams = InForce(Stands)
      /\ Stands = [aoa_settings EXCEPT ![stream] = writing[1].previous[1]]
  BY <1>1 DEF AInv, AoaStands, Stands
<1>4. /\ OnDisk(aoa_file')
      /\ outcome = "written" => A!Migrated(aoa_file') = aoa_settings
      /\ outcome = "not_opened" => aoa_file' = aoa_file
  BY <1>1, <1>3, AoaWritten
<1>5. CASE /\ streams' = A!Loaded(streams, aoa_settings) /\ on_file' = (outcome = "written")
           /\ aoa_settings' = aoa_settings
  <2>1. \A other \in {"counting", "occupancy"} :
          "interval" \in DOMAIN aoa_settings[other] \/ IntervalOf(Stands[other]) = 15
    <3>1. ASSUME NEW other \in {"counting", "occupancy"}, other # stream
          PROVE  Stands[other] = aoa_settings[other]
      BY <1>3, <3>1, DefaultKeys DEF Kept, Formed
    <3>2. stream # "presence" => "interval" \in DOMAIN aoa_settings[stream]
      BY <1>1 DEF AInv, AoaStands
    <3> QED
      BY <3>1, <3>2 DEF IntervalOf, A!Or, A!Has
  <2>2. streams' = InForce(aoa_settings)
    BY <1>3, <1>5, <2>1, LoadedInForce
  <2> QED
    BY <1>1, <1>2, <1>3, <1>4, <1>5, <2>2 DEF AInv, AoaStands, AoaFiled
<1>6. CASE /\ aoa_settings' = A!Restored(stream, writing[1].previous[1])
           /\ on_file' = (outcome = "not_opened" /\ writing[1].previous[2])
           /\ streams' = streams
  <2>1. aoa_settings' = Stands
    BY <1>3, <1>6 DEF A!Restored
  <2>2. on_file' \in BOOLEAN /\ (on_file' => A!Migrated(aoa_file') = Stands)
    BY <1>1, <1>4, <1>6 DEF AInv, AoaFiled
  <2> QED
    BY <1>1, <1>2, <1>3, <1>4, <1>6, <2>1, <2>2 DEF AInv, AoaStands, AoaFiled
<1> QED
  BY <1>5, <1>6 DEF A!Transmission_Written

LEMMA AoaStep ==
  ASSUME A!ConstantsAssumption, AInv, [A!Next]_(A!vars)
  PROVE  AInv'
<1>1. CASE UNCHANGED A!vars
  BY <1>1 DEF A!vars, AInv, AoaStands, AoaFiled, Ordered, Stands
<1> QED
  BY <1>1, AoaPosted, AoaOrdered, AoaSaved, AoaGiven, AoaRestarts DEF A!Next

\* A restart changes nothing: what is said to be saved is read as it was, what was refused
\* is nowhere, and the streams go by the settings, whatever version the file had (aoa/app/
\* main.c:329-470, 497-599, 788-816).
THEOREM AoaSettingsHold ==
  ASSUME A!ConstantsAssumption
  PROVE  A!Spec => [](A!TypeOK /\ A!SameAfterRestart)
<1>1. A!Init => AInv
  BY AoaStarts
<1>2. AInv /\ [A!Next]_(A!vars) => AInv'
  BY AoaStep
<1>3. AInv => A!TypeOK /\ A!SameAfterRestart
  BY AoaHolds
<1> QED
  BY <1>1, <1>2, <1>3, PTL DEF A!Spec

\* The settings of both apps hold, in their parts of the behaviour.
THEOREM SettingsKept ==
  ASSUME R!ConstantsAssumption, A!ConstantsAssumption
  PROVE  R!Spec /\ A!Spec => []SettingsHold
<1>1. R!Spec => [](R!TypeOK /\ R!AckedHolds /\ R!StoredInEffect)
  BY RadarSettingsHold
<1>2. A!Spec => [](A!TypeOK /\ A!SameAfterRestart)
  BY AoaSettingsHold
<1>3. (R!TypeOK /\ R!AckedHolds /\ R!StoredInEffect) /\ (A!TypeOK /\ A!SameAfterRestart)
      <=> SettingsHold
  BY DEF SettingsHold
<1> QED
  BY <1>1, <1>2, <1>3, PTL

(***************************************************************************)
(* The scenes of AOA.  What is being applied was read from AOA, was whole  *)
(* there, and agreed with the settings; between AOA and the settings only  *)
(* the scene that is being applied may be out of step.                     *)
(***************************************************************************)
Target == [index : Nat, id : Id, name : Name, map : SUBSET (Id \X Name)]
PendingUpdate ==
  [transfer : Transfer, target : Target, received : SUBSET S!Page, points : [S!Point -> S!Data]]
Scene == [name : Name, points : [S!Point -> S!Data]]
SceneMaps == UNION {[ids -> Scene] : ids \in SUBSET Id}
SceneCall ==
  [stage : {"aoa", "file", "rollback"}, pending : PendingUpdate, data : SceneMaps]
SceneTypes ==
  /\ scenes \in SceneMaps
  /\ transfers \in [Transfer -> {<<>>} \cup {<<target>> : target \in Target}]
  /\ pending = <<>> \/ \E p \in PendingUpdate : pending = <<p>>
  /\ memory \in [Id \X Name -> S!Data]
  /\ file = <<>> \/ file = <<memory>>
  /\ call = <<>> \/ \E c \in SceneCall : call = <<c>>
  /\ apart \subseteq Id \X Name /\ changes \in 0 .. MaxChanges

\* The corners of the pages that are there are those of the transfer.
Gathered(p, points) ==
  \A i \in points : p.points[i] = S!Content(p.transfer, p.target)
Received(p) == {i \in S!Point : i \div S!Points_Per_Page \in p.received}

ReadWhole(data) ==
  \A id \in DOMAIN data :
    /\ \A i \in S!Point : data[id].points[i] = data[id].points[0]
    /\ data[id].points[0] # <<>> =>
         data[id].points[0].id = id /\ data[id].points[0].name = data[id].name

Agrees(data, excepted) ==
  \A id \in DOMAIN data :
    \/ <<id, data[id].name>> \in excepted
    \/ memory[<<id, data[id].name>>] = data[id].points[0]

\* The scene that is being applied, in what was read from AOA and in AOA.
Read(c) ==
  /\ ReadWhole(c.data) /\ Agrees(c.data, apart)
  /\ c.pending.target.id \in DOMAIN c.data
  /\ c.data[c.pending.target.id].name = c.pending.target.name
  /\ Gathered(c.pending, S!Point)
Given(c) ==
  LET id == c.pending.target.id
      name == c.pending.target.name
  IN id \in DOMAIN scenes /\ scenes[id].name = name /\ <<id, name>> \notin apart =>
       scenes[id].points = c.pending.points

SInv ==
  /\ SceneTypes /\ ReadWhole(scenes)
  /\ pending # <<>> => Gathered(pending[1], Received(pending[1]))
  /\ call = <<>> => Agrees(scenes, apart)
  /\ call # <<>> =>
       /\ Read(call[1])
       /\ call[1].stage = "aoa" => Agrees(scenes, apart)
       /\ call[1].stage # "aoa" =>
            Agrees(scenes, apart \cup {S!SceneName(call[1].pending.target)}) /\ Given(call[1])

LEMMA SceneMap ==
  ASSUME NEW data \in SceneMaps
  PROVE  DOMAIN data \subseteq Id /\ data \in [DOMAIN data -> Scene]
BY DEF SceneMaps

LEMMA SceneMapMade ==
  ASSUME NEW ids \in SUBSET Id, NEW data \in [ids -> Scene]
  PROVE  data \in SceneMaps
BY DEF SceneMaps

\* Every corner is on a page.
LEMMA ScenePages ==
  ASSUME S!ConstantsAssumption
  PROVE  /\ 0 \in S!Point
         /\ \A i \in S!Point : i \div S!Points_Per_Page \in S!Page
<1>1. TotalPoints \in 2 .. 10 /\ Domain \in {"counting", "occupancy", "presence"}
      /\ ConfigVersion \in {1, 2}
  BY DEF S!ConstantsAssumption
<1>2. S!Points_Per_Page \in {6, 7, 8, 10}
  <2>1. S!Static_Field_Length \in {3, 9} /\ S!Coordinate_Bytes \in {3, 4}
    BY DEF S!Static_Field_Length, S!Coordinate_Bytes
  <2> QED
    BY <2>1 DEF S!Points_Per_Page, S!OTA_MAX_BODY_SIZE
<1>3. ASSUME NEW i \in S!Point
      PROVE  i \div S!Points_Per_Page \in S!Page
  <2>1. i \in Nat /\ i <= TotalPoints - 1
    BY <1>1 DEF S!Point
  <2>2. CASE S!Points_Per_Page = 6
    BY <2>1, <2>2, <1>1 DEF S!Page, S!Page_Count
  <2>3. CASE S!Points_Per_Page = 7
    BY <2>1, <2>3, <1>1 DEF S!Page, S!Page_Count
  <2>4. CASE S!Points_Per_Page = 8
    BY <2>1, <2>4, <1>1 DEF S!Page, S!Page_Count
  <2>5. CASE S!Points_Per_Page = 10
    BY <2>1, <2>5, <1>1 DEF S!Page, S!Page_Count
  <2> QED
    BY <1>2, <2>2, <2>3, <2>4, <2>5
<1> QED
  BY <1>1, <1>3 DEF S!Point

LEMMA SceneHolds ==
  ASSUME S!ConstantsAssumption, SInv
  PROVE  S!TypeOK /\ S!WholeTransfers /\ S!Together
<1>1. DOMAIN scenes \subseteq Id /\ scenes \in [DOMAIN scenes -> Scene]
  BY SceneMap DEF SInv, SceneTypes
<1>2. pending = <<>> \/ pending[1].received \subseteq S!Page
  BY DEF SInv, SceneTypes, PendingUpdate
<1>3. S!TypeOK
  BY <1>1, <1>2 DEF S!TypeOK, SInv, SceneTypes, Scene
<1>4. S!WholeTransfers
  BY DEF S!WholeTransfers, SInv, ReadWhole
<1>5. S!Together
  BY DEF S!Together, SInv, Agrees
<1> QED
  BY <1>3, <1>4, <1>5

LEMMA SceneStarts ==
  ASSUME S!ConstantsAssumption, S!Init
  PROVE  SInv
<1>1. S!Drawn \in [S!Point -> S!Data] /\ \A i \in S!Point : S!Drawn[i] = <<>>
  BY DEF S!Drawn, S!Data
<1>2. PICK drawn \in SUBSET Id : scenes \in [drawn -> [name : Name, points : {S!Drawn}]]
  BY DEF S!Init
<1>3. scenes \in [drawn -> Scene] /\ DOMAIN scenes = drawn
      /\ \A id \in drawn : scenes[id].points = S!Drawn /\ scenes[id].name \in Name
  BY <1>1, <1>2 DEF Scene
<1>4. SceneTypes
  <2>1. scenes \in SceneMaps
    BY <1>3, SceneMapMade
  <2>2. transfers \in [Transfer -> {<<>>} \cup {<<target>> : target \in Target}]
    BY DEF S!Init
  <2>3. memory \in [Id \X Name -> S!Data] /\ changes \in 0 .. MaxChanges
    BY DEF S!Init, S!Data, S!ConstantsAssumption
  <2> QED
    BY <2>1, <2>2, <2>3 DEF S!Init, SceneTypes
<1>5. ReadWhole(scenes)
  BY <1>1, <1>3, ScenePages DEF ReadWhole
<1>6. Agrees(scenes, apart)
  BY <1>1, <1>3, ScenePages DEF Agrees, S!Init
<1> QED
  BY <1>4, <1>5, <1>6 DEF SInv, S!Init

\* What a sender puts on its pages.
LEMMA SceneTargets ==
  ASSUME S!ConstantsAssumption, SceneTypes, NEW id \in DOMAIN scenes
  PROVE  S!Target(scenes, id) \in Target
<1>1. DOMAIN scenes \subseteq Id /\ \A j \in DOMAIN scenes : scenes[j].name \in Name
  BY SceneMap DEF SceneTypes, Scene
<1>2. IsFiniteSet({j \in DOMAIN scenes : j <= id})
  <2>1. IsFiniteSet(Id)
    BY DEF S!ConstantsAssumption, S!IsFiniteSet, IsFiniteSet
  <2> QED
    BY <1>1, <2>1, FS_Subset
<1>3. S!Index(scenes, id) \in Nat
  <2>1. S!Index(scenes, id) = Cardinality({j \in DOMAIN scenes : j <= id})
    BY DEF S!Index, S!Cardinality, Cardinality
  <2> QED
    BY <1>2, <2>1, FS_CardinalityType
<1>4. S!Map_Fingerprint(scenes) \subseteq Id \X Name
  BY <1>1 DEF S!Map_Fingerprint, S!Scene_Fingerprint
<1> QED
  BY <1>1, <1>3, <1>4 DEF S!Target, Target

LEMMA SceneBegins ==
  ASSUME S!ConstantsAssumption, SInv, NEW t \in Transfer, NEW id \in Id, S!Begin(t, id)
  PROVE  SInv'
<1>1. S!Target(scenes, id) \in Target
  BY SceneTargets DEF SInv, S!Begin
<1>2. SceneTypes'
  BY <1>1 DEF SInv, SceneTypes, S!Begin
<1> QED
  BY <1>2 DEF SInv, S!Begin, ReadWhole, Agrees, Read, Given

\* The pending transfer, or the one the page begins, is for a scene that AOA has.
LEMMA ScenePending ==
  ASSUME S!ConstantsAssumption, SInv, NEW t \in Transfer, S!Page_Received(t),
         S!SameTransfer(S!Begun(t), t)
  PROVE  /\ S!Begun(t) \in PendingUpdate /\ S!Begun(t).transfer = t
         /\ S!Begun(t).target.id \in DOMAIN scenes
         /\ scenes[S!Begun(t).target.id].name = S!Begun(t).target.name
         /\ S!Content(t, S!Begun(t).target) \in S!Data
         /\ Gathered(S!Begun(t), Received(S!Begun(t)))
<1> DEFINE p == S!Begun(t)
<1>1. PICK target \in Target : transfers[t] = <<target>>
  BY DEF S!Page_Received, SInv, SceneTypes
<1>2. target.id \in DOMAIN scenes /\ scenes[target.id].name = target.name
  BY <1>1 DEF S!Page_Received, S!Addressed, S!Scene_Fingerprint
<1>3. p.transfer = t /\ p.target = target
  BY <1>1 DEF S!SameTransfer, S!SameScene
<1>4. S!Drawn \in [S!Point -> S!Data]
  BY DEF S!Drawn, S!Data
<1>5. S!NewPending(t) \in PendingUpdate /\ S!NewPending(t).received = {}
  BY <1>1, <1>4 DEF S!NewPending, PendingUpdate
<1>6. p \in PendingUpdate /\ Gathered(p, Received(p))
  BY <1>5 DEF S!Begun, SInv, SceneTypes, Gathered, Received
<1>7. S!Content(t, target) \in S!Data
  BY DEF S!Content, S!Data, Target
<1> QED
  BY <1>2, <1>3, <1>6, <1>7

LEMMA ScenePageWritten ==
  ASSUME S!ConstantsAssumption, NEW t \in Transfer, NEW p \in PendingUpdate, p.transfer = t,
         S!Content(t, p.target) \in S!Data, NEW points \in SUBSET S!Point,
         NEW known \in SUBSET S!Point, Gathered(p, known)
  PROVE  /\ S!WithPage(p, t, points) \in PendingUpdate
         /\ S!WithPage(p, t, points).transfer = p.transfer
         /\ S!WithPage(p, t, points).target = p.target
         /\ S!WithPage(p, t, points).received = p.received
         /\ Gathered(S!WithPage(p, t, points), known \cup points)
<1> DEFINE written == [i \in S!Point |-> IF i \in points THEN S!Content(t, p.target)
                                         ELSE p.points[i]]
           q == [p EXCEPT !.points = written]
<1>1. written \in [S!Point -> S!Data]
  BY DEF PendingUpdate
<1>2. q \in PendingUpdate /\ q.transfer = p.transfer /\ q.target = p.target
      /\ q.received = p.received /\ q.points = written
  BY <1>1 DEF PendingUpdate
<1>3. S!WithPage(p, t, points) = q
  BY DEF S!WithPage
<1>4. Gathered(q, known \cup points)
  BY <1>2 DEF Gathered
<1> QED
  BY <1>2, <1>3, <1>4

\* While nothing is applied, what AOA has agrees with the settings.
LEMMA SceneValidates ==
  ASSUME S!ConstantsAssumption, SInv, NEW t \in Transfer, NEW page \in S!Page,
         S!Validate_Set_Page(t, page)
  PROVE  SInv'
<1> DEFINE begun == S!Begun(t)
           written == S!WithPage(begun, t, S!On(page))
           p == [written EXCEPT !.received = @ \cup {page}]
<1>1. begun \in PendingUpdate /\ begun.transfer = t
      /\ begun.target.id \in DOMAIN scenes
      /\ scenes[begun.target.id].name = begun.target.name
      /\ S!Content(t, begun.target) \in S!Data
      /\ Gathered(begun, Received(begun))
  BY ScenePending DEF S!Validate_Set_Page
<1>2. S!On(page) \subseteq S!Point /\ Received(begun) \subseteq S!Point
  BY DEF S!On, Received
<1>3. written \in PendingUpdate /\ written.transfer = t /\ written.target = begun.target
      /\ written.received = begun.received
      /\ Gathered(written, Received(begun) \cup S!On(page))
  BY <1>1, <1>2, ScenePageWritten
<1>4. p \in PendingUpdate /\ p.transfer = t /\ p.target = begun.target
      /\ p.received = begun.received \cup {page} /\ p.points = written.points
  BY <1>3 DEF PendingUpdate
<1>5. Received(p) = Received(begun) \cup S!On(page)
  BY <1>4 DEF Received, S!On
<1>6. Gathered(p, Received(p))
  BY <1>3, <1>4, <1>5 DEF Gathered
<1>7. pending' = <<p>> /\ call' = IF p.received = S!Page THEN <<S!Apply(p)>> ELSE <<>>
  BY DEF S!Validate_Set_Page
<1>8. call = <<>> /\ Agrees(scenes, apart) /\ ReadWhole(scenes) /\ SceneTypes
  BY DEF S!Validate_Set_Page, S!Page_Received, SInv
<1>9. UNCHANGED <<scenes, transfers, memory, file, apart, changes>>
  BY DEF S!Validate_Set_Page
<1>10. S!Apply(p) \in SceneCall /\ S!Apply(p).stage = "aoa" /\ S!Apply(p).data = scenes
       /\ S!Apply(p).pending = p
  BY <1>4, <1>8 DEF S!Apply, SceneCall, SceneTypes
<1>11. ASSUME p.received = S!Page
       PROVE  Read(S!Apply(p))
  <2>1. Received(p) = S!Point
    BY <1>11, ScenePages DEF Received
  <2> QED
    BY <1>1, <1>4, <1>6, <1>8, <1>10, <2>1 DEF Read
<1>12. SceneTypes'
  BY <1>4, <1>7, <1>8, <1>9, <1>10 DEF SceneTypes
<1>13. (pending # <<>> => Gathered(pending[1], Received(pending[1])))'
  BY <1>6, <1>7 DEF Gathered, Received
<1>14. ReadWhole(scenes)' /\ Agrees(scenes, apart)'
  BY <1>8, <1>9 DEF ReadWhole, Agrees
<1>15. CASE p.received = S!Page
  <2>1. call' = <<S!Apply(p)>> /\ call'[1] = S!Apply(p)
    BY <1>7, <1>15
  <2>2. Read(call[1])'
    BY <1>9, <1>11, <1>15, <2>1 DEF Read, ReadWhole, Agrees, Gathered
  <2> QED
    BY <1>10, <1>12, <1>13, <1>14, <2>1, <2>2 DEF SInv
<1>16. CASE p.received # S!Page
  BY <1>7, <1>12, <1>13, <1>14, <1>16 DEF SInv
<1> QED
  BY <1>15, <1>16

LEMMA SceneRefuses ==
  ASSUME S!ConstantsAssumption, SInv, NEW t \in Transfer, NEW page \in S!Page,
         S!Bad_Set_Page(t, page)
  PROVE  SInv'
<1> DEFINE begun == S!Begun(t)
           points == S!On(page) \ {S!LastOn(page)}
           p == S!WithPage(begun, t, points)
<1>1. begun \in PendingUpdate /\ begun.transfer = t
      /\ S!Content(t, begun.target) \in S!Data /\ Gathered(begun, Received(begun))
  BY ScenePending DEF S!Bad_Set_Page
<1>2. points \subseteq S!Point /\ Received(begun) \subseteq S!Point
  BY DEF S!On, Received
<1>3. p \in PendingUpdate /\ p.received = begun.received
      /\ Gathered(p, Received(begun) \cup points)
  BY <1>1, <1>2, ScenePageWritten
<1>4. Gathered(p, Received(p))
  BY <1>3 DEF Gathered, Received
<1>5. pending' = <<p>> /\ UNCHANGED <<scenes, transfers, memory, file, call, apart, changes>>
  BY DEF S!Bad_Set_Page
<1>6. SceneTypes'
  BY <1>3, <1>5 DEF SInv, SceneTypes
<1>7. (pending # <<>> => Gathered(pending[1], Received(pending[1])))'
  BY <1>4, <1>5 DEF Gathered, Received
<1> QED
  BY <1>5, <1>6, <1>7 DEF SInv, ReadWhole, Agrees, Read, Given

LEMMA SceneExpires ==
  ASSUME SInv, S!OTA_SCENE_PENDING_TIMEOUT
  PROVE  SInv'
BY DEF S!OTA_SCENE_PENDING_TIMEOUT, S!Expired, SInv, SceneTypes, ReadWhole, Agrees, Read, Given

\* What is given to AOA: what was read, with the corners of the transfer.
LEMMA SceneCandidate ==
  ASSUME S!ConstantsAssumption, SInv, call # <<>>
  PROVE  /\ call[1] \in SceneCall /\ call = <<call[1]>>
         /\ S!Candidate \in SceneMaps /\ ReadWhole(S!Candidate)
         /\ DOMAIN S!Candidate = DOMAIN call[1].data
         /\ S!Applied.target.id \in DOMAIN S!Candidate
         /\ S!Candidate[S!Applied.target.id].points = S!Applied.points
         /\ S!Candidate[S!Applied.target.id].name = S!Applied.target.name
         /\ S!Applied.points[0] = S!Content(S!Applied.transfer, S!Applied.target)
         /\ \A id \in DOMAIN S!Candidate \ {S!Applied.target.id} :
              S!Candidate[id] = call[1].data[id]
<1> DEFINE data == call[1].data
           p == call[1].pending
           id == p.target.id
           given == [data[id] EXCEPT !.points = p.points]
<1>1. call[1] \in SceneCall /\ call = <<call[1]>>
  BY DEF SInv, SceneTypes
<1>2. data \in SceneMaps /\ p \in PendingUpdate
  BY <1>1 DEF SceneCall
<1>3. id \in DOMAIN data /\ data[id].name = p.target.name /\ ReadWhole(data)
      /\ Gathered(p, S!Point)
  BY DEF SInv, Read
<1>4. DOMAIN data \subseteq Id /\ data \in [DOMAIN data -> Scene]
  BY <1>2, SceneMap
<1>5. given \in Scene /\ given.points = p.points /\ given.name = p.target.name
  BY <1>2, <1>3, <1>4 DEF Scene, PendingUpdate
<1>6. S!Candidate = [data EXCEPT ![id] = given]
  BY DEF S!Candidate, S!Applied
<1>7. S!Candidate \in [DOMAIN data -> Scene] /\ DOMAIN S!Candidate = DOMAIN data
      /\ S!Candidate[id] = given
      /\ \A j \in DOMAIN data \ {id} : S!Candidate[j] = data[j]
  BY <1>3, <1>4, <1>5, <1>6
<1>8. \A i \in S!Point : p.points[i] = S!Content(p.transfer, p.target)
  BY <1>3 DEF Gathered
<1>9. 0 \in S!Point
  BY ScenePages
<1>10. S!Content(p.transfer, p.target).id = id
       /\ S!Content(p.transfer, p.target).name = p.target.name
  BY DEF S!Content
<1>11. ReadWhole(S!Candidate)
  <2>1. SUFFICES ASSUME NEW j \in DOMAIN data
                 PROVE  /\ \A i \in S!Point : S!Candidate[j].points[i] = S!Candidate[j].points[0]
                        /\ S!Candidate[j].points[0] # <<>> =>
                             S!Candidate[j].points[0].id = j
                             /\ S!Candidate[j].points[0].name = S!Candidate[j].name
    BY <1>7 DEF ReadWhole
  <2>2. CASE j = id
    BY <1>5, <1>7, <1>8, <1>9, <1>10, <2>2
  <2>3. CASE j # id
    <3>1. /\ \A i \in S!Point : data[j].points[i] = data[j].points[0]
          /\ data[j].points[0] # <<>> =>
               data[j].points[0].id = j /\ data[j].points[0].name = data[j].name
      BY <1>3 DEF ReadWhole
    <3>2. S!Candidate[j] = data[j]
      BY <1>7, <2>3
    <3> QED
      BY <3>1, <3>2
  <2> QED
    BY <2>2, <2>3
<1> QED
  BY <1>1, <1>3, <1>4, <1>5, <1>7, <1>8, <1>9, <1>11, SceneMapMade DEF S!Applied

\* All but the scene that is being applied agree still.
LEMMA SceneCandidateAgrees ==
  ASSUME S!ConstantsAssumption, SInv, call # <<>>
  PROVE  Agrees(S!Candidate, apart \cup {S!AppliedName})
<1>1. Agrees(call[1].data, apart)
  BY DEF SInv, Read
<1>2. DOMAIN S!Candidate = DOMAIN call[1].data
      /\ S!Candidate[S!Applied.target.id].name = S!Applied.target.name
      /\ \A id \in DOMAIN S!Candidate \ {S!Applied.target.id} :
           S!Candidate[id] = call[1].data[id]
  BY SceneCandidate
<1>3. S!AppliedName = <<S!Applied.target.id, S!Applied.target.name>>
  BY DEF S!AppliedName, S!SceneName
<1>4. ASSUME NEW id \in DOMAIN S!Candidate
      PROVE  \/ <<id, S!Candidate[id].name>> \in apart \cup {S!AppliedName}
             \/ memory[<<id, S!Candidate[id].name>>] = S!Candidate[id].points[0]
  <2>1. CASE id = S!Applied.target.id
    BY <1>2, <1>3, <2>1
  <2>2. CASE id # S!Applied.target.id
    <3>1. S!Candidate[id] = call[1].data[id] /\ id \in DOMAIN call[1].data
      BY <1>2, <1>4, <2>2
    <3>2. \/ <<id, call[1].data[id].name>> \in apart
          \/ memory[<<id, call[1].data[id].name>>] = call[1].data[id].points[0]
      BY <1>1, <3>1 DEF Agrees
    <3> QED
      BY <3>1, <3>2
  <2> QED
    BY <2>1, <2>2
<1> QED
  BY <1>4 DEF Agrees

\* A later stage of what is being applied.
LEMMA SceneGoes ==
  ASSUME S!ConstantsAssumption, SInv, call # <<>>, NEW stage \in {"aoa", "file", "rollback"},
         S!Goes(stage)
  PROVE  /\ \E c \in SceneCall : call' = <<c>>
         /\ call' # <<>> /\ call'[1].stage = stage /\ call'[1].pending = call[1].pending
         /\ call'[1].data = call[1].data /\ pending' = pending
<1> DEFINE c == [call[1] EXCEPT !.stage = stage]
<1>1. call[1] \in SceneCall
  BY SceneCandidate
<1>2. c \in SceneCall /\ c.stage = stage /\ c.pending = call[1].pending
      /\ c.data = call[1].data
  BY <1>1 DEF SceneCall
<1>3. call' = <<c>> /\ pending' = pending
  BY DEF S!Goes
<1> HIDE DEF c
<1>4. call' # <<>> /\ call'[1] = c
  BY <1>3
<1> QED
  BY <1>2, <1>3, <1>4

\* What was read agrees with the settings for as long as they stay as they are.
LEMMA SceneReadStays ==
  ASSUME SInv, call # <<>>, call'[1].data = call[1].data, call'[1].pending = call[1].pending,
         UNCHANGED memory, apart \subseteq apart'
  PROVE  Read(call[1])'
<1> DEFINE data == call[1].data
<1>1. ReadWhole(data) /\ Agrees(data, apart) /\ Read(call[1])
  BY DEF SInv, Read
<1>2. ReadWhole(data)'
  BY <1>1 DEF ReadWhole
<1>3. ASSUME NEW id \in DOMAIN data
      PROVE  \/ <<id, data[id].name>> \in apart'
             \/ memory'[<<id, data[id].name>>] = data[id].points[0]
  BY <1>1, <1>3 DEF Agrees
<1>4. Agrees(data, apart)'
  BY <1>3 DEF Agrees
<1>5. Gathered(call[1].pending, S!Point)'
  BY <1>1 DEF Read, Gathered
<1> QED
  BY <1>1, <1>2, <1>4, <1>5 DEF Read

LEMMA SceneApplied ==
  ASSUME S!ConstantsAssumption, SInv, NEW outcome \in {"set", "lost", "refused"},
         S!Apply_AOA_Configuration(outcome)
  PROVE  SInv'
<1>1. call # <<>> /\ call[1].stage = "aoa"
  BY DEF S!Apply_AOA_Configuration, S!Applying
<1>2. SceneTypes /\ ReadWhole(scenes) /\ Agrees(scenes, apart)
  BY <1>1 DEF SInv
<1>3. call[1] \in SceneCall /\ S!Candidate \in SceneMaps /\ ReadWhole(S!Candidate)
      /\ S!Candidate[S!Applied.target.id].points = S!Applied.points
      /\ S!Applied.target \in Target /\ S!Applied.target.id \in Id
      /\ S!Applied.target.name \in Name
  <2>1. S!Applied \in PendingUpdate
    BY <1>1, SceneCandidate DEF S!Applied, SceneCall
  <2> QED
    BY <1>1, <2>1, SceneCandidate DEF PendingUpdate, Target
<1>4. UNCHANGED <<transfers, memory, file, changes>>
  BY DEF S!Apply_AOA_Configuration
<1>5. CASE outcome = "refused"
  <2>1. UNCHANGED <<scenes, apart>> /\ call' = <<>> /\ pending' = <<>>
    BY <1>5 DEF S!Apply_AOA_Configuration, S!Answered
  <2> QED
    BY <1>2, <1>4, <2>1 DEF SInv, SceneTypes, ReadWhole, Agrees
<1>6. CASE outcome = "lost"
  <2>1. scenes' = S!Candidate /\ apart' = apart \cup {S!AppliedName}
        /\ call' = <<>> /\ pending' = <<>>
    BY <1>6 DEF S!Apply_AOA_Configuration, S!Answered
  <2>2. SceneTypes'
    BY <1>2, <1>3, <1>4, <2>1 DEF SceneTypes, S!AppliedName, S!SceneName
  <2>3. ReadWhole(scenes)'
    BY <1>3, <2>1 DEF ReadWhole
  <2>4. Agrees(scenes, apart)'
    BY <1>1, <1>4, <2>1, SceneCandidateAgrees DEF Agrees
  <2> QED
    BY <2>1, <2>2, <2>3, <2>4 DEF SInv
<1>7. CASE outcome = "set"
  <2>1. scenes' = S!Candidate /\ UNCHANGED apart /\ S!Goes("file")
    BY <1>7 DEF S!Apply_AOA_Configuration
  <2>2. (\E c \in SceneCall : call' = <<c>>) /\ call' # <<>> /\ call'[1].stage = "file"
        /\ call'[1].pending = call[1].pending
        /\ call'[1].data = call[1].data /\ pending' = pending
    BY <1>1, <2>1, SceneGoes
  <2>3. SceneTypes'
    BY <1>2, <1>3, <1>4, <2>1, <2>2 DEF SceneTypes
  <2>4. ReadWhole(scenes)'
    BY <1>3, <2>1 DEF ReadWhole
  <2>5. (Agrees(scenes, apart \cup {S!SceneName(call[1].pending.target)}))'
    BY <1>1, <1>4, <2>1, <2>2, SceneCandidateAgrees
    DEF Agrees, S!AppliedName, S!SceneName, S!Applied
  <2>6. Given(call[1])'
    BY <1>3, <2>1, <2>2 DEF Given, S!Applied
  <2>7. Read(call[1])'
    BY <1>1, <1>4, <2>1, <2>2, SceneReadStays
  <2>8. (pending # <<>> => Gathered(pending[1], Received(pending[1])))'
    BY <2>2 DEF SInv, Gathered, Received
  <2> QED
    BY <2>2, <2>3, <2>4, <2>5, <2>6, <2>7, <2>8 DEF SInv
<1> QED
  BY <1>5, <1>6, <1>7

LEMMA SceneWritten ==
  ASSUME S!ConstantsAssumption, SInv, NEW outcome \in S!Outcome, S!ACAP_FILE_Write(outcome)
  PROVE  SInv'
<1> DEFINE id == S!Applied.target.id
           name == S!Applied.target.name
           content == S!Content(S!Applied.transfer, S!Applied.target)
<1>1. call # <<>> /\ call[1].stage = "file"
  BY DEF S!ACAP_FILE_Write, S!Applying
<1>2. SceneTypes /\ ReadWhole(scenes) /\ Agrees(scenes, apart \cup {<<id, name>>})
      /\ Given(call[1])
  BY <1>1 DEF SInv, S!SceneName, S!Applied
<1>3. id \in Id /\ name \in Name /\ content \in S!Data
  <2>1. S!Applied \in PendingUpdate
    BY <1>1, SceneCandidate DEF S!Applied, SceneCall
  <2> QED
    BY <2>1 DEF PendingUpdate, Target, S!Content, S!Data
<1>4. S!CandidateSettings = [memory EXCEPT ![<<id, name>>] = content]
  BY DEF S!CandidateSettings, S!AppliedName, S!SceneName
<1>5. S!CandidateSettings \in [Id \X Name -> S!Data]
      /\ S!CandidateSettings[<<id, name>>] = content
      /\ \A n \in (Id \X Name) \ {<<id, name>>} : S!CandidateSettings[n] = memory[n]
  BY <1>2, <1>3, <1>4 DEF SceneTypes
<1>6. UNCHANGED <<scenes, transfers, changes>>
  BY DEF S!ACAP_FILE_Write
<1>7. DOMAIN scenes \subseteq Id /\ \A j \in DOMAIN scenes : scenes[j].name \in Name
  BY <1>2, SceneMap DEF SceneTypes, Scene
<1>8. CASE S!Returns(outcome)
  <2>1. memory' = S!CandidateSettings /\ call' = <<>> /\ pending' = <<>>
        /\ apart' = IF S!Undisturbed THEN apart \ {S!AppliedName} ELSE apart
    BY <1>8 DEF S!ACAP_FILE_Write, S!Answered
  <2>2. file' = <<>> \/ file' = <<memory'>>
    BY <1>8, <2>1 DEF S!ACAP_FILE_Write, S!Returns
  <2>3. SceneTypes'
    BY <1>2, <1>5, <1>6, <2>1, <2>2 DEF SceneTypes
  <2>4. ASSUME NEW j \in DOMAIN scenes, <<j, scenes[j].name>> \notin apart'
        PROVE  memory'[<<j, scenes[j].name>>] = scenes[j].points[0]
    <3>1. CASE <<j, scenes[j].name>> # <<id, name>>
      <4>1. <<j, scenes[j].name>> \notin apart
        BY <2>1, <2>4, <3>1 DEF S!AppliedName, S!SceneName
      <4>2. memory[<<j, scenes[j].name>>] = scenes[j].points[0]
        BY <1>2, <2>4, <3>1, <4>1 DEF Agrees
      <4> QED
        BY <1>5, <1>7, <2>1, <2>4, <3>1, <4>2
    <3>2. CASE <<j, scenes[j].name>> = <<id, name>>
      <4>1. scenes[id].points = S!Applied.points
        <5>1. CASE S!Undisturbed
          BY <1>1, <5>1, SceneCandidate DEF S!Undisturbed
        <5>2. CASE ~S!Undisturbed
          BY <1>2, <2>1, <2>4, <3>2, <5>2 DEF Given, S!Applied
        <5> QED
          BY <5>1, <5>2
      <4>2. S!Applied.points[0] = content
        BY <1>1, SceneCandidate
      <4> QED
        BY <1>5, <2>1, <3>2, <4>1, <4>2
    <3> QED
      BY <3>1, <3>2
  <2>5. Agrees(scenes, apart)'
    BY <1>6, <2>4 DEF Agrees
  <2> QED
    BY <1>2, <1>6, <2>1, <2>3, <2>5 DEF SInv, ReadWhole
<1>9. CASE ~S!Returns(outcome)
  <2>1. S!Goes("rollback") /\ UNCHANGED <<memory, apart>>
    BY <1>9 DEF S!ACAP_FILE_Write, S!AfterFailure
  <2>2. (\E c \in SceneCall : call' = <<c>>) /\ call' # <<>> /\ call'[1].stage = "rollback"
        /\ call'[1].pending = call[1].pending
        /\ call'[1].data = call[1].data /\ pending' = pending
    BY <1>1, <2>1, SceneGoes
  <2>3. file' = <<>> \/ file' = file
    BY <1>9 DEF S!ACAP_FILE_Write, S!Returns
  <2>4. SceneTypes'
    BY <1>2, <1>6, <2>1, <2>2, <2>3 DEF SceneTypes
  <2>5. (Agrees(scenes, apart \cup {S!SceneName(call[1].pending.target)}))'
    BY <1>2, <1>6, <2>1, <2>2 DEF Agrees, S!SceneName, S!Applied
  <2>6. Given(call[1])'
    BY <1>2, <1>6, <2>1, <2>2 DEF Given
  <2>7. Read(call[1])'
    BY <1>1, <2>1, <2>2, SceneReadStays
  <2>8. (pending # <<>> => Gathered(pending[1], Received(pending[1])))'
    BY <2>2 DEF SInv, Gathered, Received
  <2>9. ReadWhole(scenes)'
    BY <1>2, <1>6 DEF ReadWhole
  <2> QED
    BY <2>2, <2>4, <2>5, <2>6, <2>7, <2>8, <2>9 DEF SInv
<1> QED
  BY <1>8, <1>9

LEMMA SceneRolledBack ==
  ASSUME S!ConstantsAssumption, SInv, NEW done \in BOOLEAN, S!Rollback(done)
  PROVE  SInv'
<1>1. call # <<>> /\ call[1].stage = "rollback"
  BY DEF S!Rollback, S!Applying
<1>2. SceneTypes /\ ReadWhole(scenes) /\ Agrees(scenes, apart \cup {S!AppliedName})
      /\ ReadWhole(call[1].data) /\ Agrees(call[1].data, apart)
  BY <1>1 DEF SInv, Read, S!AppliedName, S!Applied
<1>3. call[1].data \in SceneMaps /\ S!AppliedName \in Id \X Name
  <2>1. call[1] \in SceneCall /\ S!Applied \in PendingUpdate
    BY <1>1, SceneCandidate DEF S!Applied, SceneCall
  <2> QED
    BY <2>1 DEF SceneCall, PendingUpdate, Target, S!AppliedName, S!SceneName
<1>4. call' = <<>> /\ pending' = <<>> /\ UNCHANGED <<transfers, memory, file, changes>>
  BY DEF S!Rollback, S!Answered
<1>5. CASE done
  BY <1>2, <1>3, <1>4, <1>5 DEF S!Rollback, SInv, SceneTypes, ReadWhole, Agrees
<1>6. CASE ~done
  BY <1>2, <1>3, <1>4, <1>6 DEF S!Rollback, SInv, SceneTypes, ReadWhole, Agrees
<1> QED
  BY <1>5, <1>6

\* What the user of AOA does agrees with what the transfers promise.
LEMMA SceneDisturbed ==
  ASSUME S!ConstantsAssumption, SInv, NEW ids \in SUBSET Id, scenes' \in [ids -> Scene],
         apart \subseteq apart', apart' \subseteq Id \X Name, changes' \in 0 .. MaxChanges,
         UNCHANGED <<transfers, pending, memory, file, call>>,
         \A id \in ids : \/ id \in DOMAIN scenes /\ scenes'[id] = scenes[id]
                         \/ /\ <<id, scenes'[id].name>> \in apart'
                            /\ scenes'[id].points = S!Drawn
  PROVE  SInv'
<1>1. SceneTypes /\ ReadWhole(scenes)
  BY DEF SInv
<1>2. scenes' \in SceneMaps
  BY SceneMapMade
<1>3. SceneTypes'
  BY <1>1, <1>2 DEF SceneTypes
<1>4. \A i \in S!Point : S!Drawn[i] = <<>>
  BY DEF S!Drawn
<1>5. ReadWhole(scenes)'
  <2>1. 0 \in S!Point /\ DOMAIN scenes' = ids
    BY ScenePages
  <2>2. ASSUME NEW id \in ids
        PROVE  /\ \A i \in S!Point : scenes'[id].points[i] = scenes'[id].points[0]
               /\ scenes'[id].points[0] # <<>> =>
                    scenes'[id].points[0].id = id
                    /\ scenes'[id].points[0].name = scenes'[id].name
    <3>1. CASE id \in DOMAIN scenes /\ scenes'[id] = scenes[id]
      BY <1>1, <3>1 DEF ReadWhole
    <3>2. CASE scenes'[id].points = S!Drawn
      BY <1>4, <2>1, <3>2
    <3> QED
      BY <2>2, <3>1, <3>2
  <2> QED
    BY <2>1, <2>2 DEF ReadWhole
<1>6. ASSUME NEW id \in ids, <<id, scenes'[id].name>> \notin apart'
      PROVE  /\ id \in DOMAIN scenes /\ scenes'[id] = scenes[id]
             /\ <<id, scenes[id].name>> \notin apart
  BY <1>6
<1>7. Agrees(scenes, apart) => Agrees(scenes, apart)'
  BY <1>6 DEF Agrees
<1>8. CASE call = <<>>
  BY <1>3, <1>5, <1>7, <1>8 DEF SInv, Gathered, Received
<1>9. CASE call # <<>>
  <2>1. Read(call[1])'
    BY <1>9, SceneReadStays
  <2>2. Given(call[1]) => Given(call[1])'
    BY DEF Given
  <2>3. ASSUME Agrees(scenes, apart \cup {S!SceneName(call[1].pending.target)})
        PROVE  Agrees(scenes, apart \cup {S!SceneName(call[1].pending.target)})'
    BY <1>6, <2>3 DEF Agrees
  <2> QED
    BY <1>3, <1>5, <1>7, <1>9, <2>1, <2>2, <2>3 DEF SInv, Gathered, Received
<1> QED
  BY <1>8, <1>9

LEMMA SceneEdited ==
  ASSUME S!ConstantsAssumption, SInv, NEW id \in Id, NEW name \in Name, S!Edit(id, name)
  PROVE  SInv'
<1> DEFINE drawn == [name |-> name, points |-> S!Drawn]
           ids == DOMAIN scenes \cup {id}
<1>1. DOMAIN scenes \subseteq Id /\ scenes \in [DOMAIN scenes -> Scene]
  BY SceneMap DEF SInv, SceneTypes
<1>2. drawn \in Scene /\ drawn.name = name /\ drawn.points = S!Drawn
  BY DEF Scene, S!Drawn, S!Data
<1>3. scenes' = [j \in ids |-> IF j = id THEN drawn ELSE scenes[j]]
  BY DEF S!Edit
<1> HIDE DEF drawn
<1>4. scenes' \in [ids -> Scene] /\ ids \in SUBSET Id
  BY <1>1, <1>2, <1>3
<1>5. apart' = apart \cup {<<id, name>>} /\ apart' \subseteq Id \X Name
      /\ UNCHANGED <<transfers, pending, memory, file, call>>
  BY DEF S!Edit, SInv, SceneTypes
<1>6. changes' \in 0 .. MaxChanges
  BY DEF S!Edit, S!Change, SInv, SceneTypes, S!ConstantsAssumption
<1>7. \A j \in ids : \/ j \in DOMAIN scenes /\ scenes'[j] = scenes[j]
                     \/ <<j, scenes'[j].name>> \in apart' /\ scenes'[j].points = S!Drawn
  BY <1>2, <1>3, <1>5
<1> HIDE DEF ids
<1> QED
  BY <1>4, <1>5, <1>6, <1>7, SceneDisturbed

LEMMA SceneRemoved ==
  ASSUME S!ConstantsAssumption, SInv, NEW id \in Id, S!Remove(id)
  PROVE  SInv'
<1> DEFINE ids == DOMAIN scenes \ {id}
<1>1. DOMAIN scenes \subseteq Id /\ scenes \in [DOMAIN scenes -> Scene]
      /\ apart \subseteq Id \X Name
  BY SceneMap DEF SInv, SceneTypes
<1>2. scenes' = [j \in ids |-> scenes[j]]
      /\ UNCHANGED <<transfers, pending, memory, file, call, apart>>
  BY DEF S!Remove
<1>3. scenes' \in [ids -> Scene] /\ ids \in SUBSET Id
      /\ \A j \in ids : j \in DOMAIN scenes /\ scenes'[j] = scenes[j]
  BY <1>1, <1>2
<1>4. changes' \in 0 .. MaxChanges
  BY DEF S!Remove, S!Change, SInv, SceneTypes, S!ConstantsAssumption
<1> HIDE DEF ids
<1> QED
  BY <1>1, <1>2, <1>3, <1>4, SceneDisturbed

\* The file is what is in memory, or it cannot be read and nothing is claimed.
LEMMA SceneRestarts ==
  ASSUME S!ConstantsAssumption, SInv, S!Restart
  PROVE  SInv'
<1>1. SceneTypes /\ ReadWhole(scenes)
  BY DEF SInv
<1>2. changes' \in 0 .. MaxChanges
  BY DEF S!Restart, S!Change, SInv, SceneTypes, S!ConstantsAssumption
<1>3. UNCHANGED <<scenes, transfers, file>> /\ pending' = <<>> /\ call' = <<>>
  BY DEF S!Restart
<1>4. ReadWhole(scenes)'
  BY <1>1, <1>3 DEF ReadWhole
<1>5. DOMAIN scenes \subseteq Id /\ \A id \in DOMAIN scenes : scenes[id].name \in Name
  BY <1>1, SceneMap DEF SceneTypes, Scene
<1>6. CASE file = <<>>
  <2>1. memory' = [n \in Id \X Name |-> <<>>] /\ apart' = Id \X Name
    BY <1>6 DEF S!Restart
  <2>2. memory' \in [Id \X Name -> S!Data]
    BY <2>1 DEF S!Data
  <2>3. SceneTypes'
    BY <1>1, <1>2, <1>3, <1>6, <2>1, <2>2 DEF SceneTypes
  <2>4. Agrees(scenes, apart)'
    BY <1>3, <1>5, <2>1 DEF Agrees
  <2> QED
    BY <1>3, <1>4, <2>3, <2>4 DEF SInv
<1>7. CASE file = <<memory>>
  <2>1. memory' = memory
        /\ apart' = apart \cup (IF call = <<>> THEN {} ELSE {S!AppliedName})
    BY <1>7 DEF S!Restart
  <2>2. call # <<>> => S!AppliedName \in Id \X Name
    <3>1. SUFFICES ASSUME call # <<>>
                   PROVE  S!AppliedName \in Id \X Name
      OBVIOUS
    <3>2. S!Applied \in PendingUpdate
      BY <3>1, SceneCandidate DEF S!Applied, SceneCall
    <3> QED
      BY <3>2 DEF PendingUpdate, Target, S!AppliedName, S!SceneName
  <2>3. SceneTypes'
    BY <1>1, <1>2, <1>3, <1>7, <2>1, <2>2 DEF SceneTypes
  <2>4. Agrees(scenes, apart')
    <3>1. CASE call = <<>>
      BY <2>1, <3>1 DEF SInv
    <3>2. CASE call # <<>>
      <4>1. \/ Agrees(scenes, apart)
            \/ Agrees(scenes, apart \cup {S!AppliedName})
        BY <3>2 DEF SInv, S!AppliedName, S!Applied
      <4> QED
        BY <2>1, <3>2, <4>1 DEF Agrees
    <3> QED
      BY <3>1, <3>2
  <2>5. Agrees(scenes, apart)'
    BY <1>3, <2>1, <2>4 DEF Agrees
  <2> QED
    BY <1>3, <1>4, <2>3, <2>5 DEF SInv
<1> QED
  BY <1>1, <1>6, <1>7 DEF SceneTypes

LEMMA SceneStep ==
  ASSUME S!ConstantsAssumption, SInv, [S!Next]_(S!vars)
  PROVE  SInv'
<1>1. CASE UNCHANGED S!vars
  BY <1>1 DEF S!vars, SInv, SceneTypes, ReadWhole, Agrees, Read, Given, Gathered, Received
<1>2. CASE S!Apply_Pending
  BY <1>2, SceneApplied, SceneWritten, SceneRolledBack DEF S!Apply_Pending
<1> QED
  BY <1>1, <1>2, SceneBegins, SceneValidates, SceneRefuses, SceneExpires, SceneEdited,
     SceneRemoved, SceneRestarts DEF S!Next, S!Set_Page

\* A scene is set as a whole or not at all, and AOA and the settings go together, however
\* pages come and whatever fails, stops or is drawn in between (ota_scene.c:533-755).
THEOREM ScenesKept ==
  ASSUME S!ConstantsAssumption
  PROVE  S!Spec => []ScenesWhole
<1>1. S!Init => SInv
  BY SceneStarts
<1>2. SInv /\ [S!Next]_(S!vars) => SInv'
  BY SceneStep
<1>3. SInv => ScenesWhole
  BY SceneHolds DEF ScenesWhole
<1> QED
  BY <1>1, <1>2, <1>3, PTL DEF S!Spec

(***************************************************************************)
(* detectx from its start to its end.  What is held at each point of main, *)
(* and what the selection means once the model is set up.                  *)
(***************************************************************************)
ModelParts == M!ToSet(M!Setup_Path)
StreamParts == M!ToSet(M!createImgProvider)
StartTypes ==
  /\ bundle \in Bundle /\ selected \in Seq(Label) /\ posts \in 0 .. MaxPosts
  /\ g_selection_valid \in BOOLEAN
  /\ main \in {"validate", "model", "reject", "selection", "video", "blind", "running",
               "crashed", "stop", "cleanup", "ended"}
  /\ held \subseteq ModelParts \cup StreamParts
  /\ g_config # <<>> => g_config = <<[classes |-> bundle.classes, labels |-> bundle.labels]>>

\* The fetch thread is the last to be there.
StartHeld ==
  /\ main \in {"validate", "ended"} => held = {}
  /\ main \in {"model", "reject", "cleanup"} => held \subseteq ModelParts
  /\ main \in {"validate", "model", "reject"} => g_config = <<>>
  /\ main \in {"video", "blind"} => g_config # <<>>
  /\ main \in {"selection", "video", "blind", "running", "stop"} =>
       IF g_config = <<>> THEN held = {} ELSE ModelParts \subseteq held
  /\ main = "selection" => held \cap StreamParts = {}
  /\ main = "video" => "fetcherThread" \notin held \/ StreamParts \subseteq held
  /\ main = "blind" => "fetcherThread" \notin held
  /\ main = "running" => StreamParts \subseteq held \/ held \cap StreamParts = {}

StartMeans ==
  /\ main = "model" \/ g_config # <<>> =>
       M!Validate_Labels(bundle.labels, bundle.classes)
  /\ main \in {"video", "blind", "running"} /\ g_selection_valid => M!Valid(selected)

StartInv == StartTypes /\ StartHeld /\ M!Grounded /\ StartMeans

\* What is in a list.
LEMMA NineOf ==
  ASSUME NEW s, DOMAIN s = 1 .. 9
  PROVE  M!ToSet(s) =
           {s[1], s[2], s[3], s[4], s[5], s[6], s[7], s[8], s[9]}
<1>1. DOMAIN s =
        {1, 2, 3, 4, 5, 6, 7, 8, 9}
  BY SMT
<1> QED
  BY <1>1 DEF M!ToSet

LEMMA TenOf ==
  ASSUME NEW s, DOMAIN s = 1 .. 10
  PROVE  M!ToSet(s) =
           {s[1], s[2], s[3], s[4], s[5], s[6], s[7], s[8], s[9], s[10]}
<1>1. DOMAIN s =
        {1, 2, 3, 4, 5, 6, 7, 8, 9, 10}
  BY SMT
<1> QED
  BY <1>1 DEF M!ToSet

LEMMA EighteenOf ==
  ASSUME NEW s, DOMAIN s = 1 .. 18
  PROVE  M!ToSet(s) =
           {s[1], s[2], s[3], s[4], s[5], s[6], s[7], s[8], s[9], s[10], s[11], s[12],
            s[13], s[14], s[15], s[16], s[17], s[18]}
<1>1. DOMAIN s =
        {1, 2, 3, 4, 5, 6, 7, 8, 9, 10, 11, 12, 13, 14, 15, 16, 17, 18}
  BY SMT
<1> QED
  BY <1>1 DEF M!ToSet

\* The orders of the lists.
LEMMA ModelPartsAre ==
  /\ DOMAIN M!Setup_Path = 1 .. 18
  /\ M!Setup_Path[1] = "connection" /\ M!Setup_Path[2] = "model_fd"
  /\ M!Setup_Path[3] = "model" /\ M!Setup_Path[4] = "inputs" /\ M!Setup_Path[5] = "outputs"
  /\ M!Setup_Path[6] = "labels" /\ M!Setup_Path[7] = "preprocess_map"
  /\ M!Setup_Path[8] = "preprocess_model" /\ M!Setup_Path[9] = "preprocess_inputs"
  /\ M!Setup_Path[10] = "preprocess_outputs" /\ M!Setup_Path[11] = "nv12_fd"
  /\ M!Setup_Path[12] = "nv12" /\ M!Setup_Path[13] = "rgb_fd" /\ M!Setup_Path[14] = "rgb"
  /\ M!Setup_Path[15] = "output_fd" /\ M!Setup_Path[16] = "output"
  /\ M!Setup_Path[17] = "preprocess_request" /\ M!Setup_Path[18] = "inference_request"
  /\ ModelParts =
       {"connection", "model_fd", "model", "inputs", "outputs", "labels", "preprocess_map",
        "preprocess_model", "preprocess_inputs", "preprocess_outputs", "nv12_fd", "nv12",
        "rgb_fd", "rgb", "output_fd", "output", "preprocess_request", "inference_request"}
<1>1. DOMAIN M!Setup_Path = 1 .. 18
  BY DEF M!Setup_Path
<1>2. M!Setup_Path[1] = "connection" /\ M!Setup_Path[2] = "model_fd"
      /\ M!Setup_Path[3] = "model" /\ M!Setup_Path[4] = "inputs" /\ M!Setup_Path[5] = "outputs"
      /\ M!Setup_Path[6] = "labels" /\ M!Setup_Path[7] = "preprocess_map"
      /\ M!Setup_Path[8] = "preprocess_model" /\ M!Setup_Path[9] = "preprocess_inputs"
      /\ M!Setup_Path[10] = "preprocess_outputs" /\ M!Setup_Path[11] = "nv12_fd"
      /\ M!Setup_Path[12] = "nv12" /\ M!Setup_Path[13] = "rgb_fd" /\ M!Setup_Path[14] = "rgb"
      /\ M!Setup_Path[15] = "output_fd" /\ M!Setup_Path[16] = "output"
      /\ M!Setup_Path[17] = "preprocess_request" /\ M!Setup_Path[18] = "inference_request"
  BY <1>1 DEF M!Setup_Path
<1>3. M!ToSet(M!Setup_Path) =
        {M!Setup_Path[1], M!Setup_Path[2], M!Setup_Path[3], M!Setup_Path[4],
         M!Setup_Path[5], M!Setup_Path[6], M!Setup_Path[7], M!Setup_Path[8],
         M!Setup_Path[9], M!Setup_Path[10], M!Setup_Path[11], M!Setup_Path[12],
         M!Setup_Path[13], M!Setup_Path[14], M!Setup_Path[15], M!Setup_Path[16],
         M!Setup_Path[17], M!Setup_Path[18]}
  BY <1>1, EighteenOf
<1>4. M!ToSet(M!Setup_Path) =
        {"connection", "model_fd", "model", "inputs", "outputs", "labels", "preprocess_map",
         "preprocess_model", "preprocess_inputs", "preprocess_outputs", "nv12_fd", "nv12",
         "rgb_fd", "rgb", "output_fd", "output", "preprocess_request", "inference_request"}
  BY <1>2, <1>3
<1> QED
  BY <1>1, <1>2, <1>4 DEF ModelParts

LEMMA StreamPartsAre ==
  /\ DOMAIN M!createImgProvider = 1 .. 10
  /\ M!createImgProvider[1] = "provider" /\ M!createImgProvider[2] = "frameMutex"
  /\ M!createImgProvider[3] = "frameDeliverCond"
  /\ M!createImgProvider[4] = "deliveredFrames"
  /\ M!createImgProvider[5] = "processedFrames" /\ M!createImgProvider[6] = "vdoStream"
  /\ M!createImgProvider[7] = "first_buffer" /\ M!createImgProvider[8] = "other_buffers"
  /\ M!createImgProvider[9] = "streaming" /\ M!createImgProvider[10] = "fetcherThread"
  /\ StreamParts =
       {"provider", "frameMutex", "frameDeliverCond", "deliveredFrames", "processedFrames",
        "vdoStream", "first_buffer", "other_buffers", "streaming", "fetcherThread"}
<1>1. DOMAIN M!createImgProvider = 1 .. 10
  BY DEF M!createImgProvider
<1>2. M!createImgProvider[1] = "provider" /\ M!createImgProvider[2] = "frameMutex"
      /\ M!createImgProvider[3] = "frameDeliverCond"
      /\ M!createImgProvider[4] = "deliveredFrames"
      /\ M!createImgProvider[5] = "processedFrames" /\ M!createImgProvider[6] = "vdoStream"
      /\ M!createImgProvider[7] = "first_buffer" /\ M!createImgProvider[8] = "other_buffers"
      /\ M!createImgProvider[9] = "streaming" /\ M!createImgProvider[10] = "fetcherThread"
  BY <1>1 DEF M!createImgProvider
<1>3. M!ToSet(M!createImgProvider) =
        {M!createImgProvider[1], M!createImgProvider[2], M!createImgProvider[3],
         M!createImgProvider[4], M!createImgProvider[5], M!createImgProvider[6],
         M!createImgProvider[7], M!createImgProvider[8], M!createImgProvider[9],
         M!createImgProvider[10]}
  BY <1>1, TenOf
<1>4. M!ToSet(M!createImgProvider) =
        {"provider", "frameMutex", "frameDeliverCond", "deliveredFrames", "processedFrames",
         "vdoStream", "first_buffer", "other_buffers", "streaming", "fetcherThread"}
  BY <1>2, <1>3
<1> QED
  BY <1>1, <1>2, <1>4 DEF StreamParts

LEMMA NeedsAre ==
  /\ \A r : M!Needs(r) # {} =>
       r \in {"model", "preprocess_model", "inputs", "outputs", "preprocess_inputs",
              "preprocess_outputs", "inference_request", "preprocess_request", "first_buffer",
              "other_buffers", "fetcherThread"}
  /\ \A r \in {"model", "preprocess_model", "inputs", "outputs", "preprocess_inputs",
               "preprocess_outputs"} : M!Needs(r) = {"connection"}
  /\ M!Needs("inference_request") = {"inputs", "outputs", "model"}
  /\ M!Needs("preprocess_request") =
       {"preprocess_inputs", "preprocess_outputs", "preprocess_model"}
  /\ M!Needs("first_buffer") = {"vdoStream"} /\ M!Needs("other_buffers") = {"vdoStream"}
  /\ M!Needs("fetcherThread") = StreamParts \ {"fetcherThread", "streaming"}
BY DEF M!Needs, StreamParts

\* What is acquired next has what it needs.
LEMMA ModelGrounded ==
  ASSUME NEW i \in 1 .. 18, \A j \in 1 .. i - 1 : M!Setup_Path[j] \in held
  PROVE  M!Needs(M!Setup_Path[i]) \subseteq held
<1>1. i \in {1, 2, 3, 4, 5, 6, 7, 8, 9, 10, 11, 12, 13, 14, 15, 16, 17, 18}
  OBVIOUS
<1>2. CASE i \in {3, 4, 5, 8, 9, 10}
  <2>1. M!Setup_Path[1] \in held
    BY <1>2
  <2>2. M!Setup_Path[i] \in {"model", "inputs", "outputs", "preprocess_model",
                             "preprocess_inputs", "preprocess_outputs"}
    BY <1>2, ModelPartsAre
  <2>3. M!Needs(M!Setup_Path[i]) = {M!Setup_Path[1]}
    <3>1. M!Setup_Path[1] = "connection"
      BY ModelPartsAre
    <3> QED
      BY <2>2, <3>1, NeedsAre
  <2> QED
    BY <2>1, <2>3
<1>3. CASE i = 17
  <2>1. M!Setup_Path[8] \in held /\ M!Setup_Path[9] \in held /\ M!Setup_Path[10] \in held
    BY <1>3
  <2>2. M!Needs(M!Setup_Path[17]) = {M!Setup_Path[9], M!Setup_Path[10], M!Setup_Path[8]}
    <3>1. M!Setup_Path[8] = "preprocess_model" /\ M!Setup_Path[9] = "preprocess_inputs"
          /\ M!Setup_Path[10] = "preprocess_outputs" /\ M!Setup_Path[17] = "preprocess_request"
      BY ModelPartsAre
    <3> QED
      BY <3>1, NeedsAre
  <2> QED
    BY <1>3, <2>1, <2>2
<1>4. CASE i = 18
  <2>1. M!Setup_Path[3] \in held /\ M!Setup_Path[4] \in held /\ M!Setup_Path[5] \in held
    BY <1>4
  <2>2. M!Needs(M!Setup_Path[18]) = {M!Setup_Path[4], M!Setup_Path[5], M!Setup_Path[3]}
    <3>1. M!Setup_Path[3] = "model" /\ M!Setup_Path[4] = "inputs"
          /\ M!Setup_Path[5] = "outputs" /\ M!Setup_Path[18] = "inference_request"
      BY ModelPartsAre
    <3> QED
      BY <3>1, NeedsAre
  <2> QED
    BY <1>4, <2>1, <2>2
<1>5. CASE i \in {1, 2, 6, 7, 11, 12, 13, 14, 15, 16}
  <2>1. M!Setup_Path[i] \in
          {"connection", "model_fd", "labels", "preprocess_map", "nv12_fd", "nv12", "rgb_fd",
           "rgb", "output_fd", "output"}
    BY <1>5, ModelPartsAre
  <2> QED
    BY <2>1, NeedsAre
<1> QED
  BY <1>1, <1>2, <1>3, <1>4, <1>5

LEMMA StreamGrounded ==
  ASSUME NEW i \in 1 .. 10, \A j \in 1 .. i - 1 : M!createImgProvider[j] \in held
  PROVE  /\ M!Needs(M!createImgProvider[i]) \subseteq held
         /\ M!createImgProvider[i] = "fetcherThread" =>
              StreamParts \subseteq held \cup {M!createImgProvider[i]}
<1>1. i \in {1, 2, 3, 4, 5, 6, 7, 8, 9, 10}
  OBVIOUS
<1>2. CASE i \in {7, 8}
  <2>1. M!createImgProvider[6] \in held
    BY <1>2
  <2>2. M!createImgProvider[i] \in {"first_buffer", "other_buffers"}
        /\ M!createImgProvider[6] = "vdoStream"
    BY <1>2, StreamPartsAre
  <2>3. M!Needs(M!createImgProvider[i]) = {"vdoStream"}
    BY <2>2, NeedsAre
  <2> QED
    BY <2>1, <2>2, <2>3
<1>3. CASE i = 10
  <2>1. \A j \in 1 .. 9 : M!createImgProvider[j] \in held
    BY <1>3
  <2>2. M!createImgProvider[10] = "fetcherThread"
    BY StreamPartsAre
  <2>3. M!Needs(M!createImgProvider[i]) \subseteq StreamParts \ {"fetcherThread"}
    BY <1>3, <2>2, NeedsAre
  <2>4. \A r \in StreamParts \ {"fetcherThread"} : r \in held
    <3>1. SUFFICES ASSUME NEW r \in StreamParts, r # "fetcherThread"
                   PROVE  r \in held
      OBVIOUS
    <3>2. PICK j \in 1 .. 10 : r = M!createImgProvider[j]
      BY <3>1, StreamPartsAre DEF StreamParts, M!ToSet
    <3>3. j # 10
      BY <2>2, <3>1, <3>2
    <3>4. j \in 1 .. 9
      BY <3>3
    <3> QED
      BY <2>1, <3>2, <3>4
  <2> QED
    BY <1>3, <2>2, <2>3, <2>4
<1>4. CASE i \in {1, 2, 3, 4, 5, 6, 9}
  <2>1. M!createImgProvider[i] \in
          {"provider", "frameMutex", "frameDeliverCond", "deliveredFrames", "processedFrames",
           "vdoStream", "streaming"}
    BY <1>4, StreamPartsAre
  <2> QED
    BY <2>1, NeedsAre
<1> QED
  BY <1>1, <1>2, <1>3, <1>4

LEMMA RuntimeIs ==
  /\ DOMAIN M!Release_Runtime = 1 .. 18
  /\ M!Release_Runtime[1] = "inference_request"
  /\ M!Release_Runtime[2] = "preprocess_request" /\ M!Release_Runtime[3] = "inputs"
  /\ M!Release_Runtime[4] = "outputs" /\ M!Release_Runtime[5] = "preprocess_inputs"
  /\ M!Release_Runtime[6] = "preprocess_outputs" /\ M!Release_Runtime[7] = "preprocess_map"
  /\ M!Release_Runtime[8] = "preprocess_model" /\ M!Release_Runtime[9] = "model"
  /\ M!Release_Runtime[10] = "connection" /\ M!Release_Runtime[11] = "nv12"
  /\ M!Release_Runtime[12] = "rgb" /\ M!Release_Runtime[13] = "output"
  /\ M!Release_Runtime[14] = "nv12_fd" /\ M!Release_Runtime[15] = "rgb_fd"
  /\ M!Release_Runtime[16] = "output_fd" /\ M!Release_Runtime[17] = "model_fd"
  /\ M!Release_Runtime[18] = "labels"
  /\ M!ToSet(M!Release_Runtime) = ModelParts
<1>1. DOMAIN M!Release_Runtime = 1 .. 18
  BY DEF M!Release_Runtime
<1>2. M!Release_Runtime[1] = "inference_request"
      /\ M!Release_Runtime[2] = "preprocess_request" /\ M!Release_Runtime[3] = "inputs"
      /\ M!Release_Runtime[4] = "outputs" /\ M!Release_Runtime[5] = "preprocess_inputs"
      /\ M!Release_Runtime[6] = "preprocess_outputs" /\ M!Release_Runtime[7] = "preprocess_map"
      /\ M!Release_Runtime[8] = "preprocess_model" /\ M!Release_Runtime[9] = "model"
      /\ M!Release_Runtime[10] = "connection" /\ M!Release_Runtime[11] = "nv12"
      /\ M!Release_Runtime[12] = "rgb" /\ M!Release_Runtime[13] = "output"
      /\ M!Release_Runtime[14] = "nv12_fd" /\ M!Release_Runtime[15] = "rgb_fd"
      /\ M!Release_Runtime[16] = "output_fd" /\ M!Release_Runtime[17] = "model_fd"
      /\ M!Release_Runtime[18] = "labels"
  BY <1>1 DEF M!Release_Runtime
<1>3. M!ToSet(M!Release_Runtime) =
        {M!Release_Runtime[1], M!Release_Runtime[2], M!Release_Runtime[3],
         M!Release_Runtime[4], M!Release_Runtime[5], M!Release_Runtime[6],
         M!Release_Runtime[7], M!Release_Runtime[8], M!Release_Runtime[9],
         M!Release_Runtime[10], M!Release_Runtime[11], M!Release_Runtime[12],
         M!Release_Runtime[13], M!Release_Runtime[14], M!Release_Runtime[15],
         M!Release_Runtime[16], M!Release_Runtime[17], M!Release_Runtime[18]}
  BY <1>1, EighteenOf
<1>4. M!ToSet(M!Release_Runtime) =
        {"inference_request", "preprocess_request", "inputs", "outputs",
         "preprocess_inputs", "preprocess_outputs", "preprocess_map", "preprocess_model",
         "model", "connection", "nv12", "rgb", "output", "nv12_fd", "rgb_fd", "output_fd",
         "model_fd", "labels"}
  BY <1>2, <1>3
<1> QED
  BY <1>1, <1>2, <1>4, ModelPartsAre

LEMMA DestroyedAre ==
  /\ DOMAIN M!destroyImgProvider = 1 .. 9
  /\ M!destroyImgProvider[1] = "first_buffer" /\ M!destroyImgProvider[2] = "other_buffers"
  /\ M!destroyImgProvider[3] = "streaming" /\ M!destroyImgProvider[4] = "vdoStream"
  /\ M!destroyImgProvider[5] = "frameMutex" /\ M!destroyImgProvider[6] = "frameDeliverCond"
  /\ M!destroyImgProvider[7] = "deliveredFrames"
  /\ M!destroyImgProvider[8] = "processedFrames" /\ M!destroyImgProvider[9] = "provider"
  /\ M!ToSet(M!destroyImgProvider) = StreamParts \ {"fetcherThread"}
<1>1. DOMAIN M!destroyImgProvider = 1 .. 9
  BY DEF M!destroyImgProvider
<1>2. M!destroyImgProvider[1] = "first_buffer" /\ M!destroyImgProvider[2] = "other_buffers"
      /\ M!destroyImgProvider[3] = "streaming" /\ M!destroyImgProvider[4] = "vdoStream"
      /\ M!destroyImgProvider[5] = "frameMutex" /\ M!destroyImgProvider[6] = "frameDeliverCond"
      /\ M!destroyImgProvider[7] = "deliveredFrames"
      /\ M!destroyImgProvider[8] = "processedFrames" /\ M!destroyImgProvider[9] = "provider"
  BY <1>1 DEF M!destroyImgProvider
<1>3. M!ToSet(M!destroyImgProvider) =
        {M!destroyImgProvider[1], M!destroyImgProvider[2], M!destroyImgProvider[3],
         M!destroyImgProvider[4], M!destroyImgProvider[5], M!destroyImgProvider[6],
         M!destroyImgProvider[7], M!destroyImgProvider[8], M!destroyImgProvider[9]}
  BY <1>1, NineOf
<1>4. M!ToSet(M!destroyImgProvider) =
        {"first_buffer", "other_buffers", "streaming", "vdoStream", "frameMutex",
         "frameDeliverCond", "deliveredFrames", "processedFrames", "provider"}
  BY <1>2, <1>3
<1> QED
  BY <1>1, <1>2, <1>4, StreamPartsAre

LEMMA StoppedAre ==
  /\ DOMAIN M!Video_Stop_YUV = 1 .. 10
  /\ M!Video_Stop_YUV[1] = "streaming" /\ M!Video_Stop_YUV[2] = "fetcherThread"
  /\ M!Video_Stop_YUV[3] = "first_buffer" /\ M!Video_Stop_YUV[4] = "other_buffers"
  /\ M!Video_Stop_YUV[5] = "vdoStream" /\ M!Video_Stop_YUV[6] = "frameMutex"
  /\ M!Video_Stop_YUV[7] = "frameDeliverCond" /\ M!Video_Stop_YUV[8] = "deliveredFrames"
  /\ M!Video_Stop_YUV[9] = "processedFrames" /\ M!Video_Stop_YUV[10] = "provider"
  /\ M!ToSet(M!Video_Stop_YUV) = StreamParts
<1>1. DOMAIN M!Video_Stop_YUV = 1 .. 10
  BY DEF M!Video_Stop_YUV
<1>2. M!Video_Stop_YUV[1] = "streaming" /\ M!Video_Stop_YUV[2] = "fetcherThread"
      /\ M!Video_Stop_YUV[3] = "first_buffer" /\ M!Video_Stop_YUV[4] = "other_buffers"
      /\ M!Video_Stop_YUV[5] = "vdoStream" /\ M!Video_Stop_YUV[6] = "frameMutex"
      /\ M!Video_Stop_YUV[7] = "frameDeliverCond" /\ M!Video_Stop_YUV[8] = "deliveredFrames"
      /\ M!Video_Stop_YUV[9] = "processedFrames" /\ M!Video_Stop_YUV[10] = "provider"
  BY <1>1 DEF M!Video_Stop_YUV
<1>3. M!ToSet(M!Video_Stop_YUV) =
        {M!Video_Stop_YUV[1], M!Video_Stop_YUV[2], M!Video_Stop_YUV[3], M!Video_Stop_YUV[4],
         M!Video_Stop_YUV[5], M!Video_Stop_YUV[6], M!Video_Stop_YUV[7], M!Video_Stop_YUV[8],
         M!Video_Stop_YUV[9], M!Video_Stop_YUV[10]}
  BY <1>1, TenOf
<1>4. M!ToSet(M!Video_Stop_YUV) =
        {"streaming", "fetcherThread", "first_buffer", "other_buffers", "vdoStream",
         "frameMutex", "frameDeliverCond", "deliveredFrames", "processedFrames", "provider"}
  BY <1>2, <1>3
<1> QED
  BY <1>1, <1>2, <1>4, StreamPartsAre

\* Who needs what.
LEMMA NeededBy ==
  ASSUME NEW r, NEW x \in M!Needs(r)
  PROVE  \/ x = "connection" /\ r \in {"model", "preprocess_model", "inputs", "outputs",
                                       "preprocess_inputs", "preprocess_outputs"}
         \/ x \in {"inputs", "outputs", "model"} /\ r = "inference_request"
         \/ x \in {"preprocess_inputs", "preprocess_outputs", "preprocess_model"}
            /\ r = "preprocess_request"
         \/ x = "vdoStream" /\ r \in {"first_buffer", "other_buffers"}
         \/ x \in StreamParts \ {"fetcherThread", "streaming"} /\ r = "fetcherThread"
BY NeedsAre

\* What is released next is needed by nothing that is still held.
LEMMA RuntimeGrounded ==
  ASSUME NEW i \in 1 .. 18, held \subseteq ModelParts, M!First(M!Release_Runtime, i),
         NEW r \in held
  PROVE  M!Release_Runtime[i] \notin M!Needs(r)
<1> DEFINE x == M!Release_Runtime[i]
<1>1. SUFFICES ASSUME x \in M!Needs(r)
               PROVE  FALSE
  OBVIOUS
<1>2. \A j \in 1 .. i - 1 : M!Release_Runtime[j] \notin held
  BY DEF M!First
<1>3. i \in {1, 2, 3, 4, 5, 6, 7, 8, 9, 10, 11, 12, 13, 14, 15, 16, 17, 18}
  OBVIOUS
<1>4. CASE i = 10
  <2>1. \A j \in {3, 4, 5, 6, 8, 9} : M!Release_Runtime[j] \notin held
    BY <1>2, <1>4
  <2>2. x = "connection" /\ M!Release_Runtime[3] = "inputs"
        /\ M!Release_Runtime[4] = "outputs" /\ M!Release_Runtime[5] = "preprocess_inputs"
        /\ M!Release_Runtime[6] = "preprocess_outputs"
        /\ M!Release_Runtime[8] = "preprocess_model" /\ M!Release_Runtime[9] = "model"
    BY <1>4, RuntimeIs
  <2>3. r \in {"model", "preprocess_model", "inputs", "outputs", "preprocess_inputs",
               "preprocess_outputs"}
    BY <1>1, <2>2, NeededBy, StreamPartsAre
  <2> QED
    BY <2>1, <2>2, <2>3
<1>5. CASE i \in {3, 4, 9}
  <2>1. M!Release_Runtime[1] \notin held
    BY <1>2, <1>5
  <2>2. x \in {"inputs", "outputs", "model"} /\ M!Release_Runtime[1] = "inference_request"
    BY <1>5, RuntimeIs
  <2>3. r = "inference_request"
    BY <1>1, <2>2, NeededBy, StreamPartsAre
  <2> QED
    BY <2>1, <2>2, <2>3
<1>6. CASE i \in {5, 6, 8}
  <2>1. M!Release_Runtime[2] \notin held
    BY <1>2, <1>6
  <2>2. x \in {"preprocess_inputs", "preprocess_outputs", "preprocess_model"}
        /\ M!Release_Runtime[2] = "preprocess_request"
    BY <1>6, RuntimeIs
  <2>3. r = "preprocess_request"
    BY <1>1, <2>2, NeededBy, StreamPartsAre
  <2> QED
    BY <2>1, <2>2, <2>3
<1>7. CASE i \in {1, 2, 7, 11, 12, 13, 14, 15, 16, 17, 18}
  <2>1. x \in {"inference_request", "preprocess_request", "preprocess_map", "nv12", "rgb",
               "output", "nv12_fd", "rgb_fd", "output_fd", "model_fd", "labels"}
    BY <1>7, RuntimeIs
  <2> QED
    BY <1>1, <2>1, NeededBy, StreamPartsAre
<1> QED
  BY <1>3, <1>4, <1>5, <1>6, <1>7

LEMMA DestroyedGrounded ==
  ASSUME NEW i \in 1 .. 9, "fetcherThread" \notin held, M!First(M!destroyImgProvider, i),
         NEW r \in held
  PROVE  M!destroyImgProvider[i] \notin M!Needs(r)
<1> DEFINE x == M!destroyImgProvider[i]
<1>1. SUFFICES ASSUME x \in M!Needs(r)
               PROVE  FALSE
  OBVIOUS
<1>2. x \in StreamParts /\ r # "fetcherThread"
  BY DestroyedAre DEF M!ToSet
<1>3. x = "vdoStream" /\ r \in {"first_buffer", "other_buffers"}
  BY <1>1, <1>2, NeededBy, StreamPartsAre
<1>4. i \in {1, 2, 3, 4, 5, 6, 7, 8, 9}
  OBVIOUS
<1>5. i = 4
  BY <1>3, <1>4, DestroyedAre
<1>6. M!destroyImgProvider[1] \notin held /\ M!destroyImgProvider[2] \notin held
  BY <1>5 DEF M!First
<1> QED
  BY <1>3, <1>6, DestroyedAre

LEMMA StoppedGrounded ==
  ASSUME NEW i \in 1 .. 10, M!First(M!Video_Stop_YUV, i), NEW r \in held
  PROVE  M!Video_Stop_YUV[i] \notin M!Needs(r)
<1> DEFINE x == M!Video_Stop_YUV[i]
<1>1. SUFFICES ASSUME x \in M!Needs(r)
               PROVE  FALSE
  OBVIOUS
<1>2. \A j \in 1 .. i - 1 : M!Video_Stop_YUV[j] \notin held
  BY DEF M!First
<1>3. x \in StreamParts
  BY StoppedAre DEF M!ToSet
<1>4. \/ x = "vdoStream" /\ r \in {"first_buffer", "other_buffers"}
      \/ x \notin {"streaming", "fetcherThread"} /\ r = "fetcherThread"
  BY <1>1, <1>3, NeededBy, StreamPartsAre
<1>5. i \in {1, 2, 3, 4, 5, 6, 7, 8, 9, 10}
  OBVIOUS
<1>6. i \notin {1, 2}
  BY <1>4, StoppedAre
<1>7. CASE r = "fetcherThread"
  <2>1. M!Video_Stop_YUV[2] \notin held
    BY <1>2, <1>5, <1>6
  <2> QED
    BY <1>7, <2>1, StoppedAre
<1>8. CASE x = "vdoStream" /\ r \in {"first_buffer", "other_buffers"}
  <2>1. i = 5
    BY <1>5, <1>8, StoppedAre
  <2>2. M!Video_Stop_YUV[3] \notin held /\ M!Video_Stop_YUV[4] \notin held
    BY <1>2, <2>1
  <2> QED
    BY <1>8, <2>2, StoppedAre
<1> QED
  BY <1>4, <1>7, <1>8

LEMMA ReleaseGrounded ==
  ASSUME M!Grounded, NEW x, \A r \in held : x \notin M!Needs(r), held' = held \ {x}
  PROVE  M!Grounded'
BY DEF M!Grounded

LEMMA PartsApart ==
  ModelParts \cap StreamParts = {}
BY ModelPartsAre, StreamPartsAre

LEMMA StartHolds ==
  ASSUME M!ConstantsAssumption, StartInv
  PROVE  M!TypeOK /\ M!Grounded /\ M!AllOrNothing /\ M!Meant
<1>1. M!TypeOK
  BY DEF StartInv, StartTypes, M!TypeOK, ModelParts, StreamParts
<1>2. M!AllOrNothing
  <2>1. main = "ended" => held = {}
    BY DEF StartInv, StartHeld
  <2>2. ASSUME main \in {"selection", "running"}
        PROVE  /\ ModelParts \subseteq held \/ held \cap ModelParts = {}
               /\ StreamParts \subseteq held \/ held \cap StreamParts = {}
    BY <2>2 DEF StartInv, StartHeld
  <2>3. main = "running" /\ g_config = <<>> => held = {}
    BY DEF StartInv, StartHeld
  <2> QED
    BY <2>1, <2>2, <2>3 DEF M!AllOrNothing, M!Complete, ModelParts, StreamParts
<1>3. M!Meant
  <2>1. ASSUME g_config # <<>>
        PROVE  /\ Len(g_config[1].labels) = g_config[1].classes
               /\ M!IsInjective(g_config[1].labels)
    <3>1. g_config[1] = [classes |-> bundle.classes, labels |-> bundle.labels]
      BY <2>1 DEF StartInv, StartTypes
    <3> QED
      BY <2>1, <3>1 DEF StartInv, StartMeans, M!Validate_Labels
  <2>2. ASSUME main = "running", g_selection_valid
        PROVE  M!Complete(M!Setup_Path)
               /\ M!ToSet(selected) \subseteq M!ToSet(g_config[1].labels)
    <3>1. M!Valid(selected) /\ selected \in Seq(Label)
      BY <2>2 DEF StartInv, StartMeans, StartTypes
    <3>2. DOMAIN selected = 1 .. Len(selected) /\ 1 \in DOMAIN selected
      BY <3>1 DEF M!Valid
    <3>3. g_config # <<>> /\ \A i \in DOMAIN selected : selected[i] \in M!ToSet(g_config[1].labels)
      BY <3>1, <3>2 DEF M!Valid
    <3>4. ModelParts \subseteq held
      BY <2>2, <3>3 DEF StartInv, StartHeld
    <3> QED
      BY <3>3, <3>4 DEF M!Complete, ModelParts, M!ToSet
  <2> QED
    BY <2>1, <2>2 DEF M!Meant
<1> QED
  BY <1>1, <1>2, <1>3 DEF StartInv

LEMMA StartStarts ==
  ASSUME M!ConstantsAssumption, M!Init
  PROVE  StartInv
<1>1. selected \in Seq(Label)
  <2>1. PICK f \in DetectxFile : selected = M!Migrated(f)
    BY DEF M!Init
  <2>2. f.selected \in Seq(Label)
    BY DEF M!ConstantsAssumption
  <2> QED
    BY <2>1, <2>2 DEF M!Migrated
<1>2. StartTypes
  <2>1. 0 \in 0 .. MaxPosts
    BY DEF M!ConstantsAssumption
  <2>2. bundle \in Bundle /\ main = "validate" /\ held = {} /\ g_config = <<>>
        /\ g_selection_valid = FALSE /\ posts = 0
    BY DEF M!Init
  <2> QED
    BY <1>1, <2>1, <2>2 DEF StartTypes
<1>3. StartHeld /\ M!Grounded
  BY DEF M!Init, StartHeld, M!Grounded
<1>4. StartMeans
  BY DEF M!Init, StartMeans
<1> QED
  BY <1>2, <1>3, <1>4 DEF StartInv

LEMMA StartValidates ==
  ASSUME StartInv, M!Validate_Files
  PROVE  StartInv'
<1>1. held = {} /\ g_config = <<>> /\ UNCHANGED <<held, g_config, bundle>>
      /\ main' \in {"model", "reject"}
      /\ (main' = "model" => M!Validate_Labels(bundle.labels, bundle.classes))
  BY DEF M!Validate_Files, StartInv, StartHeld, M!Fixed
<1>2. StartTypes'
  BY <1>1 DEF M!Validate_Files, StartInv, StartTypes, M!Fixed
<1>3. StartHeld' /\ M!Grounded'
  BY <1>1 DEF StartHeld, M!Grounded
<1>4. StartMeans'
  BY <1>1 DEF StartMeans
<1> QED
  BY <1>2, <1>3, <1>4 DEF StartInv

\* One more part, that has what it needs.
LEMMA AcquiredGrounded ==
  ASSUME M!Grounded, NEW x, M!Needs(x) \subseteq held, held' = held \cup {x}
  PROVE  M!Grounded'
BY DEF M!Grounded

LEMMA StartAcquires ==
  ASSUME StartInv, M!Model_Setup
  PROVE  StartInv'
<1>1. main = "model" /\ held \subseteq ModelParts /\ g_config = <<>>
      /\ M!Validate_Labels(bundle.labels, bundle.classes)
      /\ UNCHANGED <<bundle, platform, g_config, selected, g_selection_valid, posts>>
  BY DEF StartInv, StartHeld, StartMeans, M!Model_Setup, M!Fixed
<1>2. CASE main' = "reject" /\ UNCHANGED held
  BY <1>1, <1>2 DEF StartInv, StartTypes, StartHeld, StartMeans, M!Grounded
<1>3. ASSUME NEW i \in DOMAIN M!Setup_Path, M!Following(M!Setup_Path, i),
             held' = held \cup {M!Setup_Path[i]}, UNCHANGED main
      PROVE  StartInv'
  <2>1. i \in 1 .. 18 /\ M!Setup_Path[i] \in ModelParts
    BY <1>3, ModelPartsAre DEF ModelParts, M!ToSet
  <2>2. M!Needs(M!Setup_Path[i]) \subseteq held
    BY <1>3, <2>1, ModelGrounded DEF M!Following
  <2>3. M!Grounded'
    BY <1>3, <2>2, AcquiredGrounded DEF StartInv
  <2>4. held' \subseteq ModelParts
    BY <1>1, <1>3, <2>1
  <2> QED
    BY <1>1, <1>3, <2>3, <2>4 DEF StartInv, StartTypes, StartHeld, StartMeans
<1> QED
  BY <1>2, <1>3 DEF M!Model_Setup, M!Acquire

LEMMA StartRuns ==
  ASSUME StartInv, M!Model_Running
  PROVE  StartInv'
<1>1. main = "model" /\ held \subseteq ModelParts /\ ModelParts \subseteq held
      /\ M!Validate_Labels(bundle.labels, bundle.classes)
      /\ g_config' = <<[classes |-> bundle.classes, labels |-> bundle.labels]>>
      /\ main' = "selection"
      /\ UNCHANGED <<bundle, platform, held, selected, g_selection_valid, posts>>
  BY DEF StartInv, StartHeld, StartMeans, M!Model_Running, M!Complete, ModelParts, M!Fixed
<1>2. StartTypes'
  BY <1>1 DEF StartInv, StartTypes
<1>3. StartHeld'
  <2>1. held \cap StreamParts = {}
    BY <1>1, PartsApart
  <2>2. g_config' # <<>>
    BY <1>1
  <2> QED
    BY <1>1, <2>1, <2>2 DEF StartHeld
<1> QED
  BY <1>1, <1>2, <1>3 DEF StartInv, StartMeans, M!Grounded

LEMMA StartRejected ==
  ASSUME StartInv, M!Model_Rejected
  PROVE  StartInv'
<1>1. main = "reject" /\ held \subseteq ModelParts /\ g_config = <<>>
      /\ UNCHANGED <<bundle, platform, g_config, selected, g_selection_valid, posts>>
  BY DEF StartInv, StartHeld, M!Model_Rejected, M!Released, M!Fixed
<1>2. CASE ModelParts \cap held = {} /\ main' = "selection" /\ UNCHANGED held
  BY <1>1, <1>2 DEF StartInv, StartTypes, StartHeld, StartMeans, M!Grounded
<1>3. ASSUME NEW i \in 1 .. 18, M!First(M!Release_Runtime, i),
             held' = held \ {M!Release_Runtime[i]}, UNCHANGED main
      PROVE  StartInv'
  <2>1. M!Grounded'
    BY <1>1, <1>3, RuntimeGrounded, ReleaseGrounded DEF StartInv
  <2> QED
    BY <1>1, <1>3, <2>1 DEF StartInv, StartTypes, StartHeld, StartMeans
<1> QED
  BY <1>2, <1>3, RuntimeIs DEF M!Model_Rejected, M!Released

LEMMA StartSelects ==
  ASSUME StartInv, M!Configure_Occupancy
  PROVE  StartInv'
<1>1. main = "selection" /\ g_selection_valid' = M!Valid(selected)
      /\ main' = (IF g_config = <<>> THEN "running" ELSE "video")
      /\ UNCHANGED <<bundle, platform, held, g_config, selected, posts>>
      /\ held \cap StreamParts = {}
  BY DEF StartInv, StartHeld, M!Configure_Occupancy, M!Fixed
<1>2. M!Valid(selected) \in BOOLEAN /\ M!Valid(selected)' = M!Valid(selected)
  BY <1>1 DEF M!Valid
<1>3. StartTypes'
  BY <1>1, <1>2 DEF StartInv, StartTypes
<1>4. StartHeld'
  <2>1. "fetcherThread" \in StreamParts
    BY StreamPartsAre
  <2> QED
    BY <1>1, <2>1 DEF StartInv, StartHeld
<1>5. StartMeans'
  BY <1>1, <1>2 DEF StartInv, StartMeans
<1> QED
  BY <1>1, <1>3, <1>4, <1>5 DEF StartInv, M!Grounded

LEMMA StartPosted ==
  ASSUME M!ConstantsAssumption, StartInv, NEW f \in DetectxFile,
         M!Settings_Updated(f.selected)
  PROVE  StartInv'
<1>1. main = "running" /\ selected' = f.selected /\ g_selection_valid' = M!Valid(f.selected)
      /\ posts' = posts + 1 /\ posts < MaxPosts
      /\ UNCHANGED <<bundle, platform, main, held, g_config>>
  BY DEF M!Settings_Updated, M!Fixed
<1>2. M!Valid(f.selected) \in BOOLEAN /\ M!Valid(selected)' = M!Valid(f.selected)
  BY <1>1 DEF M!Valid
<1>3. f.selected \in Seq(Label) /\ MaxPosts \in Nat
  BY DEF M!ConstantsAssumption
<1>4. StartTypes'
  BY <1>1, <1>2, <1>3 DEF StartInv, StartTypes
<1>5. StartHeld'
  BY <1>1 DEF StartInv, StartHeld
<1>6. StartMeans'
  BY <1>1, <1>2 DEF StartInv, StartMeans
<1> QED
  BY <1>1, <1>4, <1>5, <1>6 DEF StartInv, M!Grounded

LEMMA StartMeansStays ==
  ASSUME StartMeans, UNCHANGED <<bundle, g_config, selected, g_selection_valid>>,
         main' = "model" => main = "model",
         main' \in {"video", "blind", "running"} => main \in {"video", "blind", "running"}
  PROVE  StartMeans'
BY DEF StartMeans, M!Valid

LEMMA StreamStarts ==
  ASSUME StartInv, M!Video_Start_YUV
  PROVE  StartInv'
<1>1. main = "video" /\ g_config # <<>> /\ ModelParts \subseteq held
      /\ ("fetcherThread" \notin held \/ StreamParts \subseteq held)
      /\ UNCHANGED <<bundle, platform, g_config, selected, g_selection_valid, posts>>
  BY DEF StartInv, StartHeld, M!Video_Start_YUV, M!Fixed
<1>2. ASSUME ~M!Complete(M!createImgProvider), main' \in {"blind", "crashed"}, UNCHANGED held
      PROVE  StartInv'
  <2>1. "fetcherThread" \notin held
    BY <1>1, <1>2 DEF M!Complete, StreamParts
  <2>2. StartTypes' /\ StartHeld' /\ M!Grounded'
    BY <1>1, <1>2, <2>1 DEF StartInv, StartTypes, StartHeld, M!Grounded
  <2>3. StartMeans'
    BY <1>1, <1>2, StartMeansStays DEF StartInv
  <2> QED
    BY <2>2, <2>3 DEF StartInv
<1>3. ASSUME M!Complete(M!createImgProvider), main' = "running", UNCHANGED held
      PROVE  StartInv'
  <2>1. StreamParts \subseteq held
    BY <1>3 DEF M!Complete, StreamParts
  <2>2. StartTypes' /\ StartHeld' /\ M!Grounded'
    BY <1>1, <1>3, <2>1 DEF StartInv, StartTypes, StartHeld, M!Grounded
  <2>3. StartMeans'
    BY <1>1, <1>3, StartMeansStays DEF StartInv
  <2> QED
    BY <2>2, <2>3 DEF StartInv
<1>4. ASSUME NEW i \in DOMAIN M!createImgProvider, M!Following(M!createImgProvider, i),
             held' = held \cup {M!createImgProvider[i]}, UNCHANGED main
      PROVE  StartInv'
  <2>1. i \in 1 .. 10 /\ M!createImgProvider[i] \in StreamParts
    BY <1>4, StreamPartsAre DEF StreamParts, M!ToSet
  <2>2. M!Needs(M!createImgProvider[i]) \subseteq held
        /\ (M!createImgProvider[i] = "fetcherThread" => StreamParts \subseteq held')
    BY <1>4, <2>1, StreamGrounded DEF M!Following
  <2>3. M!Grounded'
    BY <1>4, <2>2, AcquiredGrounded DEF StartInv
  <2>4. "fetcherThread" \notin held' \/ StreamParts \subseteq held'
    BY <1>1, <1>4, <2>2
  <2>5. StartTypes'
    BY <1>1, <1>4, <2>1 DEF StartInv, StartTypes
  <2>6. StartHeld'
    BY <1>1, <1>4, <2>4 DEF StartHeld
  <2>7. StartMeans'
    BY <1>1, <1>4, StartMeansStays DEF StartInv
  <2> QED
    BY <2>3, <2>5, <2>6, <2>7 DEF StartInv
<1>5. M!Acquire(M!createImgProvider, IF "provider" \in held THEN "blind" ELSE "crashed")
      \/ (M!Complete(M!createImgProvider) /\ main' = "running" /\ UNCHANGED held)
  BY DEF M!Video_Start_YUV
<1> QED
  BY <1>2, <1>3, <1>4, <1>5 DEF M!Acquire

LEMMA StreamFailed ==
  ASSUME StartInv, M!Video_Failed
  PROVE  StartInv'
<1>1. main = "blind" /\ g_config # <<>> /\ ModelParts \subseteq held
      /\ "fetcherThread" \notin held
      /\ UNCHANGED <<bundle, platform, g_config, selected, g_selection_valid, posts>>
  BY DEF StartInv, StartHeld, M!Video_Failed, M!Released, M!Fixed
<1>2. ASSUME M!ToSet(M!destroyImgProvider) \cap held = {}, main' = "running", UNCHANGED held
      PROVE  StartInv'
  <2>1. held \cap StreamParts = {}
    BY <1>1, <1>2, DestroyedAre
  <2>2. StartTypes' /\ StartHeld' /\ M!Grounded'
    BY <1>1, <1>2, <2>1 DEF StartInv, StartTypes, StartHeld, M!Grounded
  <2>3. StartMeans'
    BY <1>1, <1>2, StartMeansStays DEF StartInv
  <2> QED
    BY <2>2, <2>3 DEF StartInv
<1>3. ASSUME NEW i \in 1 .. 9, M!First(M!destroyImgProvider, i),
             held' = held \ {M!destroyImgProvider[i]}, UNCHANGED main
      PROVE  StartInv'
  <2>1. M!Grounded'
    BY <1>1, <1>3, DestroyedGrounded, ReleaseGrounded DEF StartInv
  <2>2. M!destroyImgProvider[i] \in StreamParts
    BY DestroyedAre DEF M!ToSet
  <2>3. ModelParts \subseteq held'
    BY <1>1, <1>3, <2>2, PartsApart
  <2>4. StartTypes' /\ StartHeld'
    BY <1>1, <1>3, <2>3 DEF StartInv, StartTypes, StartHeld
  <2>5. StartMeans'
    BY <1>1, <1>3, StartMeansStays DEF StartInv
  <2> QED
    BY <2>1, <2>4, <2>5 DEF StartInv
<1> QED
  BY <1>2, <1>3, DestroyedAre DEF M!Video_Failed, M!Released

LEMMA StartStops ==
  ASSUME StartInv, M!Signal_Handler
  PROVE  StartInv'
BY DEF M!Signal_Handler, M!Fixed, StartInv, StartTypes, StartHeld, StartMeans, M!Grounded

LEMMA StreamStopped ==
  ASSUME StartInv, M!Video_Stopped
  PROVE  StartInv'
<1>1. main = "stop" /\ (IF g_config = <<>> THEN held = {} ELSE ModelParts \subseteq held)
      /\ held \subseteq ModelParts \cup StreamParts
      /\ UNCHANGED <<bundle, platform, g_config, selected, g_selection_valid, posts>>
  BY DEF StartInv, StartTypes, StartHeld, M!Video_Stopped, M!Released, M!Fixed
<1>2. ASSUME M!ToSet(M!Video_Stop_YUV) \cap held = {}, main' = "cleanup", UNCHANGED held
      PROVE  StartInv'
  <2>1. held \subseteq ModelParts
    BY <1>1, <1>2, StoppedAre
  <2> QED
    BY <1>1, <1>2, <2>1 DEF StartInv, StartTypes, StartHeld, StartMeans, M!Grounded
<1>3. ASSUME NEW i \in 1 .. 10, M!First(M!Video_Stop_YUV, i),
             held' = held \ {M!Video_Stop_YUV[i]}, UNCHANGED main
      PROVE  StartInv'
  <2>1. M!Grounded'
    BY <1>3, StoppedGrounded, ReleaseGrounded DEF StartInv
  <2>2. M!Video_Stop_YUV[i] \in StreamParts
    BY StoppedAre DEF M!ToSet
  <2>3. IF g_config = <<>> THEN held' = {} ELSE ModelParts \subseteq held'
    BY <1>1, <1>3, <2>2, PartsApart
  <2> QED
    BY <1>1, <1>3, <2>1, <2>3 DEF StartInv, StartTypes, StartHeld, StartMeans
<1> QED
  BY <1>2, <1>3, StoppedAre DEF M!Video_Stopped, M!Released

LEMMA StartEnds ==
  ASSUME StartInv, M!Model_Cleanup
  PROVE  StartInv'
<1>1. main = "cleanup" /\ held \subseteq ModelParts
      /\ g_config' = (IF main' = "ended" THEN <<>> ELSE g_config)
      /\ UNCHANGED <<bundle, platform, selected, g_selection_valid, posts>>
  BY DEF StartInv, StartHeld, M!Model_Cleanup, M!Released, M!Fixed
<1>2. CASE ModelParts \cap held = {} /\ main' = "ended" /\ UNCHANGED held
  BY <1>1, <1>2 DEF StartInv, StartTypes, StartHeld, StartMeans, M!Grounded
<1>3. ASSUME NEW i \in 1 .. 18, M!First(M!Release_Runtime, i),
             held' = held \ {M!Release_Runtime[i]}, UNCHANGED main
      PROVE  StartInv'
  <2>1. M!Grounded'
    BY <1>1, <1>3, RuntimeGrounded, ReleaseGrounded DEF StartInv
  <2>2. UNCHANGED g_config
    BY <1>1, <1>3
  <2> QED
    BY <1>1, <1>3, <2>1, <2>2 DEF StartInv, StartTypes, StartHeld, StartMeans
<1> QED
  BY <1>2, <1>3, RuntimeIs DEF M!Model_Cleanup, M!Released

LEMMA StartStep ==
  ASSUME M!ConstantsAssumption, StartInv, [M!Next]_(M!vars)
  PROVE  StartInv'
<1>1. CASE UNCHANGED M!vars
  BY <1>1 DEF M!vars, StartInv, StartTypes, StartHeld, StartMeans, M!Grounded, M!Valid
<1>2. ASSUME NEW labels \in {f.selected : f \in DetectxFile}, M!Settings_Updated(labels)
      PROVE  StartInv'
  BY <1>2, StartPosted
<1> QED
  BY <1>1, <1>2, StartValidates, StartAcquires, StartRuns, StartRejected, StartSelects,
     StreamStarts, StreamFailed, StartStops, StreamStopped, StartEnds DEF M!Next

\* detectx has all of what it needs or nothing of it, lets go of what others use only
\* after them, and its selection means labels of the model in use (Model.c:238-417,
\* imgprovider.c:98-187, main.c).
THEOREM StartSound ==
  ASSUME M!ConstantsAssumption
  PROVE  M!Spec => [](M!TypeOK /\ M!Grounded /\ M!AllOrNothing /\ M!Meant)
<1>1. M!Init => StartInv
  BY StartStarts
<1>2. StartInv /\ [M!Next]_(M!vars) => StartInv'
  BY StartStep
<1>3. StartInv => M!TypeOK /\ M!Grounded /\ M!AllOrNothing /\ M!Meant
  BY StartHolds
<1> QED
  BY <1>1, <1>2, <1>3, PTL DEF M!Spec

(***************************************************************************)
(* The frames of detectx.  First queues of buffers.                        *)
(***************************************************************************)
Queue(q) == q \in Seq(Buffer) /\ D!IsInjective(q)

LEMMA QueuePushed ==
  ASSUME NEW q, Queue(q), NEW b \in Buffer \ D!Queued(q)
  PROVE  /\ Queue(Append(q, b)) /\ Len(Append(q, b)) = Len(q) + 1
         /\ D!Queued(Append(q, b)) = D!Queued(q) \cup {b}
<1>1. q \in Seq(Buffer) /\ Len(q) \in Nat /\ DOMAIN q = 1 .. Len(q)
  BY LenProperties DEF Queue
<1>2. Append(q, b) \in Seq(Buffer) /\ Len(Append(q, b)) = Len(q) + 1
      /\ DOMAIN Append(q, b) = 1 .. Len(q) + 1
      /\ Append(q, b)[Len(q) + 1] = b
      /\ \A i \in 1 .. Len(q) : Append(q, b)[i] = q[i]
  BY <1>1
<1> DEFINE longer == Append(q, b)
<1> HIDE DEF longer
<1>3. \A i \in 1 .. Len(q) : longer[i] # b
  BY <1>1, <1>2 DEF D!Queued, longer
<1>4. ASSUME NEW i \in 1 .. Len(q) + 1, NEW j \in 1 .. Len(q) + 1, longer[i] = longer[j]
      PROVE  i = j
  <2>1. i \in 1 .. Len(q) \/ i = Len(q) + 1
    BY <1>1
  <2>2. j \in 1 .. Len(q) \/ j = Len(q) + 1
    BY <1>1
  <2> QED
    BY <1>1, <1>2, <1>3, <1>4, <2>1, <2>2 DEF Queue, D!IsInjective, longer
<1>5. D!Queued(longer) = D!Queued(q) \cup {b}
  <2>1. 1 .. Len(q) + 1 = (1 .. Len(q)) \cup {Len(q) + 1}
    BY <1>1
  <2> QED
    BY <1>1, <1>2, <2>1 DEF D!Queued, longer
<1> QED
  BY <1>2, <1>4, <1>5 DEF Queue, D!IsInjective, longer

LEMMA QueuePopped ==
  ASSUME NEW q, Queue(q), q # <<>>
  PROVE  /\ Queue(Tail(q)) /\ Len(Tail(q)) = Len(q) - 1 /\ Head(q) \in D!Queued(q)
         /\ D!Queued(Tail(q)) = D!Queued(q) \ {Head(q)}
<1>1. q \in Seq(Buffer) /\ Len(q) \in Nat \ {0} /\ DOMAIN q = 1 .. Len(q)
  BY LenProperties, EmptySeq DEF Queue
<1>2. Head(q) = q[1] /\ 1 \in 1 .. Len(q)
  BY <1>1
<1>3. Tail(q) \in Seq(Buffer) /\ Len(Tail(q)) = Len(q) - 1
      /\ \A i \in 1 .. Len(q) - 1 : Tail(q)[i] = q[i + 1]
  BY <1>1, HeadTailProperties
<1>4. DOMAIN Tail(q) = 1 .. Len(q) - 1
  BY <1>3, LenProperties
<1>5. D!IsInjective(Tail(q))
  BY <1>1, <1>3, <1>4 DEF Queue, D!IsInjective
<1>6. ASSUME NEW b
      PROVE  b \in D!Queued(Tail(q)) <=> b \in D!Queued(q) /\ b # q[1]
  <2>1. ASSUME NEW i \in 1 .. Len(q) - 1, b = q[i + 1]
        PROVE  b \in D!Queued(q) /\ b # q[1]
    <3>1. i + 1 \in 1 .. Len(q) /\ i + 1 # 1
      BY <1>1
    <3> QED
      BY <1>1, <1>2, <2>1, <3>1 DEF D!Queued, Queue, D!IsInjective
  <2>2. ASSUME NEW i \in 1 .. Len(q), b = q[i], b # q[1]
        PROVE  b \in D!Queued(Tail(q))
    <3>1. i - 1 \in 1 .. Len(q) - 1 /\ (i - 1) + 1 = i
      BY <1>1, <2>2
    <3>2. Tail(q)[i - 1] = b
      BY <1>3, <2>2, <3>1
    <3> QED
      BY <1>4, <3>1, <3>2 DEF D!Queued
  <2> QED
    BY <1>1, <1>3, <1>4, <2>1, <2>2 DEF D!Queued
<1> QED
  BY <1>1, <1>2, <1>3, <1>5, <1>6 DEF Queue, D!Queued

LEMMA QueueNewest ==
  ASSUME NEW q, Queue(q), q # <<>>
  PROVE  /\ Queue(D!Front(q)) /\ Len(D!Front(q)) = Len(q) - 1 /\ D!Last(q) \in D!Queued(q)
         /\ D!Queued(D!Front(q)) = D!Queued(q) \ {D!Last(q)}
<1>1. q \in Seq(Buffer) /\ Len(q) \in Nat \ {0} /\ DOMAIN q = 1 .. Len(q)
  BY LenProperties, EmptySeq DEF Queue
<1>2. D!Last(q) = q[Len(q)] /\ Len(q) \in 1 .. Len(q)
  BY <1>1 DEF D!Last
<1>3. D!Front(q) \in Seq(Buffer) /\ Len(D!Front(q)) = Len(q) - 1
      /\ \A i \in 1 .. Len(q) - 1 : D!Front(q)[i] = q[i]
  <2>1. \A i \in 1 .. Len(q) - 1 : q[i] \in Buffer
    BY <1>1, ElementOfSeq
  <2>2. D!Front(q) = SubSeq(q, 1, Len(q) - 1)
    BY DEF D!Front
  <2> QED
    BY <1>1, <2>1, <2>2, SubSeqProperties
<1>4. DOMAIN D!Front(q) = 1 .. Len(q) - 1
  BY <1>3, LenProperties
<1>5. D!IsInjective(D!Front(q))
  BY <1>1, <1>3, <1>4 DEF Queue, D!IsInjective
<1>6. ASSUME NEW b
      PROVE  b \in D!Queued(D!Front(q)) <=> b \in D!Queued(q) /\ b # q[Len(q)]
  <2>1. ASSUME NEW i \in 1 .. Len(q) - 1, b = q[i]
        PROVE  b \in D!Queued(q) /\ b # q[Len(q)]
    <3>1. i \in 1 .. Len(q) /\ i # Len(q)
      <4>1. Len(q) \in Nat
        BY <1>1
      <4> QED
        BY <4>1
    <3> QED
      BY <1>1, <1>2, <2>1, <3>1 DEF D!Queued, Queue, D!IsInjective
  <2>2. ASSUME NEW i \in 1 .. Len(q), b = q[i], b # q[Len(q)]
        PROVE  b \in D!Queued(D!Front(q))
    <3>1. i \in 1 .. Len(q) - 1
      BY <1>1, <2>2
    <3> QED
      BY <1>3, <1>4, <2>2, <3>1 DEF D!Queued
  <2> QED
    BY <1>1, <1>3, <1>4, <2>1, <2>2 DEF D!Queued
<1> QED
  BY <1>1, <1>2, <1>3, <1>5, <1>6 DEF Queue, D!Queued

\* The buffer the main loop has is given back.
LEMMA QueueOne ==
  ASSUME NEW b \in Buffer
  PROVE  Queue(<<b>>) /\ D!Queued(<<b>>) = {b} /\ Len(<<b>>) = 1
BY DEF Queue, D!Queued, D!IsInjective

LEMMA QueueEmpty ==
  Queue(<<>>) /\ D!Queued(<<>>) = {} /\ Len(<<>>) = 0
BY DEF Queue, D!Queued, D!IsInjective

LEMMA QueueReturned ==
  ASSUME NEW q, Queue(q), NEW y, y \in Seq(Buffer), Len(y) <= 1, y # <<>>,
         D!Queued(q) \cap D!Queued(y) = {}
  PROVE  /\ Queue(q \o y) /\ Len(q \o y) = Len(q) + 1
         /\ D!Queued(q \o y) = D!Queued(q) \cup D!Queued(y)
<1>1. Len(y) = 1 /\ y[1] \in Buffer /\ y = <<y[1]>>
  <2>1. Len(y) \in Nat \ {0}
    BY EmptySeq
  <2>2. Len(y) = 1
    <3>1. \A n \in Nat \ {0} : n <= 1 => n = 1
      OBVIOUS
    <3> QED
      BY <2>1, <3>1
  <2>3. PICK b \in Buffer : y[1] = b
    BY <2>2, ElementOfSeq
  <2>4. <<b>> \in Seq(Buffer) /\ Len(<<b>>) = 1 /\ <<b>>[1] = b
    OBVIOUS
  <2>5. \A i \in 1 .. Len(y) : y[i] = <<b>>[i]
    BY <2>2, <2>3, <2>4
  <2>6. y = <<b>>
    BY <2>2, <2>4, <2>5, SeqEqual
  <2> QED
    BY <2>2, <2>3, <2>6
<1>2. q \o y = Append(q, y[1])
  BY <1>1, AppendIsConcat DEF Queue
<1>3. D!Queued(y) = {y[1]}
  BY <1>1, QueueOne
<1> QED
  BY <1>1, <1>2, <1>3, QueuePushed

\* Every buffer is in one place.
Placed(v, d, p, y, r) ==
  /\ v \cup d \cup p \cup y \cup r = Buffer
  /\ v \cap d = {} /\ v \cap p = {} /\ v \cap y = {} /\ v \cap r = {}
  /\ d \cap p = {} /\ d \cap y = {} /\ d \cap r = {}
  /\ p \cap y = {} /\ p \cap r = {} /\ y \cap r = {}
Pool(v, d, p, y, r) ==
  /\ Placed(v, D!Queued(d), D!Queued(p), D!Queued(y), r)
  /\ Queue(d) /\ Queue(p) /\ y \in Seq(Buffer) /\ Len(y) <= 1
  /\ Len(d) + Len(p) + Len(y) <= numAppFrames + 1
FramesPool == Pool(vdo, deliveredFrames, processedFrames, yuvBuffer, refused)

Boxes(f) == IsFiniteSet(DOMAIN f) /\ \A i \in DOMAIN f : f[i] \in Box
FramesInv ==
  /\ FramesPool
  /\ frame # <<>> => frame = <<frame[1]>> /\ Boxes(frame[1])
  /\ g_detection_config \in DetectionConfig /\ g_nms \in Threshold
  /\ detection_changes \in 0 .. MaxSettings
  /\ D!Representative

LEMMA FramesHolds ==
  ASSUME FramesInv
  PROVE  D!TypeOK /\ D!PoolKept /\ D!Representative
<1> DEFINE d == D!Queued(deliveredFrames)
           p == D!Queued(processedFrames)
           y == D!Queued(yuvBuffer)
           places == <<vdo, d, p, y, refused>>
<1>1. Placed(vdo, d, p, y, refused)
  BY DEF FramesInv, FramesPool, Pool
<1>2. D!TypeOK
  BY <1>1 DEF FramesInv, FramesPool, Pool, Queue, Placed, D!TypeOK
<1> HIDE DEF d, p, y
<1>3. places[1] = vdo /\ places[2] = d /\ places[3] = p /\ places[4] = y /\ places[5] = refused
  OBVIOUS
<1> HIDE DEF places
<1>4. 1 .. 5 = {1, 2, 3, 4, 5}
  OBVIOUS
<1>5. UNION {places[i] : i \in 1 .. 5} = Buffer
  BY <1>1, <1>3, <1>4 DEF Placed
<1>6. \A i, j \in 1 .. 5 : i # j => places[i] \cap places[j] = {}
  BY <1>1, <1>3, <1>4 DEF Placed
<1>7. D!PoolKept
  BY <1>5, <1>6 DEF D!PoolKept, FramesInv, FramesPool, Pool, Queue, places, d, p, y
<1> QED
  BY <1>2, <1>7 DEF FramesInv

LEMMA FramesStarts ==
  ASSUME D!ConstantsAssumption, D!Init
  PROVE  FramesInv
<1>1. Placed(Buffer, {}, {}, {}, {})
  BY DEF Placed
<1>2. Pool(Buffer, <<>>, <<>>, <<>>, {})
  <2>1. Len(<<>>) + Len(<<>>) + Len(<<>>) <= numAppFrames + 1
    BY DEF D!ConstantsAssumption
  <2>2. <<>> \in Seq(Buffer) /\ Len(<<>>) <= 1
    OBVIOUS
  <2> QED
    BY <1>1, <2>1, <2>2, QueueEmpty DEF Pool
<1>3. D!Representative
  BY DEF D!Init, D!Representative
<1> QED
  BY <1>2, <1>3 DEF D!Init, FramesInv, FramesPool, D!ConstantsAssumption

\* The fetch thread: what it queues it took from VDO, and what it gives back it took from a
\* queue.
LEMMA FramesFetched ==
  ASSUME D!ConstantsAssumption, FramesInv, NEW b \in Buffer, NEW taken \in BOOLEAN,
         D!threadEntry(b, taken)
  PROVE  FramesInv'
<1> DEFINE delivered == Append(deliveredFrames, b)
<1>1. b \in vdo /\ FramesPool
      /\ UNCHANGED <<yuvBuffer, frame, g_detection_config, g_nms, counted, detection_changes>>
  BY DEF D!threadEntry, FramesInv
<1>2. Queue(delivered) /\ Len(delivered) = Len(deliveredFrames) + 1
      /\ D!Queued(delivered) = D!Queued(deliveredFrames) \cup {b}
  BY <1>1, QueuePushed DEF FramesPool, Pool, Placed
<1>3. /\ Len(deliveredFrames) \in Nat /\ Len(processedFrames) \in Nat /\ Len(yuvBuffer) \in Nat
      /\ numAppFrames \in Nat
  BY <1>1, LenProperties DEF FramesPool, Pool, Queue, D!ConstantsAssumption
<1>4. FramesPool'
  <2>1. CASE processedFrames # <<>>
    <3> DEFINE old == Head(processedFrames)
    <3>1. D!Range(<<old>>) = {old}
      BY DEF D!Range
    <3>2. /\ deliveredFrames' = delivered /\ processedFrames' = Tail(processedFrames)
          /\ vdo' = (vdo \ {b}) \cup (IF taken THEN {old} ELSE {})
          /\ refused' = IF taken THEN refused ELSE refused \cup {old}
      BY <2>1, <3>1 DEF D!threadEntry
    <3>3. Queue(Tail(processedFrames)) /\ Len(Tail(processedFrames)) = Len(processedFrames) - 1
          /\ old \in D!Queued(processedFrames)
          /\ D!Queued(Tail(processedFrames)) = D!Queued(processedFrames) \ {old}
      BY <1>1, <2>1, QueuePopped DEF FramesPool, Pool
    <3> HIDE DEF old
    <3>4. Placed(vdo', D!Queued(delivered), D!Queued(Tail(processedFrames)),
                 D!Queued(yuvBuffer), refused')
      BY <1>1, <1>2, <3>2, <3>3 DEF FramesPool, Pool, Placed
    <3>5. Len(delivered) + Len(Tail(processedFrames)) + Len(yuvBuffer) <= numAppFrames + 1
      <4>1. Len(deliveredFrames) + Len(processedFrames) + Len(yuvBuffer) <= numAppFrames + 1
        BY <1>1 DEF FramesPool, Pool
      <4>2. (Len(deliveredFrames) + 1) + (Len(processedFrames) - 1) + Len(yuvBuffer)
              <= numAppFrames + 1
        BY <1>3, <4>1
      <4> QED
        BY <1>2, <3>3, <4>2
    <3>6. Pool(vdo', delivered, Tail(processedFrames), yuvBuffer, refused')
      BY <1>1, <1>2, <3>3, <3>4, <3>5 DEF FramesPool, Pool
    <3> QED
      BY <1>1, <3>2, <3>6 DEF FramesPool
  <2>2. CASE processedFrames = <<>> /\ D!TooMany(delivered)
    <3> DEFINE old == Head(delivered)
    <3>1. D!Range(<<old>>) = {old} /\ <<old>> # <<>>
      BY DEF D!Range
    <3>2. /\ deliveredFrames' = Tail(delivered) /\ processedFrames' = <<>>
          /\ vdo' = (vdo \ {b}) \cup (IF taken THEN {old} ELSE {})
          /\ refused' = IF taken THEN refused ELSE refused \cup {old}
      BY <2>2, <3>1 DEF D!threadEntry
    <3>3. delivered # <<>>
      BY <1>2, <1>3
    <3>4. Queue(Tail(delivered)) /\ Len(Tail(delivered)) = Len(delivered) - 1
          /\ old \in D!Queued(delivered)
          /\ D!Queued(Tail(delivered)) = D!Queued(delivered) \ {old}
      BY <1>2, <3>3, QueuePopped
    <3> HIDE DEF old
    <3>5. Placed(vdo', D!Queued(Tail(delivered)), D!Queued(processedFrames),
                 D!Queued(yuvBuffer), refused')
      BY <1>1, <1>2, <3>2, <3>4 DEF FramesPool, Pool, Placed
    <3>6. Len(Tail(delivered)) + Len(processedFrames) + Len(yuvBuffer) <= numAppFrames + 1
      BY <1>1, <1>2, <1>3, <3>4 DEF FramesPool, Pool
    <3>7. Pool(vdo', Tail(delivered), processedFrames, yuvBuffer, refused')
      BY <1>1, <3>4, <3>5, <3>6 DEF FramesPool, Pool
    <3> QED
      BY <1>1, <2>2, <3>2, <3>7 DEF FramesPool
  <2>3. CASE processedFrames = <<>> /\ ~D!TooMany(delivered)
    <3>1. D!Range(<<>>) = {}
      BY DEF D!Range
    <3>2. /\ deliveredFrames' = delivered /\ processedFrames' = <<>>
          /\ vdo' = vdo \ {b} /\ refused' = refused
      BY <2>3, <3>1 DEF D!threadEntry
    <3>3. Placed(vdo', D!Queued(delivered), D!Queued(processedFrames), D!Queued(yuvBuffer),
                 refused')
      BY <1>1, <1>2, <3>2 DEF FramesPool, Pool, Placed
    <3>4. Len(delivered) <= numAppFrames /\ Len(processedFrames) = 0
      BY <1>2, <1>3, <2>3 DEF D!TooMany
    <3>5. Len(delivered) + Len(processedFrames) + Len(yuvBuffer) <= numAppFrames + 1
      BY <1>1, <1>2, <1>3, <3>4 DEF FramesPool, Pool
    <3>6. Pool(vdo', delivered, processedFrames, yuvBuffer, refused')
      BY <1>1, <1>2, <3>3, <3>5 DEF FramesPool, Pool
    <3> QED
      BY <1>1, <2>3, <3>2, <3>6 DEF FramesPool
  <2> QED
    BY <2>1, <2>2, <2>3
<1>5. D!Representative'
  BY <1>1 DEF FramesInv, D!Representative
<1> QED
  BY <1>1, <1>4, <1>5 DEF FramesInv, Boxes

LEMMA FramesCaptured ==
  ASSUME FramesInv, D!Video_Capture_YUV
  PROVE  FramesInv'
<1>1. FramesPool /\ yuvBuffer # <<>> /\ yuvBuffer' = <<>> /\ frame = <<>> /\ counted' = <<>>
      /\ processedFrames' = processedFrames \o yuvBuffer
      /\ UNCHANGED <<vdo, deliveredFrames, refused, frame, g_detection_config, g_nms,
                     detection_changes>>
  BY DEF D!Video_Capture_YUV, D!returnFrame, FramesInv
<1> DEFINE returned == processedFrames \o yuvBuffer
<1>2. Queue(returned) /\ Len(returned) = Len(processedFrames) + 1
      /\ D!Queued(returned) = D!Queued(processedFrames) \cup D!Queued(yuvBuffer)
  BY <1>1, QueueReturned DEF FramesPool, Pool, Placed
<1>3. Placed(vdo, D!Queued(deliveredFrames), D!Queued(returned), {}, refused)
  BY <1>1, <1>2 DEF FramesPool, Pool, Placed
<1>4. Len(deliveredFrames) + Len(returned) + Len(<<>>) <= numAppFrames + 1
  <2>1. Len(deliveredFrames) \in Nat /\ Len(processedFrames) \in Nat /\ Len(yuvBuffer) \in Nat
    BY <1>1, LenProperties DEF FramesPool, Pool, Queue
  <2>2. Len(yuvBuffer) = 1
    <3>1. Len(yuvBuffer) \in Nat \ {0} /\ Len(yuvBuffer) <= 1
      BY <1>1, EmptySeq DEF FramesPool, Pool
    <3>2. \A n \in Nat \ {0} : n <= 1 => n = 1
      OBVIOUS
    <3> QED
      BY <3>1, <3>2
  <2>3. Len(deliveredFrames) + Len(processedFrames) + 1 <= numAppFrames + 1
    BY <1>1, <2>2 DEF FramesPool, Pool
  <2>4. Len(deliveredFrames) + (Len(processedFrames) + 1) + 0 <= numAppFrames + 1
    BY <2>1, <2>3
  <2> QED
    BY <1>2, <2>4, QueueEmpty
<1>5. Pool(vdo, deliveredFrames, returned, <<>>, refused)
  <2>1. <<>> \in Seq(Buffer) /\ Len(<<>>) <= 1
    OBVIOUS
  <2> QED
    BY <1>1, <1>2, <1>3, <1>4, <2>1, QueueEmpty DEF FramesPool, Pool
<1>6. FramesPool'
  BY <1>1, <1>5 DEF FramesPool
<1>7. D!Representative'
  BY <1>1 DEF D!Representative
<1> QED
  BY <1>1, <1>6, <1>7 DEF FramesInv, Boxes

\* What the model found are boxes, finitely many.
LEMMA DetectedBoxes ==
  ASSUME D!ConstantsAssumption, NEW boxes \in Frame, NEW config
  PROVE  Boxes(D!Detected(boxes, config))
<1>1. boxes \in Seq(Box)
  BY DEF D!ConstantsAssumption
<1>2. DOMAIN boxes = 1 .. Len(boxes) /\ Len(boxes) \in Nat
  BY <1>1, LenProperties
<1>3. \A i \in DOMAIN boxes : boxes[i] \in Box
  BY <1>1, <1>2, ElementOfSeq
<1> DEFINE places == {i \in DOMAIN boxes : D!Found(boxes[i], config)}
<1>4. IsFiniteSet(places)
  <2>1. IsFiniteSet(DOMAIN boxes)
    BY <1>2, FS_Interval
  <2>2. places \in SUBSET DOMAIN boxes
    OBVIOUS
  <2> HIDE DEF places
  <2> QED
    BY <2>1, <2>2, FS_Subset
<1>5. D!Detected(boxes, config) = [i \in places |-> boxes[i]]
  BY DEF D!Detected, D!Restrict
<1> QED
  BY <1>3, <1>4, <1>5 DEF Boxes

LEMMA PassedBoxes ==
  ASSUME NEW boxes, Boxes(boxes), NEW config
  PROVE  Boxes(D!Passed(boxes, config))
<1> DEFINE places == {i \in DOMAIN boxes : D!Detection_Passes(boxes[i], config)}
<1>1. IsFiniteSet(places)
  BY FS_Subset DEF Boxes
<1>2. D!Passed(boxes, config) = [i \in places |-> boxes[i]]
  BY DEF D!Passed, D!Restrict
<1> QED
  BY <1>1, <1>2 DEF Boxes

LEMMA FramesTaken ==
  ASSUME D!ConstantsAssumption, FramesInv, NEW boxes \in Frame,
         D!getLastFrameBlocking(boxes)
  PROVE  FramesInv'
<1> DEFINE newest == D!Last(deliveredFrames)
           others == D!Front(deliveredFrames)
           found == D!Detected(boxes, g_detection_config)
<1>1. FramesPool /\ yuvBuffer = <<>> /\ deliveredFrames # <<>> /\ yuvBuffer' = <<newest>>
      /\ deliveredFrames' = others /\ frame' = <<found>>
      /\ UNCHANGED <<vdo, processedFrames, refused, g_detection_config, g_nms, counted,
                     detection_changes>>
  BY DEF D!getLastFrameBlocking, D!Waiting, FramesInv
<1>2. Queue(others) /\ Len(others) = Len(deliveredFrames) - 1
      /\ newest \in D!Queued(deliveredFrames)
      /\ D!Queued(others) = D!Queued(deliveredFrames) \ {newest}
  BY <1>1, QueueNewest DEF FramesPool, Pool
<1>3. newest \in Buffer
  BY <1>1, <1>2 DEF FramesPool, Pool, Placed
<1>4. Queue(<<newest>>) /\ D!Queued(<<newest>>) = {newest} /\ Len(<<newest>>) = 1
  BY <1>3, QueueOne
<1>5. Boxes(found)
  BY DetectedBoxes
<1> HIDE DEF newest, others, found
<1>6. Placed(vdo, D!Queued(others), D!Queued(processedFrames), {newest}, refused)
  <2>1. D!Queued(yuvBuffer) = {}
    BY <1>1, QueueEmpty
  <2> QED
    BY <1>1, <1>2, <2>1 DEF FramesPool, Pool, Placed
<1>7. Len(others) + Len(processedFrames) + Len(<<newest>>) <= numAppFrames + 1
  <2>1. Len(deliveredFrames) \in Nat /\ Len(processedFrames) \in Nat /\ numAppFrames \in Nat
    BY <1>1, LenProperties DEF FramesPool, Pool, Queue, D!ConstantsAssumption
  <2>2. Len(deliveredFrames) + Len(processedFrames) + 0 <= numAppFrames + 1
    BY <1>1, QueueEmpty DEF FramesPool, Pool
  <2>3. (Len(deliveredFrames) - 1) + Len(processedFrames) + 1 <= numAppFrames + 1
    BY <2>1, <2>2
  <2> QED
    BY <1>2, <1>4, <2>3
<1>8. Pool(vdo, others, processedFrames, <<newest>>, refused)
  <2>1. Len(<<newest>>) <= 1
    BY <1>4
  <2> QED
    BY <1>1, <1>2, <1>4, <1>6, <1>7, <2>1 DEF FramesPool, Pool, Queue
<1>9. FramesPool'
  BY <1>1, <1>8 DEF FramesPool
<1>10. D!Representative'
  BY <1>1 DEF FramesInv, D!Representative
<1>11. frame' = <<frame'[1]>> /\ Boxes(frame[1])'
  BY <1>1, <1>5 DEF Boxes
<1> QED
  BY <1>1, <1>9, <1>10, <1>11 DEF FramesInv

(***************************************************************************)
(* The boxes that are kept: those that no kept box before them suppresses. *)
(* A frame for which there is no such set would have a shortest beginning  *)
(* without one.                                                            *)
(***************************************************************************)
LEMMA LeastNumber ==
  ASSUME NEW T, T \subseteq Nat, T # {}
  PROVE  \E m \in T : \A n \in T : m <= n
<1>1. IsWellFoundedOn(OpToRel(<, Nat), Nat)
  BY NatLessThanWellFounded
<1>2. PICK m \in T : \A n \in T : <<n, m>> \notin OpToRel(<, Nat)
  BY <1>1, WFMin
<1>3. \A n \in T : ~(n < m)
  BY <1>2 DEF OpToRel
<1>4. \A n \in T : n \in Nat
  OBVIOUS
<1>5. \A n \in T : m <= n
  BY <1>3, <1>4, SMT
<1> QED
  BY <1>2, <1>5

Keeps(K, n, Rel) ==
  /\ K \subseteq 1 .. n
  /\ \A i \in 1 .. n : i \in K <=> ~\E j \in K : j < i /\ <<j, i>> \in Rel

LEMMA KeptExist ==
  ASSUME NEW n \in Nat, NEW Rel
  PROVE  \E K \in SUBSET (1 .. n) : Keeps(K, n, Rel)
<1> DEFINE T == {m \in 0 .. n : ~\E K \in SUBSET (1 .. m) : Keeps(K, m, Rel)}
<1>1. SUFFICES T = {}
  OBVIOUS
<1>2. SUFFICES ASSUME T # {}
               PROVE  FALSE
  OBVIOUS
<1>3. PICK m \in T : \A k \in T : m <= k
  <2>1. T \subseteq Nat
    OBVIOUS
  <2> QED
    BY <1>2, <2>1, LeastNumber
<1>4. m \in 0 .. n /\ ~\E K \in SUBSET (1 .. m) : Keeps(K, m, Rel)
  OBVIOUS
<1>5. m # 0
  <2>1. Keeps({}, 0, Rel) /\ {} \in SUBSET (1 .. 0)
    BY DEF Keeps
  <2> QED
    BY <1>4, <2>1
<1>6. m - 1 \in 0 .. n /\ m - 1 \notin T
  <2>1. m - 1 \in 0 .. n /\ ~(m <= m - 1)
    BY <1>4, <1>5
  <2> QED
    BY <1>3, <2>1
<1>7. PICK K \in SUBSET (1 .. m - 1) : Keeps(K, m - 1, Rel)
  BY <1>6
<1> DEFINE L == IF \E j \in K : j < m /\ <<j, m>> \in Rel THEN K ELSE K \cup {m}
<1>8. 1 .. m = (1 .. m - 1) \cup {m} /\ m \notin 1 .. m - 1
      /\ \A i \in 1 .. m - 1 : i < m /\ ~(m < i)
  BY <1>4, <1>5
<1>9. ~(m < m)
  BY <1>4
<1>10. L \in SUBSET (1 .. m)
  BY <1>8
<1>11. ASSUME NEW i \in 1 .. m
       PROVE  i \in L <=> ~\E j \in L : j < i /\ <<j, i>> \in Rel
  <2>1. CASE i \in 1 .. m - 1
    <3>1. i \in L <=> i \in K
      BY <1>8, <2>1
    <3>2. (\E j \in L : j < i /\ <<j, i>> \in Rel) <=> (\E j \in K : j < i /\ <<j, i>> \in Rel)
      BY <1>8, <2>1
    <3> QED
      BY <1>7, <2>1, <3>1, <3>2 DEF Keeps
  <2>2. CASE i = m
    <3>1. (\E j \in L : j < m /\ <<j, m>> \in Rel) <=> (\E j \in K : j < m /\ <<j, m>> \in Rel)
      BY <1>9
    <3>2. m \in L <=> ~\E j \in K : j < m /\ <<j, m>> \in Rel
      BY <1>8
    <3> QED
      BY <2>2, <3>1, <3>2
  <2> QED
    BY <1>8, <2>1, <2>2
<1> HIDE DEF L
<1>12. Keeps(L, m, Rel)
  BY <1>10, <1>11 DEF Keeps
<1> QED
  BY <1>4, <1>10, <1>12

\* An order of boxes, and what is kept of it.
LEMMA OrderedBoxes ==
  ASSUME NEW boxes, Boxes(boxes), NEW order \in D!Ordered(boxes)
  PROVE  /\ \E n \in Nat : DOMAIN order = 1 .. n
         /\ \A i \in DOMAIN order : order[i] \in Box
         /\ \A i, j \in DOMAIN order : i < j => order[i].c >= order[j].c
<1> DEFINE n == Cardinality(DOMAIN boxes)
<1>1. n \in Nat
  BY FS_CardinalityType DEF Boxes
<1>2. D!Cardinality(DOMAIN boxes) = n
  BY DEF D!Cardinality, Cardinality
<1> HIDE DEF n
<1>3. PICK places \in D!Injection(1 .. n, DOMAIN boxes) :
        order = [i \in 1 .. n |-> boxes[places[i]]]
  BY <1>2 DEF D!Ordered, D!Permutation
<1>4. places \in [1 .. n -> DOMAIN boxes]
  BY DEF D!Injection
<1>5. DOMAIN order = 1 .. n /\ \A i \in 1 .. n : order[i] \in Box
  BY <1>3, <1>4 DEF Boxes
<1> QED
  BY <1>1, <1>5 DEF D!Ordered

LEMMA OverlapSymmetric ==
  ASSUME D!ConstantsAssumption, NEW a \in Box, NEW b \in Box, NEW t
  PROVE  D!Overlap(a, b, t) <=> D!Overlap(b, a, t)
<1>1. a.x \in Int /\ b.x \in Int
  BY DEF D!ConstantsAssumption
<1>2. D!Larger(a.x - b.x, b.x - a.x) = D!Larger(b.x - a.x, a.x - b.x)
  BY <1>1 DEF D!Larger
<1>3. D!Intersection(a, b) = D!Intersection(b, a)
  BY <1>2 DEF D!Intersection
<1> QED
  BY <1>3 DEF D!Overlap

LEMMA KeptOf ==
  ASSUME NEW n \in Nat, NEW order, DOMAIN order = 1 .. n, NEW t
  PROVE  LET kept == D!Detection_NMS_Class_Aware(order, t) IN
         /\ kept \subseteq DOMAIN order
         /\ \A i \in DOMAIN order :
              i \in kept <=> ~\E j \in kept : j < i /\ D!Suppresses(order[j], order[i], t)
<1> DEFINE places == 1 .. n
           Rel == {s \in places \X places : D!Suppresses(order[s[1]], order[s[2]], t)}
           Rule(kept) == \A i \in places :
             i \in kept <=> ~\E j \in kept : j < i /\ D!Suppresses(order[j], order[i], t)
<1>1. PICK K \in SUBSET places : Keeps(K, n, Rel)
  BY KeptExist
<1>2. \A i, j \in places : <<j, i>> \in Rel <=> D!Suppresses(order[j], order[i], t)
  OBVIOUS
<1>3. Rule(K)
  BY <1>1, <1>2 DEF Keeps
<1>4. D!Detection_NMS_Class_Aware(order, t) = CHOOSE kept \in SUBSET places : Rule(kept)
  BY DEF D!Detection_NMS_Class_Aware
<1> HIDE DEF Rule
<1>5. D!Detection_NMS_Class_Aware(order, t) \in SUBSET places
      /\ Rule(D!Detection_NMS_Class_Aware(order, t))
  BY <1>3, <1>4
<1> QED
  BY <1>5 DEF Rule

LEMMA FramesRecorded ==
  ASSUME D!ConstantsAssumption, FramesInv, D!Occupancy_Record_Frame
  PROVE  FramesInv'
<1> DEFINE passed == D!Passed(frame[1], g_detection_config)
<1>1. FramesPool /\ Boxes(frame[1]) /\ frame' = <<>>
      /\ UNCHANGED <<vdo, deliveredFrames, processedFrames, yuvBuffer, refused,
                     g_detection_config, g_nms, detection_changes>>
  BY DEF D!Occupancy_Record_Frame, D!pool, FramesInv
<1>2. Boxes(passed)
  BY <1>1, PassedBoxes
<1> HIDE DEF passed
<1>3. PICK order \in D!Ordered(passed) :
        counted' = <<[found |-> order, nms |-> g_nms,
                      kept |-> D!Detection_NMS_Class_Aware(order, g_nms)]>>
  BY DEF D!Occupancy_Record_Frame, passed
<1> DEFINE kept == D!Detection_NMS_Class_Aware(order, g_nms)
           StandsFor(i, j) ==
             /\ order[i].classIndex = order[j].classIndex
             /\ D!Overlap(order[i], order[j], g_nms)
<1>4. PICK n \in Nat : DOMAIN order = 1 .. n
  BY <1>2, OrderedBoxes
<1>5. /\ kept \subseteq 1 .. n
      /\ \A i \in 1 .. n :
           i \in kept <=> ~\E j \in kept : j < i /\ D!Suppresses(order[j], order[i], g_nms)
  BY <1>4, KeptOf
<1>6. /\ \A i \in 1 .. n : order[i] \in Box
      /\ \A i, j \in 1 .. n : i < j => order[i].c >= order[j].c
  BY <1>2, <1>4, OrderedBoxes
<1> HIDE DEF kept
<1>7. ASSUME NEW i \in kept, NEW j \in kept, i < j
      PROVE  ~StandsFor(i, j) /\ ~StandsFor(j, i)
  <2>1. ~D!Suppresses(order[i], order[j], g_nms)
    BY <1>5, <1>7
  <2>2. ~StandsFor(i, j)
    BY <2>1 DEF D!Suppresses
  <2>3. StandsFor(j, i) => StandsFor(i, j)
    BY <1>5, <1>6, OverlapSymmetric
  <2> QED
    BY <2>2, <2>3
<1>8. \A i, j \in kept : i # j => ~StandsFor(i, j)
  <2>1. \A i, j \in kept : i # j => i < j \/ j < i
    BY <1>5
  <2> QED
    BY <1>7, <2>1
<1>9. ASSUME NEW j \in 1 .. n, j \notin kept
      PROVE  \E i \in kept : StandsFor(i, j) /\ order[i].c >= order[j].c
  <2>1. PICK i \in kept : i < j /\ D!Suppresses(order[i], order[j], g_nms)
    BY <1>5, <1>9
  <2>2. StandsFor(i, j)
    BY <2>1 DEF D!Suppresses
  <2> QED
    BY <1>5, <1>6, <2>1, <2>2
<1>10. D!Representative'
  <2>1. counted'[1].found = order /\ counted'[1].nms = g_nms /\ counted'[1].kept = kept
    BY <1>3 DEF kept
  <2> QED
    BY <1>4, <1>8, <1>9, <2>1 DEF D!Representative
<1>11. FramesPool'
  BY <1>1 DEF FramesPool
<1> QED
  BY <1>1, <1>10, <1>11 DEF FramesInv

LEMMA FramesStep ==
  ASSUME D!ConstantsAssumption, FramesInv, [D!Next]_(D!vars)
  PROVE  FramesInv'
<1>1. CASE UNCHANGED D!vars
  BY <1>1 DEF D!vars, D!pool, FramesInv, FramesPool, Boxes, D!Representative
<1>2. ASSUME NEW config \in DetectionConfig, NEW nms \in Threshold,
             D!Model_Apply_Detection_Settings(config, nms)
      PROVE  FramesInv'
  <2>1. detection_changes' \in 0 .. MaxSettings
    BY <1>2 DEF D!Model_Apply_Detection_Settings, FramesInv, D!ConstantsAssumption
  <2> QED
    BY <1>2, <2>1 DEF D!Model_Apply_Detection_Settings, D!pool, FramesInv, FramesPool, Boxes,
       D!Representative
<1> QED
  BY <1>1, <1>2, FramesFetched, FramesCaptured, FramesTaken, FramesRecorded
  DEF D!Next, D!Process_Frame

\* No buffer is lost or in two places, whatever VDO refuses, and what is counted of a frame
\* stands for all that was found in it (imgprovider.c:425-479, detection_nms.c:24-66).
THEOREM FramesSound ==
  ASSUME D!ConstantsAssumption
  PROVE  D!Spec => [](D!TypeOK /\ D!PoolKept /\ D!Representative)
<1>1. D!Init => FramesInv
  BY FramesStarts
<1>2. FramesInv /\ [D!Next]_(D!vars) => FramesInv'
  BY FramesStep
<1>3. FramesInv => D!TypeOK /\ D!PoolKept /\ D!Representative
  BY FramesHolds
<1> QED
  BY <1>1, <1>2, <1>3, PTL DEF D!Spec

\* detectx is sound, in both of its parts.
THEOREM DetectxKept ==
  ASSUME M!ConstantsAssumption, D!ConstantsAssumption
  PROVE  M!Spec /\ D!Spec => []DetectxSound
<1>1. M!Spec => [](M!TypeOK /\ M!Grounded /\ M!AllOrNothing /\ M!Meant)
  BY StartSound
<1>2. D!Spec => [](D!TypeOK /\ D!PoolKept /\ D!Representative)
  BY FramesSound
<1>3. (M!TypeOK /\ M!Grounded /\ M!AllOrNothing /\ M!Meant)
      /\ (D!TypeOK /\ D!PoolKept /\ D!Representative) <=> DetectxSound
  BY DEF DetectxSound
<1> QED
  BY <1>1, <1>2, <1>3, PTL
=============================================================================
