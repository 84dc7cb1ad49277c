---------------------------- MODULE AoaSettings ----------------------------
(***************************************************************************)
(* The settings of the aoa app: read from a file that any earlier version  *)
(* may have written, brought into the form of this one, changed by the web *)
(* pages and over LoRaWAN, and read again (aoa/app/main.c, ACAP.c).        *)
(*                                                                         *)
(* A start merges the file into the defaults, group by group, looks at the *)
(* version of the file, migrates and writes it back.  That write, like     *)
(* every other, may fail or be cut short, and nobody looks at its result   *)
(* but the command that sets a stream over LoRaWAN.                        *)
(*                                                                         *)
(* A settings object is a function from its keys; a key that the file does *)
(* not have is not in its domain.  Alerts have their schedules; classes,   *)
(* the values of occupancy and the bridge's address have no version.       *)
(***************************************************************************)
EXTENDS Integers, Sequences, FiniteSets

CONSTANTS Alert,      \* names of presence alerts
          Schedule,   \* daily schedules, and NoSchedule, that of an alert without one
          NoSchedule,
          Interval,   \* publish intervals
          Command,    \* downlink commands that can be disabled: "SET" is one of them
          File,       \* files of earlier versions: <<>> is none
          MaxChanges  \* bound: pages and commands

SETTINGS_VERSION == 9
Stream == {"counting", "occupancy", "presence"}
LORA_PORT(stream) == CASE stream = "counting" -> 1 [] stream = "occupancy" -> 2 [] OTHER -> 3

Has(object, key) == key \in DOMAIN object
Or(object, key, default) == IF Has(object, key) THEN object[key] ELSE default
With(object, key, value) ==
  [k \in DOMAIN object \cup {key} |-> IF k = key THEN value ELSE object[k]]
Without(object, keys) == [k \in DOMAIN object \ keys |-> object[k]]
NoAlerts == [alert \in {} |-> [schedule |-> NoSchedule]]

\* What a group of a file holds: any of its fields may be missing.  The first version had
\* one group for all streams.
Fits(group, key) ==
  /\ Or(group, "enabled", TRUE) \in BOOLEAN /\ Or(group, "port", 0) \in Int
  /\ Or(group, "interval", 15) \in Interval
  /\ key = "presence" =>
       /\ Or(group, "schedule", "evening") \in Schedule \ {NoSchedule}
       /\ \A alert \in DOMAIN Or(group, "scenarios", NoAlerts) :
            group.scenarios[alert].schedule \in Schedule

Readable(settings) ==
  /\ DOMAIN settings \subseteq Stream \cup {"version", "disabled", "old", "lorawan"}
  /\ Or(settings, "version", 1) \in Nat /\ Or(settings, "disabled", {}) \subseteq Command
  /\ Or(settings, "version", 1) < 2 => DOMAIN settings \cap Stream = {}
  /\ \A key \in DOMAIN settings \cap (Stream \cup {"old"}) : Fits(settings[key], key)

ConstantsAssumption ==
  /\ {NoSchedule, "evening"} \subseteq Schedule /\ NoSchedule # "evening" /\ "SET" \in Command
  /\ Interval \subseteq 1 .. 60 /\ 15 \in Interval
  /\ \A contents \in File :
       contents = <<>> \/ (contents = <<contents[1]>> /\ Readable(contents[1]))
  /\ MaxChanges \in Nat

VARIABLES
  memory,   \* the settings of the app object
  file,     \* localdata/settings.json: <<settings>>, or <<>> if there is none to read
  live,     \* the configuration of the streams
  call,     \* what is being written: <<>> or <<[op, previous]>>
  saved,    \* a start would find all that is in memory
  changes

vars == <<memory, file, live, call, saved, changes>>
-----------------------------------------------------------------------------
\* settings/settings.json.
Default ==
  [version |-> SETTINGS_VERSION, disabled |-> {}, lorawan |-> [port |-> 1],
   counting |-> [enabled |-> TRUE, interval |-> 15, port |-> 1],
   occupancy |-> [enabled |-> FALSE, interval |-> 15, port |-> 2],
   presence |-> [enabled |-> FALSE, port |-> 3, scenarios |-> NoAlerts]]

\* ACAP_Init: what is in the file replaces what is in the defaults; other keys go.
Merged(contents) ==
  IF contents = <<>> THEN Default
  ELSE [k \in DOMAIN Default |-> Or(contents[1], k, Default[k])]

\* Normalize_Transmission_V4: a stream is on if it says so, else by the port it had; an
\* alert without a schedule takes that of all alerts.
Stream_Enabled_From_Config(s, default) ==
  Or(s, "enabled", IF Has(s, "port") THEN s.port > 0 ELSE default)

NormalStream(settings, stream, default) ==
  With(With(settings[stream], "enabled", Stream_Enabled_From_Config(settings[stream], default)),
       "port", LORA_PORT(stream))

NormalAlerts(presence) ==
  [alert \in DOMAIN Or(presence, "scenarios", NoAlerts) |->
     [schedule |-> IF presence.scenarios[alert].schedule # NoSchedule
                   THEN presence.scenarios[alert].schedule
                   ELSE Or(presence, "schedule", "evening")]]

Normalize_Transmission_V4(settings) ==
  LET presence == NormalStream(settings, "presence", FALSE) IN
  [settings EXCEPT
     !.counting = NormalStream(settings, "counting", TRUE),
     !.occupancy = NormalStream(settings, "occupancy", FALSE),
     !.presence = With(Without(presence, {"schedule"}), "scenarios", NormalAlerts(presence))]

\* Version 1 had one setting for all: Migrate_Settings, from its file.
FromV1(settings, f) ==
  LET old == Or(f, "old", [k \in {} |-> 0])
      interval == Or(old, "interval", 15)
      counting == With(With(settings.counting, "interval", interval), "enabled",
                       Or(old, "enabled", TRUE) /\ Or(Or(f, "lorawan", [port |-> 1]), "port", 1) > 0)
      occupancy == With(With(settings.occupancy, "interval", interval), "enabled", FALSE)
  IN [settings EXCEPT !.counting = With(counting, "port", 1),
                      !.occupancy = With(occupancy, "port", 2),
                      !.presence = With(With(With(@, "enabled", FALSE), "port", 3), "scenarios",
                                        Or(@, "scenarios", NoAlerts))]

\* The scenes of version 6 were shared with occupancy; commands meant other things up to
\* version 8.
NoAlertsLeft(settings) ==
  [settings EXCEPT !.presence = With(With(@, "scenarios", NoAlerts), "enabled", FALSE)]
AllCommands(settings) == [settings EXCEPT !.disabled = {}]

Versioned_Not(settings, f) == With(settings, "version", Or(f, "version", SETTINGS_VERSION))
Versioned(settings, f) == With(settings, "version", SETTINGS_VERSION)

saved_version(contents) ==
  IF contents = <<>> THEN SETTINGS_VERSION ELSE Or(contents[1], "version", 1)

Migrated(contents) ==
  LET settings == Merged(contents)
      v == saved_version(contents)
      normal == Normalize_Transmission_V4(settings)
      f == IF contents = <<>> THEN Default ELSE contents[1]
  IN Versioned(CASE v = 8 -> AllCommands(normal)
                 [] v = 6 -> NoAlertsLeft(normal)
                 [] v \in {2, 3, 4, 5, 7} \/ v >= SETTINGS_VERSION -> normal
                 [] OTHER -> FromV1(settings, f), f)

Writes(contents) == saved_version(contents) < SETTINGS_VERSION

\* Counting_Load_Config, Occupancy_Load_Config, Presence_Load_Config: what is missing is
\* left as it is.
Loaded(l, settings) ==
  [counting |-> [enabled |-> Or(settings.counting, "enabled", l.counting.enabled),
                 interval |-> Or(settings.counting, "interval", l.counting.interval)],
   occupancy |-> [enabled |-> Or(settings.occupancy, "enabled", l.occupancy.enabled),
                  interval |-> Or(settings.occupancy, "interval", l.occupancy.interval)],
   presence |-> [enabled |-> Or(settings.presence, "enabled", l.presence.enabled),
                 scenarios |-> Or(settings.presence, "scenarios", NoAlerts)]]
Live == [counting |-> [enabled |-> TRUE, interval |-> 15],
         occupancy |-> [enabled |-> FALSE, interval |-> 15],
         presence |-> [enabled |-> FALSE, scenarios |-> NoAlerts]]
-----------------------------------------------------------------------------
Idle == call = <<>>
Serve(op, previous) == call' = <<[op |-> op, previous |-> previous]>>
Migrating(contents) == IF Writes(contents) THEN <<[op |-> "migrate", previous |-> <<>>]>> ELSE <<>>

\* main: ACAP_Init gives the streams the settings as they are merged, Migrate_Settings
\* changes them, and they are given to the streams again.
Init ==
  /\ file \in File /\ memory = Migrated(file)
  /\ live = Loaded(Loaded(Live, Merged(file)), memory)
  /\ call = Migrating(file) /\ saved = TRUE /\ changes = 0

Restart ==
  /\ memory' = Migrated(file)
  /\ live' = Loaded(Loaded(Live, Merged(file)), memory')
  /\ call' = Migrating(file) /\ saved' = TRUE
  /\ UNCHANGED <<file, changes>>

\* ACAP_FILE_Write: what the file holds, and what is returned.
Outcome == {"written", "not_opened", "cut", "cut_unnoticed"}
Returns(outcome) == outcome \in {"written", "cut_unnoticed"}
ACAP_FILE_Write(outcome) ==
  file' = CASE outcome = "written" -> <<memory>>
            [] outcome = "not_opened" -> file
            [] OTHER -> <<>>

\* A file that could not be opened is the old one, and is migrated again.
Migration_Written(outcome) ==
  /\ ~Idle /\ call[1].op = "migrate"
  /\ ACAP_FILE_Write(outcome) /\ call' = <<>>
  /\ saved' = (saved /\ outcome \in {"written", "not_opened"})
  /\ UNCHANGED <<memory, live, changes>>

\* ACAP_ENDPOINT_settings: a page posts a stream, in a copy of its group, or the commands.
Change == Idle /\ changes < MaxChanges /\ changes' = changes + 1
ACAP_ENDPOINT_settings(key, value) ==
  /\ Change
  /\ memory' = [memory EXCEPT ![key] = value]
  /\ live' = IF key \in Stream THEN Loaded(live, memory') ELSE live
  /\ Serve("post", <<>>) /\ saved' = FALSE
  /\ UNCHANGED file

AlertsPage ==
  {With(With(memory.presence, "enabled", on), "scenarios", [a \in alerts |-> [schedule |-> s]]) :
     on \in BOOLEAN, alerts \in SUBSET Alert, s \in Schedule \ {NoSchedule}}
StreamPage(stream) ==
  {With(With(memory[stream], "enabled", on), "interval", i) : on \in BOOLEAN, i \in Interval}
Page(key) ==
  CASE key = "disabled" -> SUBSET Command
    [] key = "presence" -> AlertsPage
    [] OTHER -> StreamPage(key)

Settings_Posted(outcome) ==
  /\ ~Idle /\ call[1].op = "post"
  /\ ACAP_FILE_Write(outcome) /\ call' = <<>>
  /\ saved' = (outcome = "written")
  /\ UNCHANGED <<memory, live, changes>>

\* B100_Downlink_Handler: what is not listed is enabled.
command_enabled(command) == command \notin memory.disabled

\* Apply_Transmission_Config_Body: on or off, and the interval of the streams that have one.
Apply_Transmission_Config_Body(stream, enabled, interval) ==
  /\ command_enabled("SET") /\ Change
  /\ memory' = [memory EXCEPT ![stream] =
                  IF stream = "presence" THEN With(@, "enabled", enabled)
                  ELSE With(With(@, "enabled", enabled), "interval", interval)]
  /\ Serve(stream, <<memory[stream], saved>>) /\ saved' = FALSE
  /\ UNCHANGED <<file, live>>

Restored_Not(stream, previous) == memory
Restored(stream, previous) == [memory EXCEPT ![stream] = previous]

Transmission_Written(outcome) ==
  /\ ~Idle /\ call[1].op \in Stream
  /\ ACAP_FILE_Write(outcome) /\ call' = <<>>
  /\ \/ /\ Returns(outcome)
        /\ live' = Loaded(live, memory) /\ saved' = (outcome = "written")
        /\ UNCHANGED memory
     \/ /\ ~Returns(outcome)
        /\ memory' = Restored(call[1].op, call[1].previous[1])
        /\ saved' = (outcome = "not_opened" /\ call[1].previous[2])
        /\ UNCHANGED live
  /\ UNCHANGED changes

\* GET: from the settings, with a default for the interval that a stream does not have.
Build_Transmission_Config_Body(stream) ==
  <<Or(memory[stream], "enabled", FALSE)>>
  \o IF stream = "presence" THEN <<>> ELSE <<Or(memory[stream], "interval", 15)>>

Next ==
  \/ \E key \in Stream \cup {"disabled"} : \E value \in Page(key) : ACAP_ENDPOINT_settings(key, value)
  \/ \E stream \in Stream, enabled \in BOOLEAN, interval \in Interval :
       Apply_Transmission_Config_Body(stream, enabled, interval)
  \/ \E outcome \in Outcome :
       Migration_Written(outcome) \/ Settings_Posted(outcome) \/ Transmission_Written(outcome)
  \/ Restart

Spec == Init /\ [][Next]_vars
-----------------------------------------------------------------------------
\* The types.
TypeOK ==
  /\ DOMAIN memory = DOMAIN Default /\ memory.version = SETTINGS_VERSION
  /\ memory.disabled \subseteq Command
  /\ \A stream \in Stream : live[stream].enabled \in BOOLEAN
  /\ \A stream \in Stream \ {"presence"} : live[stream].interval \in Interval
  /\ saved \in BOOLEAN /\ changes \in 0 .. MaxChanges

\* A restart changes nothing.  Once migrated, written and changed by the user, settings
\* are not migrated again; what was refused over LoRaWAN because it could not be written
\* is nowhere to be seen; and what is in memory, and what GET answers, is in effect,
\* whatever form the file had that it came from (Migrate_Settings, main.c:329-470; Apply_Transmission_Config_Body,
\* 788-816; Settings_Updated_Callback, 497-599).
SameAfterRestart ==
  Idle =>
    /\ saved => Migrated(file) = memory
    /\ live = Loaded(live, memory)
    /\ \A stream \in Stream : Build_Transmission_Config_Body(stream) =
         <<live[stream].enabled>>
         \o IF stream = "presence" THEN <<>> ELSE <<live[stream].interval>>
    /\ \A alert \in DOMAIN live.presence.scenarios :
         live.presence.scenarios[alert].schedule # NoSchedule
=============================================================================
