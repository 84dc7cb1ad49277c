---------------------------- MODULE AoaOccupancy ----------------------------
(***************************************************************************)
(* The occupancy stream of the aoa app (aoa/app/occupancy.c): the samples  *)
(* of AOA's interval events, the status object that shows the selected     *)
(* labels of each area, the payload that is made from that object, and the *)
(* decoder that the app generates for the application server.              *)
(*                                                                         *)
(* The main loop takes the events, the FCGI thread settings and resets.    *)
(* Each renews the status object: it builds the areas under the mutex of   *)
(* the samples and stores them after its release, so that two renewals can *)
(* cross.  The configuration is read without its mutex: a settings POST    *)
(* empties the table of the areas before it fills it, and an area that is  *)
(* not in the table has the default selection.                             *)
(*                                                                         *)
(* A sample holds the least, the average and the largest count of each     *)
(* class; the average, a fraction in the code, is rounded here.            *)
(***************************************************************************)
EXTENDS Integers, Sequences, SequencesExt

CONSTANTS Area,        \* the names of the scenes, at most OCCUPANCY_MAX_ITEMS
          Class,       \* the classes in payload order, a sequence
          Sample,      \* samples: [class -> [min, average, max]]
          Selection,   \* [classes, value]: what the settings can select for an area
          Default,     \* the selection of an area that the settings do not name
          MaxSettings  \* bound: POSTs of transmission settings

ConstantsAssumption == DOMAIN Default = {"classes", "value"} /\ MaxSettings \in Nat

Updater == {"main_loop", "FCGI"}
Zero == [c \in Range(Class) |-> [min |-> 0, average |-> 0, max |-> 0]]

VARIABLES
  g_occupancy,         \* areas in the order of their first sample: [scenario, has_sample, sample]
  g_occupancy_publish, \* the table: the selection of the areas it names
  status,              \* the object occupancy.areas
  updater,             \* per thread: where it is, the areas it built
  loading,             \* the table that FCGI is filling in
  settings,            \* bound: POSTs so far
  crossed              \* history: the stored areas were overtaken by newer ones

vars == <<g_occupancy, g_occupancy_publish, status, updater, loading, settings, crossed>>

\* behind: whether another thread built its areas later, or has also stored them.
Ready == [at |-> "idle", areas |-> <<>>, behind |-> "no"]

Init ==
  /\ g_occupancy = <<>> /\ g_occupancy_publish = <<>> /\ status = <<>>
  /\ updater = [t \in Updater |-> Ready] /\ loading = <<>> /\ settings = 0 /\ crossed = FALSE
-----------------------------------------------------------------------------
OccupancyState(a, has_sample, s) == [scenario |-> a, has_sample |-> has_sample, sample |-> s]
Known == {g_occupancy[i].scenario : i \in DOMAIN g_occupancy}

\* Find_Or_Create_Occupancy: after the others, if there is room.
WithSample(a, s) ==
  IF a \in Known
  THEN [i \in DOMAIN g_occupancy |->
          IF g_occupancy[i].scenario = a THEN OccupancyState(a, TRUE, s)
          ELSE g_occupancy[i]]
  ELSE Append(g_occupancy, OccupancyState(a, TRUE, s))

Occupancy_Config_For_Scenario(a) ==
  IF a \in DOMAIN g_occupancy_publish THEN g_occupancy_publish[a] ELSE Default

Selected(selection) == SelectSeq(Class, LAMBDA c : c \in selection.classes)

\* The areas as Occupancy_Update_ACAP_Status builds them.
Occupancy_Class_Value(area, class, value) == area.sample[class][value]
AreaStatus(area) ==
  LET selection == Occupancy_Config_For_Scenario(area.scenario)
      classes == Selected(selection) IN
  [scenario |-> area.scenario, hasSample |-> area.has_sample,
   valueType |-> selection.value,
   labels |-> IF ~area.has_sample THEN <<>>
              ELSE [i \in DOMAIN classes |->
                      Occupancy_Class_Value(area, classes[i], selection.value)]]
Areas == [i \in DOMAIN g_occupancy |-> AreaStatus(g_occupancy[i])]

Go(t, point) == updater' = [updater EXCEPT ![t].at = point]

\* The main loop: an interval event replaces the sample.
AfterEvent_NoUpdate == "idle"
AfterEvent == "updating"
Occupancy_Process_AOA_Event(a, s) ==
  /\ updater["main_loop"].at = "idle"
  /\ g_occupancy' = WithSample(a, s) /\ Go("main_loop", AfterEvent)
  /\ UNCHANGED <<g_occupancy_publish, status, loading, settings, crossed>>

\* FCGI: a reset of all data keeps the areas.
Occupancy_Reset_All ==
  /\ updater["FCGI"].at = "idle"
  /\ g_occupancy' = [i \in DOMAIN g_occupancy |->
                       OccupancyState(g_occupancy[i].scenario, FALSE, Zero)]
  /\ Go("FCGI", "updating")
  /\ UNCHANGED <<g_occupancy_publish, status, loading, settings, crossed>>

\* FCGI: the table of the settings, emptied and then filled.
Occupancy_Load_Config(table) ==
  /\ updater["FCGI"].at = "idle" /\ settings < MaxSettings /\ settings' = settings + 1
  /\ g_occupancy_publish' = <<>> /\ loading' = table /\ Go("FCGI", "loading")
  /\ UNCHANGED <<g_occupancy, status, crossed>>
Load_Scenario_Publish_Config ==
  /\ updater["FCGI"].at = "loading"
  /\ g_occupancy_publish' = loading /\ loading' = <<>> /\ Go("FCGI", "updating")
  /\ UNCHANGED <<g_occupancy, status, settings, crossed>>

\* Occupancy_Update_ACAP_Status of thread t: build, then store.  Others is p for t, and
\* what becomes of the areas that the others have built.
Others(t, p, from, to) ==
  [u \in Updater |-> IF u = t THEN p
                     ELSE IF updater[u].at = "built" /\ updater[u].behind = from
                     THEN [updater[u] EXCEPT !.behind = to] ELSE updater[u]]
BuildAreas(t) ==
  /\ updater[t].at = "updating"
  /\ updater' = Others(t, [at |-> "built", areas |-> Areas, behind |-> "no"], "no", "older")
  /\ UNCHANGED <<g_occupancy, g_occupancy_publish, status, loading, settings, crossed>>
ACAP_STATUS_SetObject(t) ==
  /\ updater[t].at = "built"
  /\ status' = updater[t].areas /\ crossed' = (updater[t].behind = "overtaken")
  /\ updater' = Others(t, Ready, "older", "overtaken")
  /\ UNCHANGED <<g_occupancy, g_occupancy_publish, loading, settings>>
-----------------------------------------------------------------------------
(***************************************************************************)
(* The payload and its decoder.                                            *)
(***************************************************************************)

Occupancy_Encode_U8(v) == IF v > 255 THEN 255 ELSE v
Occupancy_Value_Type_Code(v) == CASE v = "min" -> 1 [] v = "average" -> 2 [] OTHER -> 0

\* One block per area of the status that has a sample and labels.
Reported(area) == area.hasSample /\ area.labels # <<>>
Block(area) ==
  <<Len(area.labels), Occupancy_Value_Type_Code(area.valueType)>>
    \o [i \in DOMAIN area.labels |-> Occupancy_Encode_U8(area.labels[i])]
Occupancy_Build_Payload ==
  LET reported == SelectSeq(status, Reported) IN
  FlattenSeq([i \in DOMAIN reported |-> Block(reported[i])])

\* The decoder's list: the known areas, then those only the settings name.
Unknown == SetToSeq(DOMAIN g_occupancy_publish \ Known)
Occupancy_Build_Decoder_Definitions ==
  LET name(i) == IF i <= Len(g_occupancy) THEN g_occupancy[i].scenario
                 ELSE Unknown[i - Len(g_occupancy)] IN
  [i \in 1 .. Len(g_occupancy) + Len(Unknown) |->
     [name |-> name(i), classes |-> Selected(Occupancy_Config_For_Scenario(name(i)))]]

\* decodeOccupancy: the blocks in the order of the list.  What it makes of a
\* payload: per area of the list the labels it reads, or none.
HTTP_Endpoint_translator(bytes) ==
  LET defs == Occupancy_Build_Decoder_Definitions
      start[i \in 1 .. Len(defs) + 1] ==
        IF i = 1 THEN 1
        ELSE IF start[i - 1] + 1 > Len(bytes) THEN start[i - 1]
        ELSE start[i - 1] + 2 + bytes[start[i - 1]]
      block(i) == SubSeq(bytes, start[i] + 2, start[i + 1] - 1) IN
  [i \in DOMAIN defs |-> [name |-> defs[i].name, labels |-> block(i)]]
-----------------------------------------------------------------------------
Event == \E a \in Area, s \in Sample : Occupancy_Process_AOA_Event(a, s)
Settings == \E set \in SUBSET Area : \E table \in [set -> Selection] : Occupancy_Load_Config(table)
Update == \E t \in Updater : BuildAreas(t) \/ ACAP_STATUS_SetObject(t)
Next == Event \/ Occupancy_Reset_All \/ Settings \/ Load_Scenario_Publish_Config \/ Update

Spec == Init /\ [][Next]_vars
-----------------------------------------------------------------------------
Quiescent == \A t \in Updater : updater[t].at = "idle"

\* occupancy.c:369: once no renewal is under way, the status, from which every
\* payload is made, is that of the last samples and settings, torn reads of the
\* table notwithstanding.  The exception is a renewal that stored areas it had
\* built before another renewal stored newer ones (crossed).
StatusCurrent == Quiescent /\ ~crossed => status = Areas

\* aoa/app/main.c:2340: "The payload is repeated per configured occupancy area in
\* the order shown in occupancyScenarios below".  What the decoder served now makes
\* of the payload built now: every area's labels are its own.
DecodedAsReported ==
  Quiescent /\ ~crossed =>
    LET decoded == HTTP_Endpoint_translator(Occupancy_Build_Payload) IN
    \A i \in DOMAIN decoded, j \in DOMAIN status :
      decoded[i].name = status[j].scenario /\ decoded[i].labels # <<>>
        => decoded[i].labels = [k \in DOMAIN status[j].labels |->
                                  Occupancy_Encode_U8(status[j].labels[k])]
=============================================================================
