---------------------------- MODULE AoaCounting ----------------------------
(***************************************************************************)
(* The counting stream of the aoa app (aoa/app/counter.c and its uplinks   *)
(* in aoa/app/main.c).                                                     *)
(*                                                                         *)
(* AOA accumulates crossings per scenario, reports the sum with an event   *)
(* at each, and starts from 0 when it restarts.  The app keeps per         *)
(* scenario the last sum it saw, the reference, which it publishes, and    *)
(* adds what the sum has grown by to a total of its own, which it shows    *)
(* and saves.  A counter without a reference, after a start or a change by *)
(* the operator, takes the next sum as reference, and so does one that     *)
(* sees a smaller sum.                                                     *)
(*                                                                         *)
(* The events come to the main loop, in order.  A publisher (publish       *)
(* thread, or FCGI for a manual publish) that finds a reference missing    *)
(* asks AOA for the sums of all counters, one request each, and processes  *)
(* each answer as if it were an event: it may overtake events and be       *)
(* overtaken by them.                                                      *)
(*                                                                         *)
(* One class stands for the six; all are selected for the uplink.          *)
(***************************************************************************)
EXTENDS Integers, Sequences, FiniteSets, Functions

CONSTANTS Scenario,   \* names of crossline scenarios
          Thread,     \* the publishers: Publish_Thread, FCGI
          MaxItems,   \* COUNTER_MAX_ITEMS, 10 in the code
          MaxCount,   \* bound: crossings of a scenario
          MaxEvents,  \* bound: events under way
          MaxChanges  \* bound: settings, resets, deletions, restarts, scenarios gone

ConstantsAssumption ==
  /\ MaxItems \in Nat /\ MaxCount \in Nat /\ MaxEvents \in Nat
  /\ MaxChanges \in Nat /\ Thread \subseteq {"Publish_Thread", "FCGI"}

None == -1

VARIABLES
  aoa,        \* external: the sum of each scenario that AOA has
  event,      \* events under way: [scenario, sum]
  g_counters, \* per known scenario: [total, reference]
  file,       \* localdata/counters.json: the saved totals
  saving,     \* threads that have yet to save
  g_counting_enabled,
  due,        \* now >= g_next_counting_publish_time
  publisher,  \* per thread: where it is, scenarios to ask for, an answer and whose it is
  changes,    \* bound: see MaxChanges
  crossings,  \* history: per scenario the crossings that its total may hold
  overtaken,  \* history: scenarios whose events and answers have overtaken each other
  latest      \* history: per scenario the sum processed last since the start

counting == <<g_counters, g_counting_enabled, due>>
history == <<crossings, overtaken, latest>>
vars == <<aoa, event, counting, file, saving, publisher, changes, history>>

Ready == [at |-> "idle", ask |-> {}, of |-> {}, sum |-> 0, crossed |-> FALSE]

Init ==
  /\ aoa \in [Scenario -> {0}] /\ event = <<>> /\ g_counters = <<>> /\ file = <<>>
  /\ saving = {} /\ g_counting_enabled = TRUE /\ due = FALSE
  /\ publisher = [t \in Thread |-> Ready] /\ changes = 0
  /\ crossings = [s \in Scenario |-> 0] /\ overtaken = {}
  /\ latest = [s \in Scenario |-> None]
-----------------------------------------------------------------------------
At(t, point) == publisher[t].at = point
Go(t, p) == publisher' = [publisher EXCEPT ![t] = p]

Known == DOMAIN g_counters
New == [total |-> 0, reference |-> None]
With(s, c) == [k \in Known \cup {s} |-> IF k = s THEN c ELSE g_counters[k]]

\* Counting_Process_AOA_Event: what a sum makes of a counter.
Processed_FirstCounted(c, sum) ==
  [total |-> IF c.reference = None THEN c.total + sum
             ELSE IF sum > c.reference THEN c.total + sum - c.reference ELSE c.total,
   reference |-> sum]
Processed(c, sum) ==
  [total |-> IF c.reference # None /\ sum > c.reference THEN c.total + sum - c.reference
             ELSE c.total,
   reference |-> sum]

\* Find_Or_Create_Counter: a new one if there is room.
Find(s) == s \in Known \/ Cardinality(Known) < MaxItems
Process(s, sum) ==
  /\ g_counters' = IF Find(s) THEN With(s, Processed(IF s \in Known THEN g_counters[s] ELSE New, sum))
                   ELSE g_counters
  /\ latest' = IF Find(s) THEN [latest EXCEPT ![s] = sum] ELSE latest

\* The sum that grew is saved, if the last save is a minute old, after the
\* mutex has been released.
Saves(s, minute) == minute /\ s \in Known /\ g_counters'[s].total > g_counters[s].total
Crossed(s) == [t \in Thread |-> IF At(t, "answered") /\ s \in publisher[t].of
                                THEN [publisher[t] EXCEPT !.crossed = TRUE] ELSE publisher[t]]

\* The main loop takes an event.
AOA_Event_Callback(minute) ==
  /\ event # <<>> /\ "main_loop" \notin saving
  /\ LET s == Head(event).scenario IN
     /\ Process(s, Head(event).sum)
     /\ publisher' = Crossed(s)
     /\ saving' = IF Saves(s, minute) THEN saving \cup {"main_loop"} ELSE saving
  /\ event' = Tail(event)
  /\ UNCHANGED <<aoa, g_counting_enabled, due, file, changes, crossings, overtaken>>

\* Counting_Save_To_File, under the mutex.
Totals(counters) == [s \in DOMAIN counters |-> counters[s].total]
Counting_Save_To_File(t) ==
  /\ t \in saving /\ saving' = saving \ {t} /\ file' = Totals(g_counters)
  /\ UNCHANGED <<aoa, event, counting, publisher, changes, history>>
-----------------------------------------------------------------------------
(***************************************************************************)
(* AOA.                                                                    *)
(***************************************************************************)

Crossing(s) ==
  /\ s \in DOMAIN aoa /\ aoa[s] < MaxCount /\ Len(event) < MaxEvents
  /\ aoa' = [aoa EXCEPT ![s] = @ + 1]
  /\ event' = Append(event, [scenario |-> s, sum |-> aoa[s] + 1])
  /\ crossings' = [crossings EXCEPT ![s] = @ + 1]
  /\ UNCHANGED <<counting, file, saving, publisher, changes, overtaken, latest>>

Change == changes < MaxChanges /\ changes' = changes + 1

\* AOA starts over, or the operator removes a scenario from it.
AoaChanges ==
  /\ Change
  /\ \/ aoa' = [s \in DOMAIN aoa |-> 0]
     \/ \E s \in DOMAIN aoa : aoa' = Restrict(aoa, DOMAIN aoa \ {s})
  /\ UNCHANGED <<event, counting, file, saving, publisher, history>>
-----------------------------------------------------------------------------
(***************************************************************************)
(* The FCGI thread: settings, the counters page, a downlink that resets    *)
(* all data.                                                               *)
(***************************************************************************)

\* FCGI handles one request at a time.
Free == "FCGI" \notin saving /\ ("FCGI" \in Thread => publisher["FCGI"].at = "idle")

\* Counting_Load_Config; Counting_Reset_Schedule if enabled or interval changes.
Counting_Load_Config ==
  /\ Free /\ Change
  /\ g_counting_enabled' \in BOOLEAN /\ due' \in {due, ~g_counting_enabled'}
  /\ UNCHANGED <<aoa, event, g_counters, file, saving, publisher, history>>

\* A change of the counters, saved when the mutex has been released.  Their
\* references go with it; the totals start over from what was set, and may hold
\* the crossings whose events are still under way.
UnderWay(s) == Cardinality({i \in DOMAIN event : event[i].scenario = s})
ChangeTotals(counters) ==
  /\ Free /\ Change /\ g_counters' = counters /\ saving' = saving \cup {"FCGI"}
  /\ crossings' = [s \in Scenario |-> IF s \in DOMAIN counters /\ counters[s].reference = None
                                      THEN counters[s].total + UnderWay(s) ELSE crossings[s]]
  /\ overtaken' = {s \in overtaken : s \in DOMAIN counters /\ counters[s].reference # None}
  /\ UNCHANGED <<aoa, event, g_counting_enabled, due, file, publisher, latest>>

\* Handle_Action_OTA, action 2.
Counting_Reset_All == ChangeTotals([s \in Known |-> New])
Counting_Set_Values_From_JSON(s, value) ==
  s \in Known /\ ChangeTotals([g_counters EXCEPT ![s] = [total |-> value, reference |-> None]])
\* Counting_Delete_By_Scenario, and Counting_Sync_With_AOA_List for several.
Counting_Sync_With_AOA_List(keep) == Known \ keep # {} /\ ChangeTotals(Restrict(g_counters, Known \cap keep))

\* A stop saves; a crash does not, and one that falls into a save leaves a file
\* that Counting_Load_From_File cannot read.  No counter has a reference then.
LoadedReference_Kept == 0
LoadedReference == None
Restart ==
  /\ Change
  /\ \/ file' \in {Totals(g_counters), file}
     \/ saving # {} /\ file' = <<>>
  /\ g_counters' = [s \in DOMAIN file' |-> [total |-> file'[s], reference |-> LoadedReference]]
  /\ event' = <<>> /\ saving' = {} /\ due' = FALSE /\ publisher' = [t \in Thread |-> Ready]
  /\ crossings' = [s \in Scenario |-> IF s \in DOMAIN file' THEN file'[s] ELSE 0]
  /\ overtaken' = {} /\ latest' = [s \in Scenario |-> None]
  /\ UNCHANGED <<aoa, g_counting_enabled>>
-----------------------------------------------------------------------------
(***************************************************************************)
(* Uplinks.                                                                *)
(***************************************************************************)

TimePasses ==
  /\ ~due /\ due' = TRUE
  /\ UNCHANGED <<aoa, event, g_counters, g_counting_enabled, file, saving, publisher, changes, history>>

Rest == UNCHANGED <<aoa, event, g_counting_enabled, file, changes>>

Counting_References_Ready == Known # {} /\ \A s \in Known : g_counters[s].reference # None

\* Publish_Counters_To_LoRa of the publish thread, or by HTTP_Endpoint_publish.
\* If a reference is missing it asks AOA for its scenarios (in vain: none).
Publish_Counters_To_LoRa(t) ==
  /\ At(t, "idle") /\ g_counting_enabled /\ (t = "FCGI" => Free) /\ (t = "Publish_Thread" => due)
  /\ \E ask \in {{}, DOMAIN aoa} :
       Go(t, [Ready EXCEPT !.at = "asking", !.ask = IF Counting_References_Ready THEN {} ELSE ask])
  /\ Rest /\ UNCHANGED <<g_counters, due, saving, history>>

\* Initialize_Counting_References: AOA answers for one of those that have a
\* counter, or not.  The answer is processed like an event.
Ask(t, s, answers) ==
  /\ At(t, "asking") /\ t \notin saving /\ s \in publisher[t].ask
  /\ Go(t, IF answers /\ s \in Known \cap DOMAIN aoa
           THEN [publisher[t] EXCEPT !.at = "answered", !.ask = @ \ {s}, !.of = {s}, !.sum = aoa[s]]
           ELSE [publisher[t] EXCEPT !.ask = @ \ {s}])
  /\ Rest /\ UNCHANGED <<g_counters, due, saving, history>>
Answer(t, s, minute) ==
  /\ At(t, "answered") /\ s \in publisher[t].of
  /\ Process(s, publisher[t].sum)
  /\ overtaken' = IF publisher[t].crossed \/ \E i \in DOMAIN event : event[i].scenario = s
                  THEN overtaken \cup {s} ELSE overtaken
  /\ saving' = IF Saves(s, minute) THEN saving \cup {t} ELSE saving
  /\ publisher' = [Crossed(s) EXCEPT ![t] = [Ready EXCEPT !.at = "asking", !.ask = publisher[t].ask]]
  /\ Rest /\ UNCHANGED <<due, crossings>>

\* Counting_Build_Payload refuses if a counter lacks its reference.
Payload_Unready == Known # {}
Payload_Counted == Counting_References_Ready /\ \A s \in Known : g_counters[s].total > 0
Payload == Counting_References_Ready
Counting_Build_Payload(t) ==
  /\ At(t, "asking") /\ publisher[t].ask = {} /\ t \notin saving
  /\ Go(t, IF Payload THEN [Ready EXCEPT !.at = "sending", !.of = Known] ELSE Ready)
  /\ Rest /\ UNCHANGED <<g_counters, due, saving, history>>

\* B100_Send_Bytes; Counting_Mark_Published once it is accepted.
B100_Send_Bytes(t, accepted) ==
  /\ At(t, "sending") /\ Go(t, IF accepted THEN [Ready EXCEPT !.at = "accepted"] ELSE Ready)
  /\ Rest /\ UNCHANGED <<g_counters, due, saving, history>>
Counting_Mark_Published(t) ==
  /\ At(t, "accepted") /\ Go(t, Ready) /\ due' = FALSE
  /\ Rest /\ UNCHANGED <<g_counters, saving, history>>
-----------------------------------------------------------------------------
Operator ==
  \/ Counting_Load_Config \/ Counting_Reset_All
  \/ \E s \in Scenario : Counting_Set_Values_From_JSON(s, MaxCount)
  \/ \E keep \in SUBSET Scenario : Counting_Sync_With_AOA_List(keep)
Publish(t) ==
  \/ Publish_Counters_To_LoRa(t)
  \/ \E s \in Scenario :
       \/ \E answers \in BOOLEAN : Ask(t, s, answers)
       \/ \E minute \in BOOLEAN : Answer(t, s, minute)
  \/ Counting_Build_Payload(t) \/ Counting_Mark_Published(t)
  \/ \E accepted \in BOOLEAN : B100_Send_Bytes(t, accepted)
Next ==
  \/ \E s \in Scenario : Crossing(s)
  \/ \E minute \in BOOLEAN : AOA_Event_Callback(minute)
  \/ \E t \in saving : Counting_Save_To_File(t)
  \/ AoaChanges \/ Operator \/ Restart \/ TimePasses
  \/ \E t \in Thread : Publish(t)

Spec == Init /\ [][Next]_vars
-----------------------------------------------------------------------------
Counter == [total : Nat, reference : Nat \cup {None}]

\* The types of the variables.
TypeOK ==
  /\ DOMAIN aoa \subseteq Scenario /\ \A s \in DOMAIN aoa : aoa[s] \in 0 .. MaxCount
  /\ Len(event) <= MaxEvents
  /\ Known \subseteq Scenario /\ Cardinality(Known) <= MaxItems
  /\ \A s \in Known : g_counters[s] \in Counter
  /\ saving \subseteq Thread \cup {"main_loop", "FCGI"}
  /\ g_counting_enabled \in BOOLEAN /\ due \in BOOLEAN
  /\ \A t \in Thread : publisher[t].at \in {"idle", "asking", "answered", "sending", "accepted"}

\* counter.c:199-289: a total never holds more than the crossings since it was
\* loaded or set, whatever AOA restarts, lost references and answers asked for in
\* between, and however events are delayed.  The exception is an answer that an
\* event of the same scenario overtook, or that overtook one (overtaken).
NoOvercount == \A s \in Known \ overtaken : g_counters[s].total <= crossings[s]

\* aoa/app/main.c:2301: "Immediately after an app/camera restart, Counting publish
\* waits until fresh AOA counter values have been received".  Every reference, and
\* so every value published, is the sum processed last since the start, also of a
\* counter that a restart, a reset or the operator has changed.
PublishesFresh ==
  /\ \A s \in Known : g_counters[s].reference # None => g_counters[s].reference = latest[s]
  /\ \A t \in Thread : At(t, "sending") => \A s \in publisher[t].of : latest[s] # None

\* While it is enabled, counting is published again and again, unless a counter is
\* left of a scenario that AOA does not have.
CountingRecurs == []<>(~due \/ ~g_counting_enabled \/ Known = {} \/ ~(Known \subseteq DOMAIN aoa))
=============================================================================
