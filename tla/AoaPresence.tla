---------------------------- MODULE AoaPresence ----------------------------
(***************************************************************************)
(* The Presence Alert of the aoa app (aoa/app/presence.c) and its uplinks  *)
(* (Publish_Presence_To_LoRa in aoa/app/main.c).                           *)
(*                                                                         *)
(* AOA reports threshold crossings of its scenes to the main loop.  An     *)
(* area of a configured scene is active from then on, within its schedule, *)
(* until AOA reports the opposite and twice the trigger delay has passed.  *)
(* Every change makes an uplink pending.  The publish thread looks at time *)
(* and schedule and sends what is pending; the FCGI thread changes the     *)
(* settings, resets everything, and sends on request.  An uplink holds     *)
(* g_presence_publish_mutex from its building to its marking, but not the  *)
(* mutex of the areas: they go on changing while the bridge is asked.      *)
(*                                                                         *)
(* Of g_state_generation an uplink in progress is told apart only whether  *)
(* it is still the one its payload was built from (current).  clear_due is *)
(* the ticks that are left, and 0 of the code is Never.                    *)
(***************************************************************************)
EXTENDS Integers

CONSTANTS Area,        \* the names of Presence scenes, at most PRESENCE_MAX_AREAS
          Delay,       \* the trigger delay of each, in ticks
          MaxSettings  \* bound: POSTs of presence settings

ConstantsAssumption == Delay \in [Area -> Nat] /\ MaxSettings \in Nat

Never == -1

VARIABLES
  areas,      \* the configured areas
  area,       \* per area: what presence.c keeps of it
  g_enabled, g_pending,
  initializing, \* areas that Presence_Initialize_State has yet to look up
  publisher,  \* the uplink under g_presence_publish_mutex
  settings,   \* bound: POSTs so far
  heard,      \* history: the last payload the bridge accepted
  unannounced \* history: settings or a reset dropped or hid a change since

state == <<areas, area, g_enabled, g_pending, initializing>>
history == <<heard, unannounced>>
vars == <<state, publisher, settings, history>>

NewArea == [matched |-> FALSE, known |-> FALSE, aoa_active |-> FALSE, active |-> FALSE,
            clear_due |-> Never, allowed |-> TRUE]
Nothing == [a \in {} |-> FALSE]
Idle == [at |-> "idle", payload |-> Nothing, current |-> FALSE]

Init ==
  /\ areas = Area /\ area = [a \in Area |-> NewArea]
  /\ g_enabled = TRUE /\ g_pending = FALSE /\ initializing = Area
  /\ publisher = Idle /\ settings = 0
  /\ heard = Nothing /\ unannounced = TRUE
-----------------------------------------------------------------------------
Active(set, of) == [a \in set |-> of[a].active]
Overtaken == [publisher EXCEPT !.current = FALSE]

\* Queue_Publish, if changed and enabled.
Queue_Publish(changed) ==
  IF changed /\ g_enabled
  THEN g_pending' = TRUE /\ publisher' = Overtaken
  ELSE UNCHANGED <<g_pending, publisher>>

\* A change while the presence stream is disabled is queued by nobody.
Unqueued(changed) == unannounced' = (unannounced \/ (changed /\ ~g_enabled))

\* Threshold_Scenario_ID, Presence_Process_AOA_Event: an area that is not
\* active stays so without a clear; one whose delay is 0 is cleared at once.
AfterEvent(r, v, delay) ==
  LET clears == ~v /\ r.active /\ delay = 0
      active == IF v THEN r.active \/ r.allowed ELSE r.active /\ ~clears IN
  [r EXCEPT !.known = TRUE, !.aoa_active = v, !.active = active,
            !.clear_due = IF v \/ ~active THEN Never ELSE 2 * delay]

\* AOA reports a change; of an area it has not reported yet, its state.
Reports(a, v) == area[a].known => v # area[a].aoa_active
Presence_Process_AOA_Event(a, v) ==
  /\ a \in areas /\ area[a].matched /\ Reports(a, v)
  /\ LET r == AfterEvent(area[a], v, Delay[a])
         changed == r.active # area[a].active \/ ~area[a].known IN
     /\ area' = [area EXCEPT ![a] = r]
     /\ Queue_Publish(changed) /\ Unqueued(changed)
  /\ UNCHANGED <<areas, g_enabled, initializing, settings, heard>>

\* Presence_Update of one area, but the end of the schedule leaves the clear armed.
Updated_DueLeft(r) ==
  IF ~r.allowed THEN [r EXCEPT !.active = FALSE]
  ELSE IF r.active /\ ~r.aoa_active /\ r.clear_due = 0
       THEN [r EXCEPT !.active = FALSE, !.clear_due = Never]
  ELSE [r EXCEPT !.active = @ \/ r.aoa_active]

\* Presence_Update of one area: its schedule ends, its schedule begins and AOA
\* is active, its retained clear has elapsed.
Updated(r) ==
  IF ~r.allowed THEN IF r.active THEN [r EXCEPT !.active = FALSE, !.clear_due = Never] ELSE r
  ELSE IF r.aoa_active /\ ~r.active THEN [r EXCEPT !.active = TRUE, !.clear_due = Never]
  ELSE IF r.active /\ ~r.aoa_active /\ r.clear_due = 0
       THEN [r EXCEPT !.active = FALSE, !.clear_due = Never]
  ELSE r

\* The publish thread, every second, between its own uplinks.
Presence_Update ==
  /\ area' = [a \in Area |-> IF a \in areas THEN Updated(area[a]) ELSE area[a]]
  /\ LET changed == Active(areas, area') # Active(areas, area) IN
     Queue_Publish(changed) /\ Unqueued(changed)
  /\ UNCHANGED <<areas, g_enabled, initializing, settings, heard>>

Counted(due) == IF due > 0 THEN due - 1 ELSE due
Timed(r, now) == [r EXCEPT !.clear_due = Counted(@), !.allowed = now]
TimePasses ==
  /\ \E now \in [Area -> BOOLEAN] : area' = [a \in Area |-> Timed(area[a], now[a])]
  /\ UNCHANGED <<areas, g_enabled, g_pending, initializing, publisher, settings, history>>
-----------------------------------------------------------------------------
(***************************************************************************)
(* The FCGI thread.                                                        *)
(***************************************************************************)

\* Areas that stay keep their state; outside the schedule they are inactive,
\* and nothing is queued for it.  What was pending is so unless disabled.
Reloaded(a, allowed) ==
  LET r == IF a \in areas THEN area[a] ELSE NewArea IN
  IF allowed THEN [r EXCEPT !.allowed = TRUE]
  ELSE [r EXCEPT !.allowed = FALSE, !.active = FALSE, !.clear_due = Never]

Presence_Load_Config(set, enabled) ==
  /\ initializing = {} /\ settings < MaxSettings /\ settings' = settings + 1
  /\ areas' = set /\ g_enabled' = enabled
  /\ \E allowed \in [Area -> BOOLEAN] :
       area' = [a \in Area |-> IF a \in set THEN Reloaded(a, allowed[a]) ELSE NewArea]
  /\ g_pending' = (g_pending /\ enabled)
  /\ publisher' = Overtaken /\ initializing' = set
  /\ unannounced' = (unannounced \/ g_pending # g_pending'
                       \/ Active(set, area') # Active(areas, area))
  /\ UNCHANGED heard

\* Presence_Initialize_State: the scenario id of an area, if AOA answers and has
\* such a scene.  Until then its events are those of no area.
Presence_Initialize_State(a, found) ==
  /\ a \in initializing /\ initializing' = initializing \ {a}
  /\ area' = [area EXCEPT ![a].matched = @ \/ found]
  /\ UNCHANGED <<areas, g_enabled, g_pending, publisher, settings, history>>

Presence_Reset_All ==
  /\ initializing = {}
  /\ area' = [a \in Area |->
       [NewArea EXCEPT !.matched = area[a].matched, !.allowed = area[a].allowed]]
  /\ g_pending' = FALSE /\ publisher' = Overtaken
  /\ unannounced' = (unannounced \/ g_pending \/ Active(areas, area') # Active(areas, area))
  /\ UNCHANGED <<areas, g_enabled, initializing, settings, heard>>
-----------------------------------------------------------------------------
(***************************************************************************)
(* Uplinks.                                                                *)
(***************************************************************************)

Presence_Should_Publish_OnlyActive ==
  g_enabled /\ g_pending /\ \E a \in areas : area[a].active
Presence_Should_Publish == g_enabled /\ areas # {} /\ g_pending

\* Publish_Presence_To_LoRa up to the payload; a manual publish needs no change.
Presence_Build_Payload ==
  /\ publisher.at = "idle" /\ g_enabled /\ areas # {}
  /\ publisher' = [at |-> "sending", payload |-> Active(areas, area), current |-> TRUE]
  /\ UNCHANGED <<state, settings, history>>
Publish_Thread == Presence_Should_Publish /\ Presence_Build_Payload
HTTP_Endpoint_publish == initializing = {} /\ Presence_Build_Payload

B100_Send_Bytes(accepted) ==
  /\ publisher.at = "sending"
  /\ IF accepted
     THEN heard' = publisher.payload /\ publisher' = [publisher EXCEPT !.at = "accepted"]
     ELSE publisher' = Idle /\ UNCHANGED heard
  /\ UNCHANGED <<state, settings, unannounced>>

\* The pending flag goes only if nothing has changed since the payload was built.
Clears_Always == TRUE
Clears == publisher.current
Presence_Mark_Published ==
  /\ publisher.at = "accepted" /\ publisher' = Idle
  /\ g_pending' = (g_pending /\ ~Clears)
  /\ unannounced' = (unannounced /\ ~publisher.current)
  /\ UNCHANGED <<areas, area, g_enabled, initializing, settings, heard>>
-----------------------------------------------------------------------------
AOA == \E a \in Area, v \in BOOLEAN : Presence_Process_AOA_Event(a, v)
Initialize == \E a \in Area, found \in BOOLEAN : Presence_Initialize_State(a, found)
Next ==
  \/ AOA \/ Presence_Update \/ TimePasses
  \/ \E set \in SUBSET Area, enabled \in BOOLEAN : Presence_Load_Config(set, enabled)
  \/ Initialize \/ Presence_Reset_All
  \/ Publish_Thread \/ HTTP_Endpoint_publish
  \/ \E accepted \in BOOLEAN : B100_Send_Bytes(accepted)
  \/ Presence_Mark_Published

Spec == Init /\ [][Next]_vars
-----------------------------------------------------------------------------
AreaType(due) == [matched : BOOLEAN, known : BOOLEAN, aoa_active : BOOLEAN,
                  active : BOOLEAN, clear_due : due, allowed : BOOLEAN]

\* What a payload says of each area; Nothing before the first one.
Payload == UNION {[set -> BOOLEAN] : set \in SUBSET Area}
PublisherType == [at : {"idle", "sending", "accepted"}, payload : Payload, current : BOOLEAN]

\* The types of the variables.
TypeOK ==
  /\ areas \in SUBSET Area /\ area \in [Area -> AreaType(Nat \cup {Never})]
  /\ g_enabled \in BOOLEAN /\ g_pending \in BOOLEAN /\ initializing \in SUBSET Area
  /\ publisher \in PublisherType /\ heard \in Payload
  /\ settings \in 0 .. MaxSettings /\ unannounced \in BOOLEAN

\* presence.c:389-470: an area that AOA no longer holds active has a clear armed,
\* and only such an area has, whatever order events, schedules, settings and
\* resets come in: no area stays active with nothing left that would clear it.
ClearArmed ==
  \A a \in Area :
    area[a].clear_due # Never <=> area[a].active /\ ~area[a].aoa_active

\* presence.c:129, 508: a network that was told of no pending change knows the
\* state of every area, unless settings or a reset dropped or hid one since
\* (unannounced): a change that falls into an uplink is not taken for sent.
PresenceAnnounced ==
  g_enabled /\ areas # {} /\ ~g_pending /\ ~unannounced => heard = Active(areas, area)

\* A pending change does not wait forever: the flag goes, unless every uplink is
\* overtaken by another change or nothing is left to send.
PendingEnds ==
  []<>(~g_pending \/ areas = {} \/ (publisher.at # "idle" /\ ~publisher.current))
=============================================================================
