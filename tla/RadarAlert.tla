----------------------------- MODULE RadarAlert -----------------------------
(***************************************************************************)
(* The Detection Alert of the radar app: the alert that detections raise   *)
(* and their absence clears (radar/app/alert.c), and how the network       *)
(* learns of it (Publish_Alert_To_LoRa in radar/app/main.c).               *)
(*                                                                         *)
(* The radar thread updates the alert with every list of detections.  The  *)
(* publish thread asks every second whether to send, the FCGI thread sends *)
(* on request; each decides, builds the payload and marks it published in  *)
(* steps of their own, the mutex of alert.c being released in between.     *)
(*                                                                         *)
(* A time in the code is an age here, the ticks since then, and 0 there is *)
(* Never.  An age stops at the limit it is compared with.                  *)
(***************************************************************************)
EXTENDS Integers

CONSTANTS transition_seconds,       \* 2 to 20 s in the code
          active_interval_seconds,  \* 60 to 300 s
          heartbeat_minutes,        \* 5 to 60 min
          MaxCount,                 \* bound: objects of one frame
          Thread                    \* the publishers: Publish_Thread, FCGI

Never == -1
Between(v, lo, hi) == IF v < lo THEN lo ELSE IF v > hi THEN hi ELSE v

ConstantsAssumption ==
  /\ transition_seconds \in Nat /\ active_interval_seconds \in Nat /\ heartbeat_minutes \in Nat
  /\ MaxCount \in Nat \ {0} /\ Thread \subseteq {"Publish_Thread", "FCGI"}

VARIABLES
  g_active, g_active_max, g_pending, g_inactive_pending,
  g_detect_since, g_clear_since,                \* g_detecting: the former is not Never
  g_last_active_publish_time, g_last_heartbeat_time,
  allowed,   \* Schedule_Allows(now)
  publisher, \* per thread: where it is, what it decided and built
  heard,     \* history: the last payload the bridge accepted
  crossed    \* history: that payload was overtaken, or outlived what it reports

ages == <<g_detect_since, g_clear_since, g_last_active_publish_time, g_last_heartbeat_time>>
alert == <<g_active, g_active_max, g_pending, g_inactive_pending>>
vars == <<alert, ages, allowed, publisher, heard, crossed>>

Idle == [at |-> "idle", heartbeat |-> FALSE, payload |-> 0, crossed |-> FALSE]

Init ==
  /\ g_active = FALSE /\ g_active_max = 0 /\ g_pending = FALSE /\ g_inactive_pending = FALSE
  /\ g_detect_since = Never /\ g_clear_since = Never
  /\ g_last_active_publish_time = Never /\ g_last_heartbeat_time = Never
  /\ allowed \in BOOLEAN
  /\ publisher = [t \in Thread |-> Idle]
  /\ heard = 0 /\ crossed = FALSE
-----------------------------------------------------------------------------
(***************************************************************************)
(* The alert.                                                              *)
(***************************************************************************)

\* Outside the schedule: no alert, and the network is told if there was one.
Quiet(inactive_pending) ==
  /\ g_active' = FALSE /\ g_active_max' = 0 /\ g_pending' = FALSE
  /\ g_detect_since' = Never /\ g_clear_since' = Never
  /\ g_inactive_pending' = inactive_pending

\* Detections: active once they have lasted.  The maximum starts over with it.
Activates == ~g_active /\ g_detect_since >= transition_seconds
Detected(count) ==
  /\ g_clear_since' = Never
  /\ g_detect_since' = IF g_detect_since = Never THEN 0 ELSE g_detect_since
  /\ g_active' = (g_active \/ Activates) /\ g_pending' = (g_pending \/ Activates)
  /\ g_inactive_pending' = (g_inactive_pending /\ ~Activates)
  /\ g_active_max' = IF ~g_active' THEN g_active_max
                     ELSE IF Activates \/ count > g_active_max THEN count ELSE g_active_max

\* None: inactive once that has lasted.
ClearedAge == IF g_clear_since = Never THEN 0 ELSE g_clear_since
Deactivates == g_active /\ ClearedAge >= transition_seconds
PendingAfterClear_Kept == g_pending
PendingAfterClear == g_pending /\ ~Deactivates
ReportsInactive == g_inactive_pending \/ Deactivates
Clear ==
  /\ g_detect_since' = Never
  /\ g_clear_since' = IF g_active THEN ClearedAge ELSE g_clear_since
  /\ g_active' = (g_active /\ ~Deactivates) /\ g_pending' = PendingAfterClear
  /\ g_inactive_pending' = ReportsInactive
  /\ g_active_max' = IF Deactivates THEN 0 ELSE g_active_max

\* The radar thread, with the detections of a frame.
Alert_Update_Current(count) ==
  /\ IF ~allowed THEN Quiet(g_inactive_pending \/ g_active \/ g_detect_since # Never)
     ELSE IF count > 0 THEN Detected(count) ELSE Clear
  /\ UNCHANGED <<g_last_active_publish_time, g_last_heartbeat_time, allowed, publisher,
                 heard, crossed>>

\* A change of the radar settings, or a reset by the page or a downlink.
Alert_Reset ==
  /\ Quiet(FALSE)
  /\ g_last_active_publish_time' = Never /\ g_last_heartbeat_time' = Never
  /\ UNCHANGED <<allowed, publisher, heard, crossed>>

\* Other publish intervals.
Alert_Reset_Timers ==
  /\ g_last_active_publish_time' = Never /\ g_last_heartbeat_time' = Never
  /\ g_pending' = (g_pending \/ g_active)
  /\ g_inactive_pending' = (g_inactive_pending \/ ~g_active)
  /\ UNCHANGED <<g_active, g_active_max, g_detect_since, g_clear_since, allowed,
                 publisher, heard, crossed>>

\* Another schedule.
Alert_Set_Schedule ==
  /\ allowed' \in BOOLEAN
  /\ IF allowed' THEN UNCHANGED <<alert, g_detect_since, g_clear_since>> ELSE Quiet(TRUE)
  /\ UNCHANGED <<g_last_active_publish_time, g_last_heartbeat_time, publisher, heard, crossed>>

Older(age, limit) == IF age = Never THEN Never ELSE Between(age + 1, 0, limit)
TimePasses ==
  /\ g_detect_since' = Older(g_detect_since, transition_seconds)
  /\ g_clear_since' = Older(g_clear_since, transition_seconds)
  /\ g_last_active_publish_time' = Older(g_last_active_publish_time, active_interval_seconds)
  /\ g_last_heartbeat_time' = Older(g_last_heartbeat_time, heartbeat_minutes)
  /\ allowed' \in BOOLEAN
  /\ UNCHANGED <<alert, publisher, heard, crossed>>
-----------------------------------------------------------------------------
(***************************************************************************)
(* Publishing.                                                             *)
(***************************************************************************)

HeartbeatDue_Once == g_inactive_pending \/ g_last_heartbeat_time = Never
HeartbeatDue ==
  \/ g_inactive_pending \/ g_last_heartbeat_time = Never
  \/ g_last_heartbeat_time >= heartbeat_minutes
ActiveDue ==
  /\ g_active_max > 0
  /\ \/ g_pending \/ g_last_active_publish_time = Never
     \/ g_last_active_publish_time >= active_interval_seconds
Alert_Should_Publish == IF g_active THEN ActiveDue ELSE HeartbeatDue

\* Whether the time that the status page gives for the next uplink has come.
Alert_Next_Publish_Time_Now_Timers ==
  IF g_active THEN g_last_active_publish_time \in {Never, active_interval_seconds}
  ELSE g_last_heartbeat_time \in {Never, heartbeat_minutes}
Alert_Next_Publish_Time_Now ==
  IF g_active
  THEN \/ g_pending /\ g_active_max > 0
       \/ g_last_active_publish_time \in {Never, active_interval_seconds}
  ELSE g_inactive_pending \/ g_last_heartbeat_time \in {Never, heartbeat_minutes}

At(t, point) == publisher[t].at = point
Go(t, p) == publisher' = [publisher EXCEPT ![t] = p]

\* The publish thread decides, the FCGI thread publishes what the alert says.
Decide(t) ==
  /\ At(t, "idle") /\ (t = "Publish_Thread" => Alert_Should_Publish)
  /\ Go(t, [Idle EXCEPT !.at = "decided", !.heartbeat = ~g_active])
  /\ UNCHANGED <<alert, ages, allowed, heard, crossed>>

\* Alert_Publish_Counts: the maximum as it is by now.
Build(t) ==
  /\ At(t, "decided")
  /\ LET payload == IF publisher[t].heartbeat THEN 0 ELSE g_active_max
     IN Go(t, [publisher[t] EXCEPT !.at = "sending", !.payload = payload,
                 !.crossed = @ \/ (payload = 0 /\ ~publisher[t].heartbeat)])
  /\ UNCHANGED <<alert, ages, allowed, heard, crossed>>

\* An accepted send and its marking cross the uplink of another thread that is
\* under way: what that one decided or will mark is older.
Crossing(t, p) ==
  [u \in Thread |-> IF u = t THEN p ELSE IF At(u, "idle") THEN publisher[u]
                    ELSE [publisher[u] EXCEPT !.crossed = TRUE]]

Send_LoRa_Payload_Accepted(t) ==
  /\ At(t, "sending")
  /\ heard' = publisher[t].payload /\ crossed' = publisher[t].crossed
  /\ publisher' = Crossing(t, [publisher[t] EXCEPT !.at = "accepted", !.payload = 0])
  /\ UNCHANGED <<alert, ages, allowed>>

Send_LoRa_Payload_Refused(t) ==
  /\ At(t, "sending") /\ Go(t, Idle)
  /\ UNCHANGED <<alert, ages, allowed, heard, crossed>>

ClearsPending_Both(heartbeat) == TRUE
ClearsPending(heartbeat) == ~heartbeat
Alert_Mark_Published(t) ==
  /\ At(t, "accepted")
  /\ g_pending' = (g_pending /\ ~ClearsPending(publisher[t].heartbeat))
  /\ IF publisher[t].heartbeat
     THEN /\ g_last_heartbeat_time' = 0 /\ g_inactive_pending' = FALSE
          /\ UNCHANGED <<g_active_max, g_last_active_publish_time>>
     ELSE /\ g_active_max' = 0 /\ g_last_active_publish_time' = 0
          /\ UNCHANGED <<g_inactive_pending, g_last_heartbeat_time>>
  /\ crossed' = (crossed \/ publisher[t].crossed)
  /\ publisher' = Crossing(t, Idle)
  /\ UNCHANGED <<g_active, g_detect_since, g_clear_since, allowed, heard>>

Publish_Alert_To_LoRa(t) ==
  \/ Build(t) \/ Send_LoRa_Payload_Accepted(t) \/ Send_LoRa_Payload_Refused(t)
  \/ Alert_Mark_Published(t)

Settings_Change == Alert_Reset \/ Alert_Reset_Timers \/ Alert_Set_Schedule
Frame == \E count \in 0 .. MaxCount : Alert_Update_Current(count)

Next ==
  \/ Frame \/ Settings_Change \/ TimePasses
  \/ \E t \in Thread : Decide(t) \/ Publish_Alert_To_LoRa(t)

Spec == Init /\ [][Next]_vars
-----------------------------------------------------------------------------
\* The types of the variables.
TypeOK ==
  /\ g_active \in BOOLEAN /\ g_active_max \in 0 .. MaxCount
  /\ g_pending \in BOOLEAN /\ g_inactive_pending \in BOOLEAN
  /\ g_detect_since \in Never .. transition_seconds
  /\ g_clear_since \in Never .. transition_seconds
  /\ g_last_active_publish_time \in Never .. active_interval_seconds
  /\ g_last_heartbeat_time \in Never .. heartbeat_minutes
  /\ allowed \in BOOLEAN /\ heard \in 0 .. MaxCount /\ crossed \in BOOLEAN
  /\ \A t \in Thread :
       /\ publisher[t].at \in {"idle", "decided", "sending", "accepted"}
       /\ publisher[t].payload \in 0 .. MaxCount
       /\ publisher[t].heartbeat \in BOOLEAN /\ publisher[t].crossed \in BOOLEAN

\* No activation and no end of one is forgotten: if the last payload that the network
\* accepted disagrees with the alert, then the right one is pending or was never
\* sent since the timers were reset.  Two uplinks that crossed, and one whose alert
\* ended before its payload was built, are the exceptions.
ChangeAnnounced ==
  (\A t \in Thread : At(t, "idle")) /\ ~crossed /\ (heard > 0) # g_active
    => IF g_active THEN g_pending \/ g_last_active_publish_time = Never
       ELSE g_inactive_pending \/ g_last_heartbeat_time = Never

\* Only an alert is pending, so that its end takes back an activation that was
\* never sent, and a count is kept only for it.
PendingMeansActive == (g_pending => g_active) /\ (~g_active => g_active_max = 0)

\* The status page never announces an uplink for later that is due now.
NextTimeAgrees == Alert_Should_Publish => Alert_Next_Publish_Time_Now

\* However the uplinks cross: while no alert is on for good, the network is told so
\* again and again.  Sends of the publish thread are accepted sometimes.
InactiveHeard == <>[](~g_active) => []<>(heard = 0)
=============================================================================
