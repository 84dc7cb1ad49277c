---------------------------- MODULE RadarReports ----------------------------
(***************************************************************************)
(* The periodic reports of the radar app: the peak occupancy and the speed *)
(* summary of an interval (radar/app/occupancy.c, speed.c) and the way     *)
(* both are published (radar/app/main.c, Publish_*_To_LoRa).               *)
(*                                                                         *)
(* Two threads publish with the same code, the publish thread when a       *)
(* stream is due and the FCGI thread on request.  A publish reads its      *)
(* settings, takes a snapshot under the stream's own mutex, sends it       *)
(* without a lock, and after an accepted send starts the interval again.   *)
(* The radar thread records in between.                                    *)
(*                                                                         *)
(* Speeds are whole km/h.  The flag of a confirmed uplink is the subject   *)
(* of ConfirmedUplinks.                                                    *)
(***************************************************************************)
EXTENDS Integers

CONSTANTS Streams,       \* the use cases that are enabled at first
          Units,         \* "kmh", "mph": the units that can be configured
          SpeedLimit,    \* the limits that can be configured, in km/h
          Speed,         \* the speeds of vehicles
          MaxPayload,    \* the largest value of a payload byte, 255 in the code
          MaxVehicles,   \* bound: vehicles of one interval
          MaxPeak,       \* bound: objects counted in one frame
          MaxChanges     \* bound: settings changes

Stream == {"occupancy", "speed"}
Thread == {"Publish_Thread", "FCGI"}
NoPayload == <<>>

ConstantsAssumption ==
  /\ Streams \subseteq Stream /\ Units \subseteq {"kmh", "mph"} /\ Units # {}
  /\ SpeedLimit \subseteq Nat /\ SpeedLimit # {} /\ Speed \subseteq Nat \ {0}
  /\ MaxPayload \in Nat \ {0} /\ MaxVehicles \in Nat /\ MaxPeak \in Nat /\ MaxChanges \in Nat

VARIABLES
  enabled, unit, limit,    \* g_occupancy_publish_enabled, g_speed_..., g_limit_kmh
  due,                     \* per stream: time(NULL) >= its next publish time
  peak,                    \* g_peak.total of occupancy.c
  interval,                \* g_vehicles, g_speeding, g_maximum, g_minimum, g_sum
  publisher,               \* per thread: where it is, its stream and its payload
  changes

settings == <<enabled, unit, limit>>
vars == <<settings, due, peak, interval, publisher, changes>>

NoVehicles == [vehicles |-> 0, speeding |-> 0, maximum |-> 0, minimum |-> 0, sum |-> 0]
Idle == [at |-> "idle", stream |-> "occupancy", mph |-> FALSE, payload |-> NoPayload]

Init ==
  /\ enabled = Streams /\ unit \in Units /\ limit \in SpeedLimit
  /\ due = {} /\ peak = 0 /\ interval = NoVehicles
  /\ publisher = [t \in Thread |-> Idle]
  /\ changes = 0
-----------------------------------------------------------------------------
(***************************************************************************)
(* What is recorded.                                                       *)
(***************************************************************************)

Occupancy_Update_Current(count) ==
  /\ peak' = IF count > peak THEN count ELSE peak
  /\ UNCHANGED <<settings, due, interval, publisher, changes>>

\* The minimum so far does not count for the first vehicle.
Slowest_NoFirst(v, s) == IF s < v.minimum THEN s ELSE v.minimum
Slowest(v, s) == IF v.vehicles = 0 \/ s < v.minimum THEN s ELSE v.minimum

WithVehicle(v, s) ==
  [vehicles |-> v.vehicles + 1,
   speeding |-> v.speeding + (IF s > limit THEN 1 ELSE 0),
   maximum |-> IF s > v.maximum THEN s ELSE v.maximum,
   minimum |-> Slowest(v, s), sum |-> v.sum + s]

Speed_Record_Vehicle(speed) ==
  /\ interval.vehicles < MaxVehicles
  /\ interval' = WithVehicle(interval, speed)
  /\ UNCHANGED <<settings, due, peak, publisher, changes>>

Record ==
  \/ \E count \in 0 .. MaxPeak : Occupancy_Update_Current(count)
  \/ \E speed \in Speed : Speed_Record_Vehicle(speed)

\* A reset of the radar state by the page or a downlink; Speed is not part of it.
Radar_Reset_State ==
  /\ peak' = 0
  /\ UNCHANGED <<settings, due, interval, publisher, changes>>
-----------------------------------------------------------------------------
(***************************************************************************)
(* What is sent.                                                           *)
(***************************************************************************)

Clamp_Payload_Count_Missing(n) == n
Clamp_Payload_Count(n) == IF n > MaxPayload THEN MaxPayload ELSE n

\* Speed_Encode of the fraction num / den: rounded to the nearest, at most a byte.
Speed_Encode(num, den) == Clamp_Payload_Count((2 * num + den) \div (2 * den))

\* Speed_Convert: one km/h is 0.621371 mph, 621/1000 here.
Converted(num, den, mph) ==
  IF mph THEN Speed_Encode(num * 621, den * 1000) ELSE Speed_Encode(num, den)

Speed_Build_Payload(v, mph) ==
  LET n == IF v.vehicles = 0 THEN 1 ELSE v.vehicles
  IN [vehicles |-> Speed_Encode(v.vehicles, 1), speeding |-> Speed_Encode(v.speeding, 1),
      maximum |-> Converted(v.maximum, 1, mph), average |-> Converted(v.sum, n, mph),
      minimum |-> Converted(v.minimum, 1, mph)]

Build_Selected_Count_Payload(count) == [count |-> Clamp_Payload_Count(count)]

\* The parts of the two streams' state that a publish reads and starts again.
Snapshot(stream, mph) ==
  IF stream = "speed" THEN Speed_Build_Payload(interval, mph)
  ELSE Build_Selected_Count_Payload(peak)

At(t, point) == publisher[t].at = point
Go(t, p) == publisher' = [publisher EXCEPT ![t] = p]

\* Publish_Thread: its streams in turn, each when it is enabled and due.
Publish_Thread_Due(stream) ==
  /\ At("Publish_Thread", "idle") /\ stream \in enabled /\ stream \in due
  /\ Go("Publish_Thread", [Idle EXCEPT !.at = "called", !.stream = stream])
  /\ UNCHANGED <<settings, due, peak, interval, changes>>

\* HTTP_Endpoint_publish and the downlink commands that publish now.
HTTP_Endpoint_publish(stream) ==
  /\ At("FCGI", "idle")
  /\ Go("FCGI", [Idle EXCEPT !.at = "called", !.stream = stream])
  /\ UNCHANGED <<settings, due, peak, interval, changes>>

\* Publish_*_To_LoRa up to the snapshot: disabled means not sent.
Publish_Start(t) ==
  /\ At(t, "called")
  /\ Go(t, IF publisher[t].stream \in enabled
           THEN [publisher[t] EXCEPT !.at = "built", !.mph = (unit = "mph")] ELSE Idle)
  /\ UNCHANGED <<settings, due, peak, interval, changes>>

Publish_Build(t) ==
  /\ At(t, "built")
  /\ Go(t, [publisher[t] EXCEPT !.at = "sending",
                                !.payload = Snapshot(publisher[t].stream, publisher[t].mph)])
  /\ UNCHANGED <<settings, due, peak, interval, changes>>

\* Send_LoRa_Payload: the answer, or none; a send whose answer is lost failed.
Send_LoRa_Payload(t, success) ==
  /\ At(t, "sending")
  /\ Go(t, IF success THEN [Idle EXCEPT !.at = "accepted", !.stream = publisher[t].stream]
           ELSE Idle)
  /\ UNCHANGED <<settings, due, peak, interval, changes>>

\* Occupancy_Mark_Published and Speed_Reset_Interval: the interval starts again,
\* whatever it holds by now.
Mark_Published(t) ==
  /\ At(t, "accepted")
  /\ IF publisher[t].stream = "speed"
     THEN interval' = NoVehicles /\ UNCHANGED peak
     ELSE peak' = 0 /\ UNCHANGED interval
  /\ Go(t, [publisher[t] EXCEPT !.at = "marked"])
  /\ UNCHANGED <<settings, due, changes>>

\* The next publish time, under g_publish_mutex.  The last payload, kept there for
\* the status page, is left out.
Rescheduled_All(stream) == {}
Rescheduled(stream) == due \ {stream}
Publish_Finish(t) ==
  /\ At(t, "marked")
  /\ due' = Rescheduled(publisher[t].stream)
  /\ Go(t, Idle)
  /\ UNCHANGED <<settings, peak, interval, changes>>

Publish(t) ==
  \/ Publish_Start(t) \/ Publish_Build(t) \/ Mark_Published(t) \/ Publish_Finish(t)
  \/ Send_LoRa_Payload(t, TRUE) \/ Send_LoRa_Payload(t, FALSE)
-----------------------------------------------------------------------------
\* A stream's publish time comes.
TimePasses(stream) ==
  /\ stream \notin due /\ due' = due \cup {stream}
  /\ UNCHANGED <<settings, peak, interval, publisher, changes>>

\* Load_Transmission_Config: enabling a stream or another interval length puts
\* off its next publish; the limit is set after the other settings were unlocked.
Load_Transmission_Config ==
  /\ At("FCGI", "idle") /\ changes < MaxChanges /\ changes' = changes + 1
  /\ enabled' \in SUBSET Stream /\ unit' \in Units /\ limit' \in SpeedLimit
  /\ due' \in {due, due \ (enabled' \ enabled), {}}
  /\ UNCHANGED <<peak, interval, publisher>>

Next ==
  \/ Record \/ Radar_Reset_State \/ Load_Transmission_Config
  \/ \E s \in Stream : Publish_Thread_Due(s) \/ HTTP_Endpoint_publish(s) \/ TimePasses(s)
  \/ \E t \in Thread : Publish(t)

Spec == Init /\ [][Next]_vars
-----------------------------------------------------------------------------
Payload ==
  [count : 0 .. MaxPayload] \cup
  [vehicles : 0 .. MaxPayload, speeding : 0 .. MaxPayload, maximum : 0 .. MaxPayload,
   average : 0 .. MaxPayload, minimum : 0 .. MaxPayload]

\* The types of the variables.
TypeOK ==
  /\ enabled \subseteq Stream /\ unit \in Units /\ limit \in SpeedLimit
  /\ due \subseteq Stream /\ peak \in 0 .. MaxPeak /\ changes \in 0 .. MaxChanges
  /\ interval \in [vehicles : 0 .. MaxVehicles, speeding : 0 .. MaxVehicles,
                   maximum : Nat, minimum : Nat, sum : Nat]
  /\ \A t \in Thread :
       /\ publisher[t].at \in {"idle", "called", "built", "sending", "accepted", "marked"}
       /\ publisher[t].stream \in Stream /\ publisher[t].mph \in BOOLEAN
       /\ publisher[t].payload \in Payload \cup {NoPayload}

\* Every speed summary makes sense to its reader, in either unit and after
\* rounding and saturation: no more vehicles speed than were seen, the average lies
\* between the slowest and the fastest, and only an empty interval is all zeroes.
Consistent(p) ==
  /\ p.speeding <= p.vehicles /\ p.minimum <= p.average /\ p.average <= p.maximum
  /\ p.vehicles = 0 <=> p.minimum = 0
SummariesConsistent ==
  \A t \in Thread : publisher[t].payload # NoPayload /\ publisher[t].stream = "speed"
                      => Consistent(publisher[t].payload)

\* A stream that stays enabled is published again and again, whatever the other
\* stream, the other publisher and the settings do.
PublishRecurs ==
  \A s \in Stream :
    <>[](s \in enabled) =>
      []<>(\E t \in Thread : At(t, "marked") /\ publisher[t].stream = s)
=============================================================================
