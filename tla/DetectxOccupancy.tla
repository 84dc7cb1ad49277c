------------------------- MODULE DetectxOccupancy --------------------------
(***************************************************************************)
(* The occupancy aggregator of detectx (occupancy.c) together with the     *)
(* publishing protocol around it (main.c).                                 *)
(*                                                                         *)
(* Three threads share it.  The GLib main loop records one frame at a time *)
(* (Process_Frame).  The publish thread publishes when the interval has    *)
(* elapsed.  The FCGI thread serves the HTTP requests one after the other: *)
(* it saves settings, and it publishes on demand (the publish endpoint, a  *)
(* port-100 downlink).  A publish takes the aggregator's mutex twice, once *)
(* to detach the interval and once to settle it, and holds no lock while   *)
(* the bridge is sent the uplink: frames, settings and the other publisher *)
(* run in between.                                                         *)
(*                                                                         *)
(* Time is abstracted to intervalElapsed: time(NULL) >= g_next_publish.    *)
(* open and detached are history variables: the counts of the frames that  *)
(* the numbers in maxima and pending stand for.  OccupancyState.current,   *)
(* copied to the status page and read by nothing else, is left out.        *)
(***************************************************************************)
EXTENDS Integers, Sequences

CONSTANTS Label,        \* labels a detection can carry
          ModelLabel,   \* those the active model knows (Model_Label_Is_Valid)
          Selection,    \* label lists a settings file or a POST can hold
          MaxLabels,    \* OCCUPANCY_MAX_LABELS
          MaxCount,     \* bound: detections of one label in one frame
          MaxByte,      \* UINT8_MAX, the largest count a payload byte carries
          MaxToken,     \* ULONG_MAX, after which next_token wraps to 1
          MaxSettings   \* bound: settings changes in a behaviour

ASSUME ConstantsAssumption ==
  /\ ModelLabel \subseteq Label
  /\ Selection \subseteq Seq(Label)
  /\ MaxLabels \in Nat
  /\ MaxCount \in Nat
  /\ MaxByte \in Nat
  /\ MaxToken \in Nat \ {0}
  /\ MaxSettings \in Nat

VARIABLES
  labels, maxima, pending, last_published,            \* OccupancyState
  next_token, pending_token, publish_in_flight,
  g_publish_enabled, g_selection_valid,               \* main.c
  intervalElapsed,
  pc,         \* where each publisher is in its code
  snapshot,   \* its OccupancyPublishSnapshot (the locals reset out of scope)
  success,    \* what B100_Send_Bytes returned to it
  payload,    \* the uplink of this publish that the bridge took, if any
  request,    \* the label list the FCGI thread is applying
  settings,   \* number of settings changes so far
  open, detached

aggregator == <<labels, maxima, pending, last_published, next_token,
                pending_token, publish_in_flight>>
schedule == <<g_publish_enabled, g_selection_valid, intervalElapsed>>
local == <<pc, snapshot, success, payload>>
history == <<open, detached>>
vars == <<aggregator, schedule, local, request, settings, history>>
-----------------------------------------------------------------------------
Publish_Thread == "Publish_Thread"
FCGI == "FCGI"
Publisher == {Publish_Thread, FCGI}

Count == 1 .. MaxCount
Frame == [Label -> 0 .. MaxCount]
Zero == [l \in Label |-> 0]
NoFrames == [l \in Label |-> {}]

Selected(list) == {list[i] : i \in DOMAIN list}

Labels_Are_Valid(list) ==
  /\ Len(list) \in 1 .. MaxLabels
  /\ \A i \in DOMAIN list : list[i] \in ModelLabel
  /\ \A i, j \in DOMAIN list : i # j => list[i] # list[j]

\* The label list the aggregator may hold: none, or a valid selection.
Configured == {<<>>} \cup {list \in Selection : Labels_Are_Valid(list)}

Larger(a, b) == IF a > b THEN a ELSE b

Clamp_Truncates(n) == n % (MaxByte + 1)
Clamp(n) == IF n > MaxByte THEN MaxByte ELSE n

\* A payload: one byte per selected label, in the order of the selection.
Occupancy_Build_Payload(s) == [i \in DOMAIN s.labels |-> Clamp(s.maxima[s.labels[i]])]

NextToken_NoWrap(t) == t + 1
NextToken_WrapsToZero(t) == IF t = MaxToken THEN 0 ELSE t + 1
NextToken(t) == IF t = MaxToken THEN 1 ELSE t + 1

Snapshot == [token : 0 .. MaxToken, labels : Configured, maxima : Frame]
NoSnapshot == [token |-> 0, labels |-> <<>>, maxima |-> Zero]

\* p is between Occupancy_Begin_Publish and Occupancy_Finish_Publish.
Publishing(p) == pc[p] \in {"sending", "answered"}

\* The promise of README.md:16, over the same frames.
Interval == INSTANCE OccupancyInterval WITH shown <- last_published

\* The uplink of p belongs to the interval the aggregator holds in flight.
Owns(p) == Publishing(p) /\ publish_in_flight /\ snapshot[p].token = pending_token
-----------------------------------------------------------------------------
\* main() has run Configure_Occupancy(..., initial = 1) before any thread starts.
Init ==
  /\ \E list \in Selection :
       /\ g_selection_valid = Labels_Are_Valid(list)
       /\ labels = IF Labels_Are_Valid(list) THEN list ELSE <<>>
  /\ g_publish_enabled \in BOOLEAN
  /\ intervalElapsed = FALSE
  /\ maxima = Zero /\ pending = Zero /\ last_published = Zero
  /\ next_token = 1 /\ pending_token = 0 /\ publish_in_flight = FALSE
  /\ pc = [p \in Publisher |-> "idle"]
  /\ snapshot = [p \in Publisher |-> NoSnapshot]
  /\ success = [p \in Publisher |-> FALSE]
  /\ payload = [p \in Publisher |-> <<>>]
  /\ request = <<>>
  /\ settings = 0
  /\ open = NoFrames /\ detached = NoFrames

(***************************************************************************)
(* The main loop and the clock.                                            *)
(***************************************************************************)
Occupancy_Record_Frame(frame) ==
  /\ maxima' = [l \in Label |-> IF l \in Selected(labels)
                                THEN Larger(maxima[l], frame[l]) ELSE maxima[l]]
  /\ open' = [l \in Label |-> IF l \in Selected(labels)
                              THEN open[l] \cup ({frame[l]} \cap Count) ELSE open[l]]
  /\ UNCHANGED <<labels, pending, last_published, next_token, pending_token,
                 publish_in_flight, schedule, local, request, settings, detached>>

IntervalElapses ==
  /\ ~intervalElapsed
  /\ intervalElapsed' = TRUE
  /\ UNCHANGED <<aggregator, g_publish_enabled, g_selection_valid, local, request,
                 settings, history>>

(***************************************************************************)
(* Settings, applied by the FCGI thread.                                   *)
(***************************************************************************)

\* A POST of the transmission group: the first locked section of
\* Configure_Occupancy.  rescheduled says whether the interval differs.
Configure_Occupancy(list, enabled, rescheduled) ==
  /\ settings < MaxSettings
  /\ pc[FCGI] = "idle"
  /\ settings' = settings + 1
  /\ g_publish_enabled' = enabled
  /\ g_selection_valid' = Labels_Are_Valid(list)
  /\ intervalElapsed' = (intervalElapsed /\ ~rescheduled /\ ~(enabled /\ ~g_publish_enabled))
  /\ \/ /\ Labels_Are_Valid(list)
        /\ request' = list
        /\ pc' = [pc EXCEPT ![FCGI] = "configure"]
     \/ /\ ~Labels_Are_Valid(list)
        /\ UNCHANGED <<pc, request>>
  /\ UNCHANGED <<aggregator, snapshot, success, payload, history>>

\* A new selection forgets everything but next_token.
Restart_KeepsSlot(list) ==
  /\ labels' = list
  /\ maxima' = Zero /\ pending' = Zero /\ last_published' = Zero
  /\ open' = NoFrames /\ detached' = NoFrames
  /\ UNCHANGED <<next_token, pending_token, publish_in_flight>>
Restart(list) ==
  /\ labels' = list
  /\ maxima' = Zero /\ pending' = Zero /\ last_published' = Zero
  /\ pending_token' = 0 /\ publish_in_flight' = FALSE
  /\ open' = NoFrames /\ detached' = NoFrames
  /\ UNCHANGED next_token

\* The rest of Configure_Occupancy: a list that differs restarts the aggregator,
\* whatever a publisher has in flight.
Occupancy_Configure ==
  /\ pc[FCGI] = "configure"
  /\ pc' = [pc EXCEPT ![FCGI] = "idle"]
  /\ request' = <<>>
  /\ \/ /\ request = labels
        /\ UNCHANGED <<aggregator, intervalElapsed, history>>
     \/ /\ request # labels
        /\ Restart(request)
        /\ intervalElapsed' = FALSE
  /\ UNCHANGED <<g_publish_enabled, g_selection_valid, snapshot, success, payload,
                 settings>>

\* A port-110 downlink that sets the interval.
B100_Downlink_Handler_Interval ==
  /\ settings < MaxSettings
  /\ pc[FCGI] = "idle"
  /\ settings' = settings + 1
  /\ intervalElapsed' = FALSE
  /\ UNCHANGED <<aggregator, g_publish_enabled, g_selection_valid, local, request, history>>

(***************************************************************************)
(* Publish_Occupancy, run by either publisher.                             *)
(***************************************************************************)

\* Publish_Thread's own test of the schedule, under g_publish_mutex.
Publish_Thread_Due ==
  /\ pc[Publish_Thread] = "idle"
  /\ g_publish_enabled /\ g_selection_valid /\ intervalElapsed
  /\ pc' = [pc EXCEPT ![Publish_Thread] = "called"]
  /\ UNCHANGED <<aggregator, schedule, snapshot, success, payload, request, settings, history>>

\* The publish endpoint or a port-100 downlink: force = 1.
Endpoint_Publish ==
  /\ pc[FCGI] = "idle"
  /\ pc' = [pc EXCEPT ![FCGI] = "called"]
  /\ UNCHANGED <<aggregator, schedule, snapshot, success, payload, request, settings, history>>

Publish_Allowed(p) ==
  /\ pc[p] = "called"
  /\ LET allowed == g_selection_valid /\ (p = FCGI \/ g_publish_enabled) IN
       pc' = [pc EXCEPT ![p] = IF allowed THEN "begin" ELSE "idle"]
  /\ UNCHANGED <<aggregator, schedule, snapshot, success, payload, request, settings, history>>

\* An unsigned long does not come round while one request to the bridge, at most
\* 30 seconds, is outstanding.
TokenWindow(p) == \A q \in Publisher \ {p} : Publishing(q) => snapshot[q].token # next_token

CanBegin_Unguarded == labels # <<>>
CanBegin == labels # <<>> /\ ~publish_in_flight

Occupancy_Begin_Publish(p) ==
  /\ pc[p] = "begin"
  /\ \/ /\ ~CanBegin
        /\ pc' = [pc EXCEPT ![p] = "idle"]
        /\ UNCHANGED <<aggregator, snapshot, history>>
     \/ /\ CanBegin
        /\ TokenWindow(p)
        /\ pc' = [pc EXCEPT ![p] = "sending"]
        /\ snapshot' = [snapshot EXCEPT ![p] =
                          [token |-> next_token, labels |-> labels, maxima |-> maxima]]
        /\ next_token' = NextToken(next_token)
        /\ pending_token' = next_token
        /\ publish_in_flight' = TRUE
        /\ pending' = maxima
        /\ maxima' = Zero
        /\ detached' = open /\ open' = NoFrames
        /\ UNCHANGED <<labels, last_published>>
  /\ UNCHANGED <<schedule, success, payload, request, settings>>

\* The bridge takes the uplink or not; if it does, its answer may still be lost.
B100_Send_Bytes(p, taken, answered) ==
  /\ pc[p] = "sending"
  /\ pc' = [pc EXCEPT ![p] = "answered"]
  /\ payload' = [payload EXCEPT ![p] = IF taken THEN Occupancy_Build_Payload(snapshot[p])
                                                ELSE <<>>]
  /\ success' = [success EXCEPT ![p] = taken /\ answered]
  /\ UNCHANGED <<aggregator, schedule, snapshot, request, settings, history>>

\* Does the answer of p belong to the publish in flight?
Answers_AnyToken(p) == publish_in_flight
Answers_SuccessOnly(p) ==
  success[p] /\ publish_in_flight /\ snapshot[p].token # 0 /\ snapshot[p].token = pending_token
Answers(p) ==
  publish_in_flight /\ snapshot[p].token # 0 /\ snapshot[p].token = pending_token

\* The peak a failed publish gives back to the open interval.
Merged_Overwrites(l) == pending[l]
Merged(l) == Larger(pending[l], maxima[l])

Occupancy_Finish_Publish(p) ==
  /\ pc[p] = "answered"
  /\ pc' = [pc EXCEPT ![p] = IF success[p] THEN "published" ELSE "idle"]
  /\ snapshot' = [snapshot EXCEPT ![p] = NoSnapshot]
  /\ success' = [success EXCEPT ![p] = FALSE]
  /\ payload' = [payload EXCEPT ![p] = <<>>]
  /\ \/ /\ ~publish_in_flight \/ snapshot[p].token # pending_token
        /\ UNCHANGED <<aggregator, history>>
     \/ /\ Answers(p)
        /\ \/ /\ success[p]
              /\ last_published' = pending
              /\ UNCHANGED <<maxima, open>>
           \/ /\ ~success[p]
              /\ maxima' = [l \in Label |-> Merged(l)]
              /\ open' = [l \in Label |-> open[l] \cup detached[l]]
              /\ UNCHANGED last_published
        /\ pending' = Zero
        /\ pending_token' = 0
        /\ publish_in_flight' = FALSE
        /\ detached' = NoFrames
        /\ UNCHANGED <<labels, next_token>>
  /\ UNCHANGED <<schedule, request, settings>>

\* A successful publish starts the next interval, even if its answer was stale.
Reschedule(p) ==
  /\ pc[p] = "published"
  /\ pc' = [pc EXCEPT ![p] = "idle"]
  /\ intervalElapsed' = FALSE
  /\ UNCHANGED <<aggregator, g_publish_enabled, g_selection_valid, snapshot, success,
                 payload, request, settings, history>>
-----------------------------------------------------------------------------
Publish_Occupancy(p) ==
  \/ Publish_Allowed(p)
  \/ Occupancy_Begin_Publish(p)
  \/ \E taken, answered \in BOOLEAN : B100_Send_Bytes(p, taken, answered)
  \/ Occupancy_Finish_Publish(p)
  \/ Reschedule(p)

Next ==
  \/ \E frame \in Frame : Occupancy_Record_Frame(frame)
  \/ IntervalElapses
  \/ \E list \in Selection, enabled, rescheduled \in BOOLEAN :
       Configure_Occupancy(list, enabled, rescheduled)
  \/ Occupancy_Configure
  \/ B100_Downlink_Handler_Interval
  \/ Publish_Thread_Due
  \/ Endpoint_Publish
  \/ \E p \in Publisher : Publish_Occupancy(p)

Spec == Init /\ [][Next]_vars

(***************************************************************************)
(* The threads keep running (weak fairness on every step they can take),   *)
(* time passes, and the bridge does not refuse a publisher for ever.       *)
(* Frames, settings and manual publishes are the environment's choice.     *)
(***************************************************************************)
BridgeFairness ==
  \A p \in Publisher : SF_vars(B100_Send_Bytes(p, TRUE, TRUE))

Fairness ==
  /\ WF_vars(IntervalElapses)
  /\ WF_vars(Occupancy_Configure)
  /\ WF_vars(Publish_Thread_Due)
  /\ \A p \in Publisher : WF_vars(Publish_Occupancy(p))

FairSpec == Spec /\ Fairness /\ BridgeFairness
-----------------------------------------------------------------------------
ProgramPoint == {"idle", "configure", "called", "begin", "sending", "answered", "published"}

TypeOK ==
  /\ labels \in Configured
  /\ maxima \in Frame /\ pending \in Frame /\ last_published \in Frame
  /\ next_token \in 1 .. MaxToken /\ pending_token \in 0 .. MaxToken
  /\ publish_in_flight \in BOOLEAN
  /\ g_publish_enabled \in BOOLEAN /\ g_selection_valid \in BOOLEAN
  /\ intervalElapsed \in BOOLEAN
  /\ pc \in [Publisher -> ProgramPoint]
  /\ snapshot \in [Publisher -> Snapshot]
  /\ success \in [Publisher -> BOOLEAN]
  /\ payload \in [Publisher -> Seq(0 .. MaxByte)]
  /\ request \in Configured
  /\ settings \in 0 .. MaxSettings
  /\ open \in [Label -> SUBSET Count] /\ detached \in [Label -> SUBSET Count]

\* The interval the aggregator detached is held by exactly one publisher, and
\* that publisher's snapshot is the one it detached: a slot is never left to
\* nobody, and never shared when the labels change during a send
\* (occupancy.c Begin/Finish, main.c:383-389).
OneOwner ==
  /\ publish_in_flight =>
       /\ pending_token # 0
       /\ \E p \in Publisher :
            /\ Owns(p)
            /\ snapshot[p].labels = labels
            /\ snapshot[p].maxima = pending
            /\ \A q \in Publisher : Owns(q) => q = p
  /\ ~publish_in_flight => pending_token = 0 /\ pending = Zero
SlotOwned == TypeOK /\ OneOwner

\* The numbers stand for the frames: maxima is the peak of the open interval and
\* pending the peak of the detached one, through every detach, merge and restart
\* (occupancy.c:80, 117-122, 134-141).
PeakExact ==
  \A l \in Label : /\ Interval!IsPeak(maxima[l], open[l])
                   /\ Interval!IsPeak(pending[l], detached[l])

\* Detectx keeps the promise of README.md:16: frames leave the account only with
\* an acknowledged uplink or a new label selection.
ImplementsInterval == Interval!Spec

\* The peak shown as last published is one the bridge acknowledged, label for label
\* and saturated, not wrapped, at a byte; never that of a publish the answer does
\* not belong to (occupancy.c:127-139, 155-158).
ShownWasSent ==
  [][last_published' # last_published =>
       \/ labels' # labels
       \/ \E p \in Publisher :
            /\ pc[p] = "answered" /\ success[p]
            /\ Len(payload[p]) = Len(labels)
            /\ \A i \in DOMAIN labels :
                 LET peak == last_published'[labels[i]] IN
                   \/ payload[p][i] = peak
                   \/ payload[p][i] = MaxByte /\ peak > MaxByte]_vars

\* Every publish is settled: a refused, failed or stale one never keeps the slot
\* (occupancy.c:105, 129, 142-143; main.c:389).
SlotReleased == publish_in_flight ~> ~publish_in_flight

\* While publishing stays enabled with a valid selection, uplinks keep being
\* acknowledged and settled, whatever failed before (main.c:401-411).
PublishRecurs ==
  <>[](g_publish_enabled /\ g_selection_valid) =>
    []<><<\E p \in Publisher : Owns(p) /\ success[p] /\ Occupancy_Finish_Publish(p)>>_vars
=============================================================================
