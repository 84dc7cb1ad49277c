--------------------------- MODULE BridgeSession ---------------------------
(***************************************************************************)
(* The LoRaWAN session of the LoRA Bridge as an app follows it: the status *)
(* and receive callbacks of common/app/B100.c with the deduplication of    *)
(* downlinks, B100_Join and B100_Restart, and the part of the health       *)
(* thread (aoa/app/main.c, radar/app/main.c) that joins the network again. *)
(*                                                                         *)
(* The FCGI thread handles the callbacks one after the other.  The health  *)
(* thread stores what /info says some time after the bridge said it, and   *)
(* decides on a snapshot.  The answer to a join or a restart is stored     *)
(* after the bridge acted on it.  Each critical section is a step.         *)
(*                                                                         *)
(* The bridge is an external device.  It is reachable and its callbacks    *)
(* are configured (see HealthMonitor), up to the faults counted here.      *)
(***************************************************************************)
EXTENDS Integers, Sequences

CONSTANTS AutoJoinEnable,   \* values of the bridge's own setting autojoin_enable
          AutoJoin,         \* values of the app's setting lorawan.autoJoin
          Fault,            \* the kinds of fault that occur
          MaxFaults,        \* bound: their number
          MaxRequests,      \* bound: joins and restarts of operators and downlinks
          MaxDownlinks,     \* bound: downlinks of one session
          MaxOutbox         \* bound: callbacks the bridge has yet to deliver

ASSUME ConstantsAssumption ==
  /\ AutoJoinEnable \subseteq BOOLEAN /\ AutoJoin \subseteq BOOLEAN
  /\ Fault \subseteq {"power", "session", "join", "callback", "answer"}
  /\ MaxFaults \in Nat /\ MaxRequests \in Nat /\ MaxDownlinks \in Nat
  /\ MaxOutbox \in Nat \ {0, 1}

VARIABLES
  autojoin_enable, autoJoin,  \* the two settings, which nobody changes here
  joined, statusCode,         \* g_status
  last_dispatched_fcntDown,   \* NoCounter while g_downlink_dedup_init is 0
  pc,                         \* where each thread is in its code
  answer,                     \* /info's answer: the bridge has a device address
  status,                     \* the health thread's snapshot of g_status
  net, fcnt, outbox,          \* external: the bridge
  requests, faults,
  announced,                  \* history: of the session a callback told of the last end
  dispatched, cleared, missed, repeated   \* history of the downlinks handled

settings == <<autojoin_enable, autoJoin>>
g_status == <<joined, statusCode>>
locals == <<answer, status>>
bridge == <<net, fcnt, outbox, announced>>
bounds == <<requests, faults>>
history == <<dispatched, cleared, missed, repeated>>
vars == <<settings, g_status, last_dispatched_fcntDown, pc, locals, bridge, bounds, history>>

Health == "Health_Monitor_Thread"
Operator == {"FCGI", "Publish_Thread"}
Thread == Operator \cup {Health}

Counter == 0 .. MaxDownlinks - 1
NoCounter == -1
None == "none"

\* Status codes by what the code does with them: 1; 5; 7, 0, 8, 9, 10 and 11;
\* 4, 14 and 18.
Code == {"RESTARTED", "AUTOJOIN_ENABLED", "JOINED", "NOT_JOINED"}
Restarted == {"RESTARTED", "AUTOJOIN_ENABLED"}

\* External: a callback the bridge POSTs, with a downlink or without.  Some
\* firmware reports a downlink twice; first marks the first of its copies.
Callback == [code : Code \cup {None}, fcnt : Counter \cup {NoCounter},
             first : BOOLEAN, announced : BOOLEAN]
StatusCallback(code) ==
  [code |-> code, fcnt |-> NoCounter, first |-> TRUE, announced |-> TRUE]

Goto(t, point) == pc' = [pc EXCEPT ![t] = point]

Init ==
  /\ autojoin_enable \in AutoJoinEnable /\ autoJoin \in AutoJoin
  /\ joined = FALSE /\ statusCode = None
  /\ last_dispatched_fcntDown = NoCounter
  /\ pc = [t \in Thread |-> IF t = Health THEN "sleeping" ELSE "idle"]
  /\ answer = FALSE /\ status = [joined |-> FALSE, statusCode |-> None]
  /\ net \in {"idle", "joining", "joined"} /\ fcnt = 0 /\ outbox = <<>>
  /\ requests = 0 /\ faults = 0
  /\ dispatched = TRUE /\ cleared = FALSE /\ missed = {} /\ repeated = {}
  /\ announced = TRUE
-----------------------------------------------------------------------------
(***************************************************************************)
(* Callbacks.                                                              *)
(***************************************************************************)

\* What a status code says about the network; any other leaves joined alone.
JoinedAfter(code) ==
  CASE code = "JOINED" -> TRUE
    [] code \in {"RESTARTED", "NOT_JOINED"} -> FALSE
    [] OTHER -> joined

ResetsDedup_Lost(code) == code = "NOT_JOINED"
ResetsDedup(code) == code \in {"RESTARTED", "NOT_JOINED"}

\* The counter a downlink is compared with.
Compared(code) == IF ResetsDedup(code) THEN NoCounter ELSE last_dispatched_fcntDown

Already_Done(message) == message.fcnt = Compared(message.code)

Remembered_Never(message) == Compared(message.code)
Remembered(message) == IF message.fcnt = NoCounter THEN Compared(message.code) ELSE message.fcnt

\* B100_Dispatch_Downlink_From_JSON, with the handler's call as dispatched.
Dispatch(message) ==
  /\ last_dispatched_fcntDown' = Remembered(message)
  /\ IF message.fcnt = NoCounter THEN UNCHANGED history
     ELSE LET before == ~message.first /\ dispatched
              again == ~message.first /\ cleared
          IN /\ dispatched' = (before \/ ~Already_Done(message))
             /\ missed' = IF ~before /\ Already_Done(message)
                          THEN missed \cup {message.announced} ELSE missed
             /\ repeated' = IF before /\ ~Already_Done(message)
                            THEN repeated \cup {again} ELSE repeated
             /\ cleared' = again

\* B100_Process_Status_Callback and B100_Process_Receive_Callback: g_status, the
\* reset of the deduplication, then the downlink.
B100_Process_Callback ==
  /\ pc["FCGI"] = "idle" /\ outbox # <<>>
  /\ LET message == Head(outbox)
     IN /\ joined' = JoinedAfter(message.code)
        /\ statusCode' = IF message.code = None THEN statusCode ELSE message.code
        /\ Dispatch(message)
  /\ outbox' = Tail(outbox)
  /\ UNCHANGED <<settings, pc, locals, net, fcnt, announced, bounds>>
-----------------------------------------------------------------------------
(***************************************************************************)
(* Requests that change the session, by any thread.  The bridge acts on    *)
(* them; 202 is then noted.                                                *)
(***************************************************************************)
HasFault(kind) == kind \in Fault /\ faults < MaxFaults

\* The answer arrives, or it is lost after the bridge has acted.
Answered(t, point, otherwise) ==
  \/ Goto(t, point) /\ UNCHANGED faults
  \/ HasFault("answer") /\ Goto(t, otherwise) /\ faults' = faults + 1

\* A bridge told to join leaves the session it has; one that is joining refuses
\* (http_api.md:795, 500).
Join(t, otherwise) ==
  \/ /\ net # "joining"
     /\ net' = "joining"
     /\ announced' = (announced /\ net # "joined")
     /\ Answered(t, "joined", otherwise)
     /\ UNCHANGED <<fcnt, outbox>>
  \/ /\ net = "joining"
     /\ Goto(t, otherwise)
     /\ UNCHANGED <<bridge, faults>>

\* What the bridge does when it starts again.
Starts ==
  /\ net' = IF autojoin_enable THEN "joining" ELSE "idle"
  /\ outbox' = Append(outbox, StatusCallback(IF autojoin_enable THEN "AUTOJOIN_ENABLED"
                                             ELSE "RESTARTED"))
  /\ announced' = ~autojoin_enable
  /\ UNCHANGED fcnt

Rest(t) == IF t = Health THEN "sleeping" ELSE "idle"

Reset_Downlink_Dedup ==
  /\ last_dispatched_fcntDown' = NoCounter
  /\ cleared' = TRUE
  /\ UNCHANGED <<dispatched, missed, repeated>>

B100_Join_Accepted(t) ==
  /\ pc[t] = "joined"
  /\ Reset_Downlink_Dedup
  /\ Goto(t, Rest(t))
  /\ UNCHANGED <<settings, g_status, locals, bridge, bounds>>

B100_Restart_Accepted(t) ==
  /\ pc[t] = "restarted"
  /\ joined' = FALSE /\ statusCode' = "RESTARTED"
  /\ Reset_Downlink_Dedup
  /\ Goto(t, Rest(t))
  /\ UNCHANGED <<settings, locals, bridge, bounds>>

HTTP_Endpoint_join ==
  /\ pc["FCGI"] = "idle" /\ requests < MaxRequests
  /\ requests' = requests + 1
  /\ Join("FCGI", "idle")
  /\ UNCHANGED <<settings, g_status, last_dispatched_fcntDown, locals, history>>

\* By an operator, or for a downlink by the publish thread after its response.
B100_Restart(t) ==
  /\ pc[t] = "idle" /\ requests < MaxRequests /\ Len(outbox) < MaxOutbox
  /\ requests' = requests + 1
  /\ Starts
  /\ Answered(t, "restarted", "idle")
  /\ UNCHANGED <<settings, g_status, last_dispatched_fcntDown, locals, history>>
-----------------------------------------------------------------------------
(***************************************************************************)
(* The health thread.                                                      *)
(***************************************************************************)

\* GET /info; what it says is stored later.
Health_Info ==
  /\ pc[Health] = "sleeping"
  /\ answer' = (net = "joined")
  /\ Answered(Health, "informed", "stored")
  /\ UNCHANGED <<settings, g_status, last_dispatched_fcntDown, status, bridge, requests,
                 history>>

DevAddr_AnyText == TRUE
DevAddr == answer

B100_Fetch_Device_Info ==
  /\ pc[Health] = "informed"
  /\ joined' = DevAddr
  /\ Goto(Health, "stored")
  /\ UNCHANGED <<settings, statusCode, last_dispatched_fcntDown, locals, bridge, bounds,
                 history>>

B100_Get_Status ==
  /\ pc[Health] = "stored"
  /\ status' = [joined |-> joined, statusCode |-> statusCode]
  /\ answer' = FALSE
  /\ Goto(Health, "requesting")
  /\ UNCHANGED <<settings, g_status, last_dispatched_fcntDown, bridge, bounds, history>>

\* The bridge reports its state in a callback; one that has not joined says that
\* it is ready to join, or not joined.
B100_Request_Status ==
  /\ pc[Health] = "requesting" /\ Len(outbox) < MaxOutbox
  /\ \E code \in IF net = "joined" THEN {"JOINED"} ELSE {"RESTARTED", "NOT_JOINED"} :
       outbox' = Append(outbox, StatusCallback(code))
  /\ announced' = (announced \/ net # "joined")
  /\ Goto(Health, "deciding")
  /\ UNCHANGED <<settings, g_status, last_dispatched_fcntDown, locals, net, fcnt,
                 bounds, history>>

MustJoin_IfRestarted == status.statusCode \in Restarted
MustJoin == status.statusCode \in Restarted \/ (~status.joined /\ autoJoin)

Health_Decide ==
  /\ pc[Health] = "deciding"
  /\ status' = [joined |-> FALSE, statusCode |-> None]
  /\ IF MustJoin THEN Join(Health, "sleeping")
     ELSE Goto(Health, "sleeping") /\ UNCHANGED <<bridge, faults>>
  /\ UNCHANGED <<settings, g_status, last_dispatched_fcntDown, answer, requests,
                 history>>

Health_Monitor_Thread ==
  \/ Health_Info \/ B100_Fetch_Device_Info \/ B100_Get_Status
  \/ B100_Request_Status \/ Health_Decide
  \/ B100_Join_Accepted(Health)
-----------------------------------------------------------------------------
(***************************************************************************)
(* External: the bridge and its network.                                   *)
(***************************************************************************)

\* A join takes seconds on the air; an answer is noted at once.
NetJoins ==
  /\ net = "joining" /\ Len(outbox) < MaxOutbox
  /\ \A t \in Thread : pc[t] \notin {"joined", "restarted"}
  /\ net' = "joined" /\ fcnt' = 0
  /\ outbox' = Append(outbox, StatusCallback("JOINED"))
  /\ UNCHANGED <<settings, g_status, last_dispatched_fcntDown, pc, locals, announced,
                 bounds, history>>

Suffers(kind) == HasFault(kind) /\ faults' = faults + 1

NetFaults ==
  /\ \/ Suffers("power") /\ Len(outbox) < MaxOutbox /\ Starts
     \/ /\ Suffers("session") /\ net = "joined" /\ Len(outbox) < MaxOutbox
        /\ net' = IF autojoin_enable THEN "joining" ELSE "idle"
        /\ outbox' = Append(outbox, StatusCallback("NOT_JOINED"))
        /\ announced' = TRUE
        /\ UNCHANGED fcnt
     \/ /\ Suffers("join") /\ net = "joining" /\ Len(outbox) < MaxOutbox
        /\ net' \in {"joining", "idle"}
        /\ outbox' = Append(outbox, StatusCallback("NOT_JOINED"))
        /\ announced' = TRUE
        /\ UNCHANGED fcnt
  /\ UNCHANGED <<settings, g_status, last_dispatched_fcntDown, pc, locals, requests,
                 history>>

LosesCallback ==
  /\ Suffers("callback") /\ outbox # <<>>
  /\ LET message == Head(outbox)
         told == ~ResetsDedup(message.code)
         new == message.fcnt # NoCounter /\ message.first
     IN /\ outbox' = [i \in 1 .. Len(outbox) - 1 |->
                        [outbox[i + 1] EXCEPT !.announced = @ /\ told]]
        /\ announced' = (announced /\ told)
        /\ dispatched' = (dispatched /\ ~new)
        /\ cleared' = (cleared /\ ~new)
  /\ UNCHANGED <<settings, g_status, last_dispatched_fcntDown, pc, locals, net, fcnt,
                 requests, missed, repeated>>

\* A downlink arrives: a receive callback, a status callback, or both.
Downlink ==
  /\ net = "joined" /\ fcnt \in Counter
  /\ \E codes \in {<<None>>, <<"JOINED">>, <<"JOINED", None>>} :
       /\ Len(outbox) + Len(codes) <= MaxOutbox
       /\ outbox' = outbox \o [i \in 1 .. Len(codes) |->
                                 [code |-> codes[i], fcnt |-> fcnt, first |-> i = 1,
                                  announced |-> announced]]
  /\ fcnt' = fcnt + 1
  /\ UNCHANGED <<settings, g_status, last_dispatched_fcntDown, pc, locals, net,
                 announced, bounds, history>>
-----------------------------------------------------------------------------
Requests ==
  \/ HTTP_Endpoint_join
  \/ \E t \in Operator : B100_Restart(t) \/ B100_Join_Accepted(t) \/ B100_Restart_Accepted(t)

Next ==
  \/ B100_Process_Callback
  \/ Requests
  \/ Health_Monitor_Thread
  \/ NetJoins \/ NetFaults \/ LosesCallback \/ Downlink

Spec == Init /\ [][Next]_vars

\* The health thread sleeps and goes on, a request that began ends, and callbacks
\* are handled.  A bridge that goes on trying joins in the end, and not only in the
\* seconds in which a health cycle is awake.
FairSpec ==
  /\ Spec
  /\ WF_vars(Health_Monitor_Thread)
  /\ WF_vars(B100_Process_Callback)
  /\ \A t \in Operator : WF_vars(B100_Join_Accepted(t) \/ B100_Restart_Accepted(t))
  /\ SF_vars(NetJoins /\ pc[Health] = "sleeping")
-----------------------------------------------------------------------------
Points(t) == IF t = Health
             THEN {"sleeping", "informed", "stored", "requesting", "deciding", "joined"}
             ELSE {"idle", "joined", "restarted"}

TypeOK ==
  /\ joined \in BOOLEAN /\ statusCode \in Code \cup {None}
  /\ last_dispatched_fcntDown \in Counter \cup {NoCounter}
  /\ pc \in [Thread -> UNION {Points(t) : t \in Thread}] /\ \A t \in Thread : pc[t] \in Points(t)
  /\ answer \in BOOLEAN
  /\ status \in [joined : BOOLEAN, statusCode : Code \cup {None}]
  /\ net \in {"idle", "joining", "joined"} /\ fcnt \in 0 .. MaxDownlinks
  /\ outbox \in Seq(Callback) /\ Len(outbox) <= MaxOutbox
  /\ requests \in 0 .. MaxRequests /\ faults \in 0 .. MaxFaults
  /\ dispatched \in BOOLEAN /\ cleared \in BOOLEAN
  /\ missed \subseteq BOOLEAN /\ repeated \subseteq BOOLEAN
  /\ announced \in BOOLEAN

\* README.md:79 "logs received downlinks": a downlink of which a callback arrives
\* reaches the app's handler.
NoneMissed == missed = {}

\* Counters start over with a session; the deduplication must not take the first
\* downlink of one session for the last of another.  It does so only if no
\* callback told the app that the older session had ended: the bridge joins by
\* itself (status 5), is told to join while joined, or the callback is lost.
MissedOnlyUnannounced == TRUE \notin missed

\* B100.c:772 "Deduplication by fcntDown when available": a downlink reaches the
\* handler once.  The exception is a join or restart of this camera between the
\* two callbacks that carry it, which clears the deduplication.
DispatchedOnce == FALSE \notin repeated
DownlinkOnce == TypeOK /\ DispatchedOnce

\* What the clocks say: callbacks do not stay on their way for the minute between
\* two health cycles, and a join does not end in the seconds of a cycle.
Timely == /\ Health_Info => outbox = <<>>
          /\ NetJoins => pc[Health] = "sleeping"

\* aoa/app/main.c:1415 "Auto-join if not on network": after restarts, lost sessions,
\* failed joins, lost callbacks and answers the bridge ends up joined and is then
\* left alone.  The health thread does not tear the session down again and again
\* for a restart that is over, however long the network took, provided that the
\* system is timely from some time on.
StaysJoined == autoJoin /\ <>[][Timely]_vars => <>[](net = "joined")

\* The page shows the bridge as joined while it is, and not when it is not
\* (DEPLOYMENT.md:333): a late /info answer, a lost callback or a restart that the
\* bridge reports with status 5 may show otherwise for a while only.
JoinedShown ==
  /\ <>[](net = "joined") => <>[]joined
  /\ <>[](net # "joined") => <>[]~joined
=============================================================================
