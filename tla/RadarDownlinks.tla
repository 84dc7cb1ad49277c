--------------------------- MODULE RadarDownlinks ---------------------------
(***************************************************************************)
(* The downlinks of the radar app: how B100_Downlink_Handler reads them,   *)
(* which handler it gives them to, and which way they are answered         *)
(* (radar/app/main.c).                                                     *)
(*                                                                         *)
(* A frame is answered through the queues, which radar has copied from     *)
(* aoa: OtaQueue.  A command in the form of earlier versions, on the ports *)
(* that had one, is answered by an uplink from within its handler.  The    *)
(* FCGI thread handles one downlink after the other, and waits for the     *)
(* radar of the camera or for the bridge if the handler asks them; the     *)
(* publish thread drains the queues in between.                            *)
(*                                                                         *)
(* What the services behind the other ports set is the subject of          *)
(* RadarConfig and RadarCounting; here they answer.  received, legacy and  *)
(* acked are history variables.                                            *)
(***************************************************************************)
EXTENDS Integers, Sequences

CONSTANTS OTA_RESPONSE_QUEUE_MAX, MaxRequests,  \* of OtaQueue
          MaxDownlinks,  \* bound: downlinks in a behaviour that are to be answered
          MaxChanges,    \* bound: changes of the sensitivity by others
          Sensitivity    \* low, medium, high

ConstantsAssumption ==
  /\ MaxRequests \in Nat /\ MaxDownlinks \in 0 .. MaxRequests
  /\ MaxChanges \in Nat /\ Sensitivity # {}

VARIABLES
  responses, configs, pc, popped, setting, status, requests, queued, accepted, dropped,
  applied, restarted,
  serving,     \* what the handler waits for: <<>> or <<[for, value]>>
  sensitivity, \* of the camera's radar
  received,    \* downlinks that are to be answered
  legacy,      \* answers sent from within the handler, taken by the bridge or not
  acked,       \* what the last SET of the sensitivity, acknowledged OK, asked for
  changes      \* of the sensitivity by others

Q == INSTANCE OtaQueue

queue == <<responses, configs, pc, popped, setting, status, requests, queued, accepted, dropped,
           applied, restarted>>
handler == <<serving, sensitivity, received, legacy, acked, changes>>
vars == <<queue, handler>>
-----------------------------------------------------------------------------
\* The ports of the frames.  "service" are those of use cases, counting and speed;
\* "former" are those two that had another form before.
Port == {"control", "config", "radar", "query", "service", "former", "other"}

\* How the payload reads: not at all (HEX of odd length or with other characters, or
\* empty); as a frame; as none, with the first byte of a command; as none, with another.
Form == {"unreadable", "frame", "command", "damaged"}
Command == {"GET", "SET", "CAPS", "other"}

\* What the body is to the handler of the frame.
Body == {"none", "restart", "valid", "refused"}
Downlink == [port : Port, form : Form, command : Command, body : Body]

Readable(d) == d.form # "unreadable" /\ d.port # "other"
IsLegacy(d) == d.form = "command" /\ d.port = "former"
Asks(d, port, command, body) ==
  d.form = "frame" /\ d.port = port /\ d.command = command /\ d.body = body

Init ==
  /\ Q!Init
  /\ serving = <<>> /\ sensitivity \in Sensitivity
  /\ received = 0 /\ legacy = 0 /\ acked = <<>> /\ changes = 0
-----------------------------------------------------------------------------
\* The next downlink: the FCGI thread has dealt with the one before.
Receive(d) ==
  /\ serving = <<>> /\ received < MaxDownlinks /\ Readable(d)
  /\ received' = received + 1
  /\ UNCHANGED <<sensitivity, legacy, changes>>

\* Port 100: action 1 is acknowledged first.
Handle_Action_OTA(d) ==
  /\ Receive(d) /\ Asks(d, "control", "SET", "restart")
  /\ Q!Handle_Action_OTA_Restart
  /\ UNCHANGED <<serving, acked>>

\* Port 110: a valid SET is left to the publish thread.
Handle_Bridge_Config_OTA(d) ==
  /\ Receive(d) /\ Asks(d, "config", "SET", "valid")
  /\ Q!Handle_Bridge_Config_OTA_Set
  /\ UNCHANGED <<serving, acked>>

\* Port 130: the radar of the camera is asked before the answer is queued.
AsksRadar(d) == Asks(d, "radar", "GET", "none") \/ Asks(d, "radar", "SET", "valid")
Handle_Radar_Config_OTA(d) ==
  /\ Receive(d) /\ AsksRadar(d)
  /\ IF d.command = "GET" THEN serving' = <<[for |-> "get", value |-> sensitivity]>>
     ELSE \E v \in Sensitivity : serving' = <<[for |-> "set", value |-> v]>>
  /\ acked' = IF d.command = "SET" THEN <<>> ELSE acked
  /\ UNCHANGED queue

\* Everything else that is a frame is answered at once by its handler: GET and CAPS, a SET
\* of a service, a reset, an ERROR for what the handler does not accept.
Deferring(d) ==
  \/ Asks(d, "control", "SET", "restart")
  \/ Asks(d, "config", "SET", "valid")
  \/ AsksRadar(d)
Handle_Frame(d) ==
  /\ Receive(d) /\ d.form = "frame" /\ ~Deferring(d)
  /\ Q!Handle_OTA_Reply
  /\ UNCHANGED <<serving, acked>>

\* What cannot be decoded is told so, unless it may be a command of an earlier version.
Send_OTA_Error(d) ==
  /\ Receive(d) /\ d.form \in {"command", "damaged"} /\ ~IsLegacy(d)
  /\ Q!Handle_OTA_Reply
  /\ UNCHANGED <<serving, acked>>

\* Ports 132 and 133: applied first, then answered from within the handler.
Handle_Legacy_AndError(d) ==
  /\ Receive(d) /\ IsLegacy(d)
  /\ serving' = <<[for |-> "bridge", value |-> sensitivity]>>
  /\ Q!Handle_OTA_Reply
  /\ UNCHANGED acked
Handle_Legacy(d) ==
  /\ Receive(d) /\ IsLegacy(d)
  /\ serving' = <<[for |-> "bridge", value |-> sensitivity]>>
  /\ UNCHANGED <<queue, acked>>

B100_Downlink_Handler(d) ==
  \/ Handle_Action_OTA(d) \/ Handle_Bridge_Config_OTA(d) \/ Handle_Radar_Config_OTA(d)
  \/ Handle_Frame(d) \/ Send_OTA_Error(d) \/ Handle_Legacy(d)
-----------------------------------------------------------------------------
Waiting(for) == serving # <<>> /\ serving[1].for = for

\* getDetectionSensitivity: the value is told, or APPLY_FAILED.
Radar_Get_Detection_Sensitivity ==
  /\ Waiting("get") /\ serving' = <<>>
  /\ Q!Handle_OTA_Reply
  /\ UNCHANGED <<sensitivity, received, legacy, acked, changes>>

\* setDetectionSensitivity: the camera knows the three values, but its answer may be lost,
\* and it may not be asked at all.
Camera == {"applied", "answer_lost", "not_asked"}
Succeeds_Always(outcome) == TRUE
Succeeds(outcome) == outcome = "applied"

Radar_Set_Detection_Sensitivity(outcome) ==
  /\ Waiting("set") /\ serving' = <<>>
  /\ sensitivity' = IF outcome = "not_asked" THEN sensitivity ELSE serving[1].value
  /\ acked' = IF Succeeds(outcome) THEN <<serving[1].value>> ELSE acked
  /\ Q!Handle_OTA_Reply
  /\ UNCHANGED <<received, legacy, changes>>

\* The answer to a command of an earlier version is tried once, not queued.
Send_Legacy_Frame ==
  /\ Waiting("bridge") /\ serving' = <<>>
  /\ legacy' = legacy + 1
  /\ UNCHANGED <<queue, sensitivity, received, acked, changes>>

\* The camera's own pages set the sensitivity, too.
SetByOthers ==
  /\ changes < MaxChanges /\ changes' = changes + 1
  /\ sensitivity' \in Sensitivity /\ acked' = <<>>
  /\ UNCHANGED <<queue, serving, received, legacy>>

\* The publish thread: both drains, in the order of its loop.
Publish_Thread == (Q!Drain \/ Q!RetryTimeReached) /\ UNCHANGED handler

Next ==
  \/ \E d \in Downlink : B100_Downlink_Handler(d)
  \/ Radar_Get_Detection_Sensitivity
  \/ \E outcome \in Camera : Radar_Set_Detection_Sensitivity(outcome)
  \/ Send_Legacy_Frame \/ SetByOthers \/ Publish_Thread

Spec == Init /\ [][Next]_vars
-----------------------------------------------------------------------------
\* The types; those of the queues are OtaQueue's.
TypeOK ==
  /\ Q!TypeOK
  /\ serving = <<>> \/ serving[1] \in [for : {"get", "set", "bridge"}, value : Sensitivity]
  /\ sensitivity \in Sensitivity /\ acked \in {<<>>} \cup {<<v>> : v \in Sensitivity}
  /\ received \in 0 .. MaxDownlinks /\ legacy \in 0 .. MaxDownlinks
  /\ changes \in 0 .. MaxChanges

\* Every downlink that can be read and has a handler is answered once, through the queues
\* or from within its handler, and never both ways, whatever its handler waited for
\* (main.c:3321-3357, 3551-3606).
DownlinksAnswered == received = Len(requests) + legacy + Len(serving)

\* What the queues promise, with handlers that wait: no request is forgotten in them, order
\* and capacity hold, the bridge restarts after it took the acknowledgement, and the
\* acknowledgement of a bridge configuration tells what became of it (main.c:706-809).
QueuesSound ==
  Q!QueuesInOrder /\ Q!NoRequestForgotten /\ Q!RestartAfterAck /\ Q!AckReportsResult

\* A sensitivity that was acknowledged OK is the camera's until it is set again
\* (main.c:692-703, 832-846).
AckedSensitivity == acked # <<>> => sensitivity = acked[1]

\* What the downlinks promise: an answer each, queues that keep what they hold, and
\* acknowledgements that are so.
DownlinksSound == TypeOK /\ DownlinksAnswered /\ QueuesSound /\ AckedSensitivity
=============================================================================
