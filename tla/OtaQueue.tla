----------------------------- MODULE OtaQueue ------------------------------
(***************************************************************************)
(* The OTA response queue of the AOA application and the queue of deferred *)
(* bridge configurations beside it (aoa/app/main.c).                       *)
(*                                                                         *)
(* The FCGI thread handles one downlink at a time and queues what is to be *)
(* answered; a downlink that sets bridge parameters is queued too, since   *)
(* the bridge cannot be called from its own callback.  The publish thread  *)
(* drains both queues once a second: it pops an entry under                *)
(* g_ota_response_mutex, calls the bridge with no lock held, and puts a    *)
(* response that was not accepted back at the head, to be tried again 5    *)
(* seconds later.                                                          *)
(*                                                                         *)
(* A request is named by its position in requests.  requests, queued,      *)
(* accepted, dropped, applied and restarted are history variables.         *)
(***************************************************************************)
EXTENDS Integers, Sequences, SequencesExt

CONSTANTS OTA_RESPONSE_QUEUE_MAX,  \* capacity of either queue
          MaxRequests              \* bound: downlinks in a behaviour

ConstantsAssumption ==
  /\ OTA_RESPONSE_QUEUE_MAX \in Nat \ {0}
  /\ MaxRequests \in Nat

VARIABLES
  responses,  \* g_ota_response_queue
  configs,    \* g_ota_bridge_config_queue
  pc,         \* where the publish thread is in its two drains
  popped,     \* the response it has popped: <<>> or <<response>>
  setting,    \* the configuration it has popped: <<>> or <<id>>
  status,     \* result of the B100_Set_Params call for it
  requests,   \* kinds of the downlinks handled
  queued,     \* ids in the order their responses were queued
  accepted,   \* ids in the order B100_Send_Bytes returned 1 for them
  dropped,    \* ids whose response found the queue full
  applied,    \* sequence of [id, ok]: the B100_Set_Params calls made
  restarted   \* ids in the order their B100_Restart was issued

queues == <<responses, configs>>
thread == <<pc, popped, setting, status>>
history == <<requests, queued, accepted, dropped, applied, restarted>>
vars == <<queues, thread, history>>
-----------------------------------------------------------------------------
\* "reply": anything answered at once; "restart": action 1 of port 100;
\* "bridge_set": a valid SET on port 110.
Kind == {"reply", "restart", "bridge_set"}
Id == 1 .. MaxRequests

\* OTA_Queued_Response: ok is the status byte of a SET acknowledgement; waiting,
\* next_attempt > now, is true only of a response that was put back.
Response == [id : Id, ok : BOOLEAN, restart : BOOLEAN, waiting : BOOLEAN]

NewResponse(id, ok, restart) ==
  [id |-> id, ok |-> ok, restart |-> restart, waiting |-> FALSE]

Ids(s) == [i \in DOMAIN s |-> s[i].id]

Full_OffByOne(queue) == Len(queue) > OTA_RESPONSE_QUEUE_MAX
Full(queue) == Len(queue) >= OTA_RESPONSE_QUEUE_MAX

Queue_OTA_Frame(response) ==
  \/ /\ ~Full(responses)
     /\ responses' = Append(responses, response)
     /\ queued' = Append(queued, response.id)
     /\ UNCHANGED dropped
  \/ /\ Full(responses)
     /\ dropped' = dropped \cup {response.id}
     /\ UNCHANGED <<responses, queued>>
-----------------------------------------------------------------------------
Init ==
  /\ responses = <<>> /\ configs = <<>>
  /\ pc = "configs" /\ popped = <<>> /\ setting = <<>> /\ status = TRUE
  /\ requests = <<>> /\ queued = <<>> /\ accepted = <<>>
  /\ dropped = {} /\ applied = <<>> /\ restarted = <<>>

(***************************************************************************)
(* The FCGI thread: B100_Downlink_Handler.  Each handler takes the mutex   *)
(* once, so that a downlink is one step for the queues.                    *)
(***************************************************************************)
Handle(kind) ==
  /\ Len(requests) < MaxRequests
  /\ requests' = Append(requests, kind)
  /\ UNCHANGED <<thread, accepted, applied, restarted>>

Handle_OTA_Reply ==
  /\ Handle("reply")
  /\ Queue_OTA_Frame(NewResponse(Len(requests'), TRUE, FALSE))
  /\ UNCHANGED configs

Handle_Action_OTA_Restart ==
  /\ Handle("restart")
  /\ Queue_OTA_Frame(NewResponse(Len(requests'), TRUE, TRUE))
  /\ UNCHANGED configs

\* g_queue_push_tail in Queue_OTA_Bridge_Config.
WithConfig_Head(id) == <<id>> \o configs
WithConfig_Replaces(id) == <<id>>
WithConfig(id) == Append(configs, id)

\* A configuration that finds no room is refused at once.
Handle_Bridge_Config_OTA_Set ==
  /\ Handle("bridge_set")
  /\ \/ /\ ~Full(configs)
        /\ configs' = WithConfig(Len(requests'))
        /\ UNCHANGED <<responses, queued, dropped>>
     \/ /\ Full(configs)
        /\ Queue_OTA_Frame(NewResponse(Len(requests'), FALSE, FALSE))
        /\ UNCHANGED configs

(***************************************************************************)
(* The publish thread: Drain_OTA_Bridge_Config_Queue.                      *)
(***************************************************************************)
RestOfConfigs_Peeked == configs
RestOfConfigs == Tail(configs)

Config_Pop ==
  /\ pc = "configs"
  /\ \/ /\ configs = <<>>
        /\ pc' = "responses"
        /\ UNCHANGED <<configs, setting>>
     \/ /\ configs # <<>>
        /\ setting' = <<Head(configs)>>
        /\ configs' = RestOfConfigs
        /\ pc' = "set_params"
  /\ UNCHANGED <<responses, popped, status, history>>

B100_Set_Params(ok) ==
  /\ pc = "set_params"
  /\ status' = ok
  /\ applied' = Append(applied, [id |-> setting[1], ok |-> ok])
  /\ pc' = "ack"
  /\ UNCHANGED <<queues, popped, setting, requests, queued, accepted, dropped, restarted>>

AckStatus_RequestValid == TRUE
AckStatus == status

Config_Ack ==
  /\ pc = "ack"
  /\ Queue_OTA_Frame(NewResponse(setting[1], AckStatus, FALSE))
  /\ setting' = <<>>
  /\ pc' = "responses"
  /\ UNCHANGED <<configs, popped, status, requests, accepted, applied, restarted>>

(***************************************************************************)
(* The publish thread: Drain_OTA_Response_Queue.                           *)
(***************************************************************************)
HeadIsDue == responses # <<>> /\ ~responses[1].waiting

Response_Pop ==
  /\ pc = "responses"
  /\ \/ /\ ~HeadIsDue
        /\ pc' = "configs"
        /\ UNCHANGED <<responses, popped>>
     \/ /\ HeadIsDue
        /\ popped' = <<Head(responses)>>
        /\ responses' = Tail(responses)
        /\ pc' = "send"
  /\ UNCHANGED <<configs, setting, status, history>>

\* Where the drain goes on after the bridge's answer.
AfterSend_RestartAnyway(success) ==
  IF popped[1].restart THEN "restart" ELSE IF success THEN "configs" ELSE "retry"
AfterSend_NoRestart(success) == IF success THEN "configs" ELSE "retry"
AfterSend(success) ==
  CASE ~success          -> "retry"
    [] success /\ popped[1].restart  -> "restart"
    [] success /\ ~popped[1].restart -> "configs"

B100_Send_Bytes(success) ==
  /\ pc = "send"
  /\ pc' = AfterSend(success)
  /\ accepted' = IF success THEN Append(accepted, popped[1].id) ELSE accepted
  /\ popped' = IF pc' = "configs" THEN <<>> ELSE popped
  /\ UNCHANGED <<queues, setting, status, requests, queued, dropped, applied, restarted>>

\* The result of the restart is not looked at.
B100_Restart ==
  /\ pc = "restart"
  /\ restarted' = Append(restarted, popped[1].id)
  /\ popped' = <<>>
  /\ pc' = "configs"
  /\ UNCHANGED <<queues, setting, status, requests, queued, accepted, dropped, applied>>

\* No capacity is tested here: the queue may hold one entry more than its maximum.
PutBack_Lost(response) == responses
PutBack_Tail(response) == Append(responses, response)
PutBack(response) == <<response>> \o responses

Response_Put_Back ==
  /\ pc = "retry"
  /\ responses' = PutBack([popped[1] EXCEPT !.waiting = TRUE])
  /\ popped' = <<>>
  /\ pc' = "configs"
  /\ UNCHANGED <<configs, setting, status, history>>

\* next_attempt = now + 5 is reached.
RetryTimeReached ==
  /\ responses # <<>> /\ Head(responses).waiting
  /\ responses' = [responses EXCEPT ![1].waiting = FALSE]
  /\ UNCHANGED <<configs, thread, history>>
-----------------------------------------------------------------------------
Drain ==
  \/ Config_Pop
  \/ \E ok \in BOOLEAN : B100_Set_Params(ok)
  \/ Config_Ack
  \/ Response_Pop
  \/ \E success \in BOOLEAN : B100_Send_Bytes(success)
  \/ B100_Restart
  \/ Response_Put_Back

Next ==
  \/ Handle_OTA_Reply
  \/ Handle_Action_OTA_Restart
  \/ Handle_Bridge_Config_OTA_Set
  \/ Drain
  \/ RetryTimeReached

Spec == Init /\ [][Next]_vars

\* The publish thread runs for ever, clocks advance, and the bridge does not
\* refuse a response for ever (its duty-cycle window ends).
Fairness ==
  /\ WF_vars(Drain)
  /\ WF_vars(RetryTimeReached)
  /\ SF_vars(B100_Send_Bytes(TRUE))

FairSpec == Spec /\ Fairness
-----------------------------------------------------------------------------
TypeOK ==
  /\ responses \in Seq(Response)
  /\ configs \in Seq(Id) /\ Len(configs) <= OTA_RESPONSE_QUEUE_MAX
  /\ pc \in {"configs", "set_params", "ack", "responses", "send", "restart", "retry"}
  /\ popped \in {<<>>} \cup {<<r>> : r \in Response}
  /\ setting \in {<<>>} \cup {<<i>> : i \in Id}
  /\ status \in BOOLEAN
  /\ requests \in Seq(Kind) /\ Len(requests) <= MaxRequests
  /\ queued \in Seq(Id) /\ accepted \in Seq(Id) /\ restarted \in Seq(Id)
  /\ dropped \subseteq Id
  /\ applied \in Seq([id : Id, ok : BOOLEAN])
  /\ popped # <<>> <=> pc \in {"send", "restart", "retry"}
  /\ setting # <<>> <=> pc \in {"set_params", "ack"}

\* The responses the bridge has not accepted yet, oldest first.
Outstanding == (IF pc \in {"send", "retry"} THEN Ids(popped) ELSE <<>>) \o Ids(responses)

\* Responses are accepted in the order they were queued: none lost, repeated or
\* overtaken, whatever was retried (main.c:660, 677-682, 696-700).
AcceptedInOrder == queued = accepted \o Outstanding

\* A failed send may leave one response more than the maximum, never two, however
\* many downlinks came in during the send (main.c:654, 699).
QueueBounded == Len(Outstanding) <= OTA_RESPONSE_QUEUE_MAX + 1

\* Every downlink handled is in exactly one place: waiting to be applied, answered
\* once, or dropped because the response queue was full (main.c:720-725, 736-752).
NoRequestForgotten ==
  \A id \in DOMAIN requests :
    LET answered == {i \in DOMAIN queued : queued[i] = id}
        deferred == {i \in DOMAIN configs : configs[i] = id}
        held     == {i \in DOMAIN setting : setting[i] = id}
    IN  Cardinality(answered) + Cardinality(deferred) + Cardinality(held)
          + (IF id \in dropped THEN 1 ELSE 0) = 1

\* The bridge is restarted only for a request whose acknowledgement it has accepted,
\* and once for each (main.c:685-693).
RestartAfterAck ==
  /\ IsInjective(restarted)
  /\ \A i \in DOMAIN restarted : /\ requests[restarted[i]] = "restart"
                                 /\ Contains(accepted, restarted[i])

\* Bridge configurations are applied in the order they arrived, so that the last
\* request wins (main.c:725, 733-734).
AppliedInOrder ==
  \A i, j \in DOMAIN applied : i < j => applied[i].id < applied[j].id

\* Both queues keep their order and their bounds.
QueuesInOrder == QueueBounded /\ AcceptedInOrder /\ AppliedInOrder

\* "The SET acknowledgement reports the final bridge API result" (aoa/README.md:288):
\* one that reports success stands for a call the bridge took.
AckReportsResult ==
  \A i \in DOMAIN responses :
    requests[responses[i].id] = "bridge_set" =>
      responses[i].ok = Contains(applied, [id |-> responses[i].id, ok |-> TRUE])

\* What the sender is told is so, of restarts and of bridge parameters.
AckHonest == TypeOK /\ RestartAfterAck /\ AckReportsResult

\* Every queued response is accepted in the end, after however many failed sends, and the
\* restart that it announces is then issued (main.c:685-700).
ResponsesDelivered ==
  \A n \in Id :
    Len(queued) >= n
      ~> /\ Len(accepted) >= n
         /\ requests[accepted[n]] = "restart" => Contains(restarted, accepted[n])

\* Every deferred configuration is applied in the end (main.c:733-748).
ConfigsApplied ==
  \A id \in Id :
    Contains(configs, id) ~> \E i \in DOMAIN applied : applied[i].id = id
=============================================================================
