------------------------ MODULE RadarDownlinksProofs ------------------------
(***************************************************************************)
(* Proofs about what the radar app answers and sends, for any queues,      *)
(* numbers of downlinks, sensitivities, limits, units, speeds and counts.  *)
(* Every downlink is answered once, the app is an implementation of        *)
(* OtaQueue, whose theorems hold of it, and what it acknowledges of the    *)
(* sensitivity is so.  No change of the alert is forgotten, and every      *)
(* speed summary makes sense.                                              *)
(***************************************************************************)
EXTENDS RadarUplinks, TLAPS

Wait == [for : {"get", "set", "bridge"}, value : Sensitivity]

Counts ==
  /\ requests \in Seq(Q!Kind) /\ received \in Nat /\ legacy \in Nat
  /\ serving = <<>> \/ \E w \in Wait : serving = <<w>>
  /\ sensitivity \in Sensitivity

IInv == Counts /\ DownlinksAnswered

LEMMA InitHolds == Init => IInv
  BY DEF Init, Q!Init, IInv, Counts, DownlinksAnswered

\* What a handler that answers through the queues adds to requests.
LEMMA OneMore ==
  ASSUME NEW k \in Q!Kind, requests \in Seq(Q!Kind), Q!Handle(k)
  PROVE  requests' \in Seq(Q!Kind) /\ Len(requests') = Len(requests) + 1
  BY DEF Q!Handle

LEMMA Replied ==
  ASSUME requests \in Seq(Q!Kind), Q!Handle_OTA_Reply
  PROVE  requests' \in Seq(Q!Kind) /\ Len(requests') = Len(requests) + 1
<1>1. "reply" \in Q!Kind /\ Q!Handle("reply")
  BY DEF Q!Kind, Q!Handle_OTA_Reply
<1>2. QED
  BY <1>1, OneMore

LEMMA Restarting ==
  ASSUME requests \in Seq(Q!Kind), Q!Handle_Action_OTA_Restart
  PROVE  requests' \in Seq(Q!Kind) /\ Len(requests') = Len(requests) + 1
<1>1. "restart" \in Q!Kind /\ Q!Handle("restart")
  BY DEF Q!Kind, Q!Handle_Action_OTA_Restart
<1>2. QED
  BY <1>1, OneMore

LEMMA Configuring ==
  ASSUME requests \in Seq(Q!Kind), Q!Handle_Bridge_Config_OTA_Set
  PROVE  requests' \in Seq(Q!Kind) /\ Len(requests') = Len(requests) + 1
<1>1. "bridge_set" \in Q!Kind /\ Q!Handle("bridge_set")
  BY DEF Q!Kind, Q!Handle_Bridge_Config_OTA_Set
<1>2. QED
  BY <1>1, OneMore

\* The publish thread leaves the requests alone.
LEMMA Draining ==
  ASSUME Publish_Thread
  PROVE  requests' = requests /\ UNCHANGED handler
  BY DEF Publish_Thread, Q!Drain, Q!RetryTimeReached, Q!Config_Pop, Q!B100_Set_Params,
         Q!Config_Ack, Q!Response_Pop, Q!B100_Send_Bytes, Q!B100_Restart, Q!Response_Put_Back,
         Q!history

LEMMA HandlerKeeps ==
  ASSUME IInv, NEW d \in Downlink, B100_Downlink_Handler(d)
  PROVE  IInv'
<1> USE DEF IInv, Counts, DownlinksAnswered, Receive
<1>1. CASE Handle_Action_OTA(d)
  BY <1>1, Restarting DEF Handle_Action_OTA
<1>2. CASE Handle_Bridge_Config_OTA(d)
  BY <1>2, Configuring DEF Handle_Bridge_Config_OTA
<1>3. CASE Handle_Frame(d)
  BY <1>3, Replied DEF Handle_Frame
<1>4. CASE Send_OTA_Error(d)
  BY <1>4, Replied DEF Send_OTA_Error
<1>5. CASE Handle_Radar_Config_OTA(d)
  <2>1. PICK w \in Wait : serving' = <<w>>
    <3>1. CASE d.command = "GET"
      BY <1>5, <3>1 DEF Handle_Radar_Config_OTA, Wait
    <3>2. CASE d.command # "GET"
      <4>1. PICK v \in Sensitivity : serving' = <<[for |-> "set", value |-> v]>>
        BY <1>5, <3>2 DEF Handle_Radar_Config_OTA
      <4>2. QED
        BY <4>1 DEF Wait
    <3>3. QED
      BY <3>1, <3>2
  <2>2. Len(serving) = 0 /\ Len(serving') = 1
    BY <1>5, <2>1 DEF Handle_Radar_Config_OTA
  <2>3. UNCHANGED <<requests, sensitivity, legacy>> /\ received' = received + 1
    BY <1>5 DEF Handle_Radar_Config_OTA, queue
  <2>4. QED
    BY <2>1, <2>2, <2>3
<1>6. CASE Handle_Legacy(d)
  <2>1. PICK w \in Wait : serving' = <<w>>
    BY <1>6 DEF Handle_Legacy, Wait
  <2>2. Len(serving) = 0 /\ Len(serving') = 1
    BY <1>6, <2>1 DEF Handle_Legacy
  <2>3. UNCHANGED <<requests, sensitivity, legacy>> /\ received' = received + 1
    BY <1>6 DEF Handle_Legacy, queue
  <2>4. QED
    BY <2>1, <2>2, <2>3
<1>7. QED
  BY <1>1, <1>2, <1>3, <1>4, <1>5, <1>6 DEF B100_Downlink_Handler

\* The handler that waits, waits for one thing.
LEMMA WaitsOnce ==
  ASSUME Counts, serving # <<>>, serving' = <<>>
  PROVE  Len(serving) = 1 /\ Len(serving') = 0 /\ serving[1].value \in Sensitivity
<1>1. PICK w \in Wait : serving = <<w>>
  BY DEF Counts
<1>2. QED
  BY <1>1 DEF Wait

\* What is answered is no longer waited for.
LEMMA AnswersAdd ==
  ASSUME Len(requests) \in Nat, legacy \in Nat, DownlinksAnswered,
         Len(serving) = 1, Len(serving') = 0, received' = received,
         \/ Len(requests') = Len(requests) + 1 /\ legacy' = legacy
         \/ Len(requests') = Len(requests) /\ legacy' = legacy + 1
  PROVE  DownlinksAnswered'
<1>1. received = Len(requests) + legacy + 1
  BY DEF DownlinksAnswered
<1>2. received' = Len(requests') + legacy' + 0
  BY <1>1
<1>3. QED
  BY <1>2 DEF DownlinksAnswered

LEMMA StepKeeps ==
  ASSUME IInv, [Next]_vars
  PROVE  IInv'
<1>0. Counts /\ DownlinksAnswered /\ Len(requests) \in Nat /\ legacy \in Nat
  BY DEF IInv, Counts
<1>1. CASE \E d \in Downlink : B100_Downlink_Handler(d)
  BY <1>1, HandlerKeeps
<1>2. CASE Radar_Get_Detection_Sensitivity
  <2>1. Len(serving) = 1 /\ Len(serving') = 0 /\ serving[1].value \in Sensitivity
    BY <1>2, <1>0, WaitsOnce DEF Radar_Get_Detection_Sensitivity, Waiting
  <2>2. requests' \in Seq(Q!Kind) /\ Len(requests') = Len(requests) + 1
    BY <1>2, <1>0, Replied DEF Counts, Radar_Get_Detection_Sensitivity
  <2>3. serving' = <<>> /\ UNCHANGED <<sensitivity, received, legacy>>
    BY <1>2 DEF Radar_Get_Detection_Sensitivity
  <2>4. DownlinksAnswered'
    BY <1>0, AnswersAdd, <2>1, <2>2, <2>3
  <2>5. Counts'
    BY <1>0, <2>1, <2>2, <2>3 DEF Counts
  <2>6. QED
    BY <2>4, <2>5 DEF IInv
<1>3. ASSUME NEW outcome \in Camera, Radar_Set_Detection_Sensitivity(outcome)
      PROVE  IInv'
  <2>1. Len(serving) = 1 /\ Len(serving') = 0 /\ serving[1].value \in Sensitivity
    BY <1>3, <1>0, WaitsOnce DEF Radar_Set_Detection_Sensitivity, Waiting
  <2>2. requests' \in Seq(Q!Kind) /\ Len(requests') = Len(requests) + 1
    BY <1>3, <1>0, Replied DEF Counts, Radar_Set_Detection_Sensitivity
  <2>3. sensitivity' \in Sensitivity
    BY <1>3, <1>0, <2>1 DEF Counts, Radar_Set_Detection_Sensitivity
  <2>4. serving' = <<>> /\ UNCHANGED <<received, legacy>>
    BY <1>3 DEF Radar_Set_Detection_Sensitivity
  <2>5. DownlinksAnswered'
    BY <1>0, AnswersAdd, <2>1, <2>2, <2>3, <2>4
  <2>6. Counts'
    BY <1>0, <2>1, <2>2, <2>3, <2>4 DEF Counts
  <2>7. QED
    BY <2>5, <2>6 DEF IInv
<1>4. CASE Send_Legacy_Frame
  <2>1. Len(serving) = 1 /\ Len(serving') = 0 /\ serving[1].value \in Sensitivity
    BY <1>4, <1>0, WaitsOnce DEF Send_Legacy_Frame, Waiting
  <2>2. serving' = <<>> /\ legacy' = legacy + 1 /\ UNCHANGED <<requests, sensitivity, received>>
    BY <1>4 DEF Send_Legacy_Frame, queue
  <2>3. DownlinksAnswered'
    BY <1>0, AnswersAdd, <2>1, <2>2
  <2>4. Counts'
    BY <1>0, <2>1, <2>2 DEF Counts
  <2>5. QED
    BY <2>3, <2>4 DEF IInv
<1>5. CASE SetByOthers
  BY <1>5 DEF SetByOthers, queue, IInv, Counts, DownlinksAnswered
<1>6. CASE Publish_Thread
  BY <1>6, Draining DEF handler, IInv, Counts, DownlinksAnswered
<1>7. CASE UNCHANGED vars
  BY <1>7 DEF vars, queue, handler, IInv, Counts, DownlinksAnswered
<1>8. QED
  BY <1>1, <1>2, <1>3, <1>4, <1>5, <1>6, <1>7 DEF Next

\* Every downlink that can be read is answered once, through the queues or from within its
\* handler, whatever the handler waits for (main.c:3321-3357, 3551-3606).
THEOREM AnsweredOnce == Spec => []DownlinksAnswered
<1>1. IInv => DownlinksAnswered
  BY DEF IInv
<1>2. QED
  BY InitHolds, StepKeeps, <1>1, PTL DEF Spec
-----------------------------------------------------------------------------
LEMMA StepImplements ==
  ASSUME [Next]_vars
  PROVE  [Q!Next]_queue
<1>1. ASSUME NEW d \in Downlink, B100_Downlink_Handler(d)
      PROVE  Q!Next \/ UNCHANGED queue
  BY <1>1 DEF B100_Downlink_Handler, Handle_Action_OTA, Handle_Bridge_Config_OTA,
    Handle_Radar_Config_OTA, Handle_Frame, Send_OTA_Error, Handle_Legacy, Q!Next
<1>2. CASE Radar_Get_Detection_Sensitivity
  BY <1>2 DEF Radar_Get_Detection_Sensitivity, Q!Next
<1>3. ASSUME NEW outcome \in Camera, Radar_Set_Detection_Sensitivity(outcome)
      PROVE  Q!Next
  BY <1>3 DEF Radar_Set_Detection_Sensitivity, Q!Next
<1>4. CASE Send_Legacy_Frame \/ SetByOthers
  BY <1>4 DEF Send_Legacy_Frame, SetByOthers
<1>5. CASE Publish_Thread
  BY <1>5 DEF Publish_Thread, Q!Next
<1>6. CASE UNCHANGED vars
  BY <1>6 DEF vars
<1>7. QED
  BY <1>1, <1>2, <1>3, <1>4, <1>5, <1>6 DEF Next

\* The radar app implements OtaQueue, although some of its handlers wait (main.c:706-809).
THEOREM ImplementsQueue == Spec => Q!Init /\ [][Q!Next]_queue
<1>1. Init => Q!Init
  BY DEF Init
<1>2. QED
  BY <1>1, StepImplements, PTL DEF Spec
-----------------------------------------------------------------------------
(***************************************************************************)
(* The queues of the radar are those of the proofs about them: what these  *)
(* define, and what they show, is so here.                                 *)
(***************************************************************************)
P == INSTANCE OtaQueueProofs

LEMMA SameConstants == Q!ConstantsAssumption => P!ConstantsAssumption
BY DEF Q!ConstantsAssumption, P!ConstantsAssumption

LEMMA SameStart == Q!Init => P!Init
BY DEF Q!Init, P!Init

LEMMA SameRequests ==
  ASSUME Q!Handle_OTA_Reply \/ Q!Handle_Action_OTA_Restart \/ Q!Handle_Bridge_Config_OTA_Set
  PROVE  P!Handle_OTA_Reply \/ P!Handle_Action_OTA_Restart \/ P!Handle_Bridge_Config_OTA_Set
<1>1. \A kind : Q!Handle(kind) => P!Handle(kind)
  BY DEF Q!Handle, P!Handle, Q!thread, P!thread
<1>2. Q!Handle_OTA_Reply => P!Handle_OTA_Reply
  BY <1>1 DEF Q!Handle_OTA_Reply, P!Handle_OTA_Reply, Q!Queue_OTA_Frame, P!Queue_OTA_Frame,
              Q!NewResponse, P!NewResponse, Q!Full, P!Full
<1>3. Q!Handle_Action_OTA_Restart => P!Handle_Action_OTA_Restart
  BY <1>1 DEF Q!Handle_Action_OTA_Restart, P!Handle_Action_OTA_Restart, Q!Queue_OTA_Frame,
              P!Queue_OTA_Frame, Q!NewResponse, P!NewResponse, Q!Full, P!Full
<1>4. Q!Handle_Bridge_Config_OTA_Set => P!Handle_Bridge_Config_OTA_Set
  BY <1>1 DEF Q!Handle_Bridge_Config_OTA_Set, P!Handle_Bridge_Config_OTA_Set,
              Q!Queue_OTA_Frame, P!Queue_OTA_Frame, Q!NewResponse, P!NewResponse, Q!Full, P!Full,
              Q!WithConfig, P!WithConfig
<1> QED BY <1>2, <1>3, <1>4

LEMMA SameDrain ==
  ASSUME Q!Drain
  PROVE  P!Drain
<1>1. Q!Config_Pop => P!Config_Pop
  BY DEF Q!Config_Pop, P!Config_Pop, Q!RestOfConfigs, P!RestOfConfigs, Q!history, P!history
<1>2. \A ok \in BOOLEAN : Q!B100_Set_Params(ok) => P!B100_Set_Params(ok)
  BY DEF Q!B100_Set_Params, P!B100_Set_Params, Q!queues, P!queues
<1>3. Q!Config_Ack => P!Config_Ack
  BY DEF Q!Config_Ack, P!Config_Ack, Q!AckStatus, P!AckStatus, Q!Queue_OTA_Frame,
         P!Queue_OTA_Frame, Q!NewResponse, P!NewResponse, Q!Full, P!Full
<1>4. Q!Response_Pop => P!Response_Pop
  BY DEF Q!Response_Pop, P!Response_Pop, Q!HeadIsDue, P!HeadIsDue, Q!history, P!history
<1>5. \A success \in BOOLEAN : Q!B100_Send_Bytes(success) => P!B100_Send_Bytes(success)
  BY DEF Q!B100_Send_Bytes, P!B100_Send_Bytes, Q!AfterSend, P!AfterSend, Q!queues, P!queues
<1>6. Q!B100_Restart => P!B100_Restart
  BY DEF Q!B100_Restart, P!B100_Restart, Q!queues, P!queues
<1>7. Q!Response_Put_Back => P!Response_Put_Back
  BY DEF Q!Response_Put_Back, P!Response_Put_Back, Q!PutBack, P!PutBack, Q!history, P!history
<1> QED BY <1>1, <1>2, <1>3, <1>4, <1>5, <1>6, <1>7 DEF Q!Drain, P!Drain

LEMMA SameTime == Q!RetryTimeReached => P!RetryTimeReached
BY DEF Q!RetryTimeReached, P!RetryTimeReached, Q!thread, P!thread, Q!history, P!history

LEMMA StepOfProofs ==
  ASSUME [Next]_vars
  PROVE  [P!Next]_(P!vars)
<1>1. Q!Next => P!Next
  BY SameRequests, SameDrain, SameTime DEF Q!Next, P!Next
<1>2. UNCHANGED queue => UNCHANGED P!vars
  BY DEF queue, P!vars, P!queues, P!thread, P!history
<1> QED BY StepImplements, <1>1, <1>2

\* What the queues promise is the same.
LEMMA SamePromises ==
  ASSUME P!TypeOK, P!QueuesInOrder, P!NoRequestForgotten, P!AckHonest
  PROVE  Q!TypeOK /\ QueuesSound
<1>1. Q!TypeOK
  BY DEF Q!TypeOK, P!TypeOK, Q!Response, P!Response, Q!Id, P!Id, Q!Kind, P!Kind
<1>2. Q!QueuesInOrder
  BY DEF Q!QueuesInOrder, P!QueuesInOrder, Q!QueueBounded, P!QueueBounded, Q!AcceptedInOrder,
         P!AcceptedInOrder, Q!AppliedInOrder, P!AppliedInOrder, Q!Outstanding, P!Outstanding,
         Q!Ids, P!Ids
<1>3. Q!NoRequestForgotten
  BY DEF Q!NoRequestForgotten, P!NoRequestForgotten, Q!Cardinality, P!Cardinality
<1>4. Q!RestartAfterAck
  BY DEF P!AckHonest, Q!RestartAfterAck, P!RestartAfterAck, Q!IsInjective, P!IsInjective,
         Q!Contains, P!Contains
<1>5. Q!AckReportsResult
  BY DEF P!AckHonest, Q!AckReportsResult, P!AckReportsResult, Q!Contains, P!Contains
<1> QED BY <1>1, <1>2, <1>3, <1>4, <1>5 DEF QueuesSound

\* The queues of the radar are bounded and ordered, forget no request and acknowledge what
\* is so, although handlers wait between the downlinks (main.c:706-809).
THEOREM QueuesHold ==
  ASSUME Q!ConstantsAssumption
  PROVE  Spec => [](Q!TypeOK /\ QueuesSound)
<1>0. P!ConstantsAssumption
  BY SameConstants
<1>1. Init => P!Init
  BY SameStart DEF Init
<1>2. Init /\ [][Next]_vars => P!Spec
  BY <1>1, StepOfProofs, PTL DEF P!Spec
<1>3. P!Spec => [](P!TypeOK /\ P!QueuesInOrder) /\ []P!NoRequestForgotten /\ []P!AckHonest
  BY <1>0, P!QueuesKept, P!RequestsKept, P!AnswersTrue
<1>4. P!TypeOK /\ P!QueuesInOrder /\ P!NoRequestForgotten /\ P!AckHonest => Q!TypeOK /\ QueuesSound
  BY SamePromises
<1> QED BY <1>2, <1>3, <1>4, PTL DEF Spec

-----------------------------------------------------------------------------
(***************************************************************************)
(* The sensitivity: while the camera is asked to set it, nothing is        *)
(* acknowledged.                                                           *)
(***************************************************************************)
SensitivityTyped ==
  /\ sensitivity \in Sensitivity /\ acked \in {<<>>} \cup {<<v>> : v \in Sensitivity}
  /\ received \in 0 .. MaxDownlinks /\ changes \in 0 .. MaxChanges
SensitivitySound ==
  SensitivityTyped /\ AckedSensitivity /\ (Waiting("set") => acked = <<>>)

LEMMA SensitivityStarts ==
  ASSUME ConstantsAssumption, Init
  PROVE  SensitivitySound
BY DEF Init, ConstantsAssumption, SensitivitySound, SensitivityTyped, AckedSensitivity, Waiting

LEMMA SensitivityKept ==
  ASSUME ConstantsAssumption, IInv, SensitivitySound, [Next]_vars
  PROVE  SensitivitySound'
<1>0. SensitivityTyped /\ AckedSensitivity /\ (Waiting("set") => acked = <<>>) /\ Counts
  BY DEF IInv, SensitivitySound
<1>1. MaxDownlinks \in Nat /\ MaxChanges \in Nat
  BY DEF ConstantsAssumption
<1>2. ASSUME NEW d \in Downlink, B100_Downlink_Handler(d)
      PROVE  SensitivitySound'
  <2>1. /\ serving = <<>> /\ received' \in 0 .. MaxDownlinks
        /\ UNCHANGED <<sensitivity, changes>>
    <3>1. Receive(d)
      BY <1>2 DEF B100_Downlink_Handler, Handle_Action_OTA, Handle_Bridge_Config_OTA,
                  Handle_Radar_Config_OTA, Handle_Frame, Send_OTA_Error, Handle_Legacy
    <3> QED BY <1>0, <1>1, <3>1 DEF Receive, SensitivityTyped
  <2>2. CASE Handle_Radar_Config_OTA(d)
    <3>1. d.command = "GET" =>
            acked' = acked /\ serving' = <<[for |-> "get", value |-> sensitivity]>>
      BY <2>2 DEF Handle_Radar_Config_OTA
    <3>2. d.command # "GET" => d.command = "SET"
      BY <2>2 DEF Handle_Radar_Config_OTA, AsksRadar, Asks
    <3>3. d.command = "SET" => acked' = <<>>
      BY <2>2 DEF Handle_Radar_Config_OTA
    <3>4. d.command = "GET" => ~Waiting("set")'
      BY <3>1 DEF Waiting
    <3> QED BY <1>0, <2>1, <3>1, <3>2, <3>3, <3>4
            DEF SensitivitySound, SensitivityTyped, AckedSensitivity
  <2>3. CASE \/ Handle_Action_OTA(d) \/ Handle_Bridge_Config_OTA(d) \/ Handle_Frame(d)
             \/ Send_OTA_Error(d) \/ Handle_Legacy(d)
    <3>1. acked' = acked /\ (serving' = serving \/ serving' = <<[for |-> "bridge", value |-> sensitivity]>>)
      BY <2>3 DEF Handle_Action_OTA, Handle_Bridge_Config_OTA, Handle_Frame, Send_OTA_Error,
                  Handle_Legacy
    <3>2. ~Waiting("set")'
      BY <2>1, <3>1 DEF Waiting
    <3> QED BY <1>0, <2>1, <3>1, <3>2 DEF SensitivitySound, SensitivityTyped, AckedSensitivity
  <2> QED BY <1>2, <2>2, <2>3 DEF B100_Downlink_Handler
<1>3. CASE Radar_Get_Detection_Sensitivity \/ Send_Legacy_Frame
  <2>1. serving' = <<>> /\ UNCHANGED <<sensitivity, received, acked, changes>>
    BY <1>3 DEF Radar_Get_Detection_Sensitivity, Send_Legacy_Frame
  <2> QED BY <1>0, <2>1 DEF SensitivitySound, SensitivityTyped, AckedSensitivity, Waiting
<1>4. ASSUME NEW outcome \in Camera, Radar_Set_Detection_Sensitivity(outcome)
      PROVE  SensitivitySound'
  <2>1. /\ serving' = <<>> /\ Waiting("set") /\ UNCHANGED <<received, changes>>
        /\ sensitivity' = IF outcome = "not_asked" THEN sensitivity ELSE serving[1].value
        /\ acked' = IF outcome = "applied" THEN <<serving[1].value>> ELSE acked
    BY <1>4 DEF Radar_Set_Detection_Sensitivity, Succeeds
  <2>2. serving[1].value \in Sensitivity /\ acked = <<>> /\ ~Waiting("set")'
    BY <1>0, <2>1, WaitsOnce DEF Waiting
  <2> QED BY <1>0, <2>1, <2>2 DEF SensitivitySound, SensitivityTyped, AckedSensitivity
<1>5. CASE SetByOthers
  <2>1. /\ sensitivity' \in Sensitivity /\ acked' = <<>> /\ UNCHANGED <<serving, received>>
        /\ changes' \in 0 .. MaxChanges
    BY <1>0, <1>1, <1>5 DEF SetByOthers, SensitivityTyped
  <2> QED BY <1>0, <2>1 DEF SensitivitySound, SensitivityTyped, AckedSensitivity
<1>6. CASE Publish_Thread \/ UNCHANGED vars
  BY <1>0, <1>6 DEF Publish_Thread, vars, handler, SensitivitySound, SensitivityTyped,
                    AckedSensitivity, Waiting
<1> QED BY <1>2, <1>3, <1>4, <1>5, <1>6 DEF Next

\* Whatever a downlink of the radar asks for, it is answered once, by queues that keep their
\* promises while handlers wait for the camera or the bridge; and a sensitivity that was
\* acknowledged is the camera's until it is set again (main.c:692-846, 3321-3606).
THEOREM DownlinksHold ==
  ASSUME ConstantsAssumption, Q!ConstantsAssumption
  PROVE  Spec => []DownlinksSound
<1>1. Init => IInv /\ SensitivitySound
  BY InitHolds, SensitivityStarts
<1>2. IInv /\ SensitivitySound /\ [Next]_vars => (IInv /\ SensitivitySound)'
  BY StepKeeps, SensitivityKept
<1>3. IInv /\ SensitivitySound /\ Q!TypeOK /\ QueuesSound => DownlinksSound
  <2>1. SUFFICES ASSUME IInv, SensitivitySound, Q!TypeOK, QueuesSound
                 PROVE  TypeOK
    BY DEF DownlinksSound, IInv, SensitivitySound
  <2>2. serving = <<>> \/ serving[1] \in Wait
    BY <2>1 DEF IInv, Counts
  <2>3. legacy \in 0 .. MaxDownlinks
    <3>1. /\ received = Len(requests) + legacy + Len(serving) /\ legacy \in Nat
          /\ Len(requests) \in Nat /\ Len(serving) \in Nat
      BY <2>1 DEF IInv, Counts, DownlinksAnswered
    <3>2. received \in 0 .. MaxDownlinks /\ MaxDownlinks \in Nat
      BY <2>1 DEF SensitivitySound, SensitivityTyped, ConstantsAssumption
    <3> QED BY <3>1, <3>2
  <2> QED BY <2>1, <2>2, <2>3 DEF TypeOK, Wait, SensitivitySound, SensitivityTyped
<1> QED BY <1>1, <1>2, <1>3, QueuesHold, PTL DEF Spec
-----------------------------------------------------------------------------
(***************************************************************************)
(* The alert.                                                              *)
(***************************************************************************)

AlertPublisher ==
  [at : {"idle", "decided", "sending", "accepted"}, heartbeat : BOOLEAN,
   payload : 0 .. MaxCount, crossed : BOOLEAN]

\* What is still to be told when the network has it wrong.
Announced ==
  IF g_active THEN g_pending \/ g_last_active_publish_time = A!Never
  ELSE g_inactive_pending \/ g_last_heartbeat_time = A!Never

\* An uplink under way that no other crossed: it says what was decided; if the alert
\* is another by now then that is announced.
UnderWay(p) ==
  p.at # "idle" /\ ~p.crossed =>
    /\ p.heartbeat = g_active => Announced
    /\ p.at = "sending" => (p.payload > 0) = ~p.heartbeat
    /\ p.at = "accepted" /\ ~alert_crossed => (heard > 0) = ~p.heartbeat

LastHeard == ~alert_crossed /\ (heard > 0) # g_active => Announced

AlertTypes ==
  /\ g_active \in BOOLEAN /\ g_pending \in BOOLEAN /\ g_inactive_pending \in BOOLEAN
  /\ allowed \in BOOLEAN /\ alert_crossed \in BOOLEAN
  /\ g_active_max \in 0 .. MaxCount /\ heard \in 0 .. MaxCount
  /\ g_detect_since \in A!Never .. transition_seconds
  /\ g_clear_since \in A!Never .. transition_seconds
  /\ g_last_active_publish_time \in A!Never .. active_interval_seconds
  /\ g_last_heartbeat_time \in A!Never .. heartbeat_minutes

AInv ==
  /\ AlertTypes /\ alert_publisher \in [R!Thread -> AlertPublisher]
  /\ A!PendingMeansActive
  /\ \A t \in R!Thread : UnderWay(alert_publisher[t])
  /\ LastHeard
LEMMA AlertTyped == AInv => A!TypeOK
  BY DEF AInv, AlertTypes, A!TypeOK, AlertPublisher

LEMMA AlertStarts == A!ConstantsAssumption /\ A!Init => AInv
<1> SUFFICES ASSUME A!ConstantsAssumption, A!Init
             PROVE  AInv
  OBVIOUS
<1>1. AlertTypes
  <2>1. /\ g_active_max \in 0 .. MaxCount /\ heard \in 0 .. MaxCount
        /\ A!Never \in A!Never .. transition_seconds
        /\ A!Never \in A!Never .. active_interval_seconds
        /\ A!Never \in A!Never .. heartbeat_minutes
    BY DEF A!ConstantsAssumption, A!Init, A!Never
  <2> QED BY <2>1 DEF A!Init, AlertTypes
<1>2. A!Idle \in AlertPublisher /\ UnderWay(A!Idle)
  BY DEF A!ConstantsAssumption, A!Idle, AlertPublisher, UnderWay
<1>3. alert_publisher \in [R!Thread -> AlertPublisher]
  BY <1>2 DEF A!Init
<1>4. \A t \in R!Thread : UnderWay(alert_publisher[t])
  BY <1>2 DEF A!Init
<1>5. A!PendingMeansActive
  BY DEF A!Init, A!PendingMeansActive
<1>6. LastHeard
  <2>1. (heard > 0) = FALSE
    BY DEF A!Init
  <2> QED BY <2>1 DEF A!Init, LastHeard
<1> QED BY <1>1, <1>3, <1>4, <1>5, <1>6 DEF AInv

\* A step of the radar thread, of the settings or of time.
AlertItself == A!Frame \/ A!Settings_Change \/ A!TimePasses

LEMMA AlertItselfFlags ==
  ASSUME A!ConstantsAssumption, AlertTypes, A!PendingMeansActive, AlertItself
  PROVE  /\ g_active' \in BOOLEAN /\ g_pending' \in BOOLEAN
         /\ g_inactive_pending' \in BOOLEAN /\ allowed' \in BOOLEAN
<1> USE DEF A!Quiet, A!Never, AlertTypes
<1>1. CASE A!Frame
  <2>1. PICK count \in 0 .. MaxCount : A!Alert_Update_Current(count)
    BY <1>1 DEF A!Frame
  <2>2. CASE ~allowed
    BY <2>1, <2>2 DEF A!Alert_Update_Current
  <2>3. CASE allowed /\ count > 0
    BY <2>1, <2>3 DEF A!Alert_Update_Current, A!Detected, A!Activates
  <2>4. CASE allowed /\ ~(count > 0)
    BY <2>1, <2>4 DEF A!Alert_Update_Current, A!Clear, A!ClearedAge, A!Deactivates,
                      A!PendingAfterClear, A!ReportsInactive
  <2> QED BY <2>2, <2>3, <2>4
<1>2. CASE A!Alert_Reset
  BY <1>2 DEF A!Alert_Reset
<1>3. CASE A!Alert_Reset_Timers
  BY <1>3 DEF A!Alert_Reset_Timers
<1>4. CASE A!Alert_Set_Schedule
  BY <1>4 DEF A!Alert_Set_Schedule, A!alert
<1>5. CASE A!TimePasses
  BY <1>5 DEF A!TimePasses, A!Older, A!Between, A!alert
<1> QED BY <1>1, <1>2, <1>3, <1>4, <1>5 DEF AlertItself, A!Settings_Change

LEMMA AlertItselfCount ==
  ASSUME A!ConstantsAssumption, AlertTypes, A!PendingMeansActive, AlertItself
  PROVE  /\ g_active_max' \in 0 .. MaxCount
         /\ UNCHANGED <<alert_publisher, heard, alert_crossed>>
<1> USE DEF A!Quiet, A!Never, AlertTypes, A!ConstantsAssumption
<1>1. CASE A!Frame
  <2>1. PICK count \in 0 .. MaxCount : A!Alert_Update_Current(count)
    BY <1>1 DEF A!Frame
  <2>2. CASE ~allowed
    BY <2>1, <2>2 DEF A!Alert_Update_Current
  <2>3. CASE allowed /\ count > 0
    BY <2>1, <2>3 DEF A!Alert_Update_Current, A!Detected, A!Activates
  <2>4. CASE allowed /\ ~(count > 0)
    BY <2>1, <2>4 DEF A!Alert_Update_Current, A!Clear, A!ClearedAge, A!Deactivates,
                      A!PendingAfterClear, A!ReportsInactive
  <2> QED BY <2>2, <2>3, <2>4
<1>2. CASE A!Alert_Reset
  BY <1>2 DEF A!Alert_Reset
<1>3. CASE A!Alert_Reset_Timers
  BY <1>3 DEF A!Alert_Reset_Timers
<1>4. CASE A!Alert_Set_Schedule
  BY <1>4 DEF A!Alert_Set_Schedule, A!alert
<1>5. CASE A!TimePasses
  BY <1>5 DEF A!TimePasses, A!Older, A!Between, A!alert
<1> QED BY <1>1, <1>2, <1>3, <1>4, <1>5 DEF AlertItself, A!Settings_Change

LEMMA AlertItselfAges ==
  ASSUME A!ConstantsAssumption, AlertTypes, A!PendingMeansActive, AlertItself
  PROVE  /\ g_detect_since' \in A!Never .. transition_seconds
         /\ g_clear_since' \in A!Never .. transition_seconds
         /\ g_last_active_publish_time' \in A!Never .. active_interval_seconds
         /\ g_last_heartbeat_time' \in A!Never .. heartbeat_minutes
<1> USE DEF A!Quiet, A!Never, AlertTypes, A!ConstantsAssumption
<1>1. CASE A!Frame
  <2>1. PICK count \in 0 .. MaxCount : A!Alert_Update_Current(count)
    BY <1>1 DEF A!Frame
  <2>2. CASE ~allowed
    BY <2>1, <2>2 DEF A!Alert_Update_Current
  <2>3. CASE allowed /\ count > 0
    BY <2>1, <2>3 DEF A!Alert_Update_Current, A!Detected, A!Activates
  <2>4. CASE allowed /\ ~(count > 0)
    BY <2>1, <2>4 DEF A!Alert_Update_Current, A!Clear, A!ClearedAge, A!Deactivates,
                      A!PendingAfterClear, A!ReportsInactive
  <2> QED BY <2>2, <2>3, <2>4
<1>2. CASE A!Alert_Reset
  BY <1>2 DEF A!Alert_Reset
<1>3. CASE A!Alert_Reset_Timers
  BY <1>3 DEF A!Alert_Reset_Timers
<1>4. CASE A!Alert_Set_Schedule
  BY <1>4 DEF A!Alert_Set_Schedule, A!alert
<1>5. CASE A!TimePasses
  BY <1>5 DEF A!TimePasses, A!Older, A!Between, A!alert
<1> QED BY <1>1, <1>2, <1>3, <1>4, <1>5 DEF AlertItself, A!Settings_Change

LEMMA AlertItselfPending ==
  ASSUME A!ConstantsAssumption, AlertTypes, A!PendingMeansActive, AlertItself
  PROVE  A!PendingMeansActive'
<1> USE DEF A!Quiet, A!Never, AlertTypes, A!PendingMeansActive
<1>1. CASE A!Frame
  <2>1. PICK count \in 0 .. MaxCount : A!Alert_Update_Current(count)
    BY <1>1 DEF A!Frame
  <2>2. CASE ~allowed
    BY <2>1, <2>2 DEF A!Alert_Update_Current
  <2>3. CASE allowed /\ count > 0
    BY <2>1, <2>3 DEF A!Alert_Update_Current, A!Detected, A!Activates
  <2>4. CASE allowed /\ ~(count > 0)
    BY <2>1, <2>4 DEF A!Alert_Update_Current, A!Clear, A!ClearedAge, A!Deactivates,
                      A!PendingAfterClear, A!ReportsInactive
  <2> QED BY <2>2, <2>3, <2>4
<1>2. CASE A!Alert_Reset
  BY <1>2 DEF A!Alert_Reset
<1>3. CASE A!Alert_Reset_Timers
  BY <1>3 DEF A!Alert_Reset_Timers
<1>4. CASE A!Alert_Set_Schedule
  BY <1>4 DEF A!Alert_Set_Schedule, A!alert
<1>5. CASE A!TimePasses
  BY <1>5 DEF A!TimePasses, A!Older, A!Between, A!alert
<1> QED BY <1>1, <1>2, <1>3, <1>4, <1>5 DEF AlertItself, A!Settings_Change

\* Another alert is announced, and what was announced stays so.
LEMMA AlertItselfAnnounced ==
  ASSUME A!ConstantsAssumption, AlertTypes, A!PendingMeansActive, AlertItself
  PROVE  g_active' # g_active \/ Announced => Announced'
<1> USE DEF A!Quiet, A!Never, AlertTypes, Announced
<1>1. CASE A!Frame
  <2>1. PICK count \in 0 .. MaxCount : A!Alert_Update_Current(count)
    BY <1>1 DEF A!Frame
  <2>2. CASE ~allowed
    BY <2>1, <2>2 DEF A!Alert_Update_Current
  <2>3. CASE allowed /\ count > 0
    <3>1. CASE A!Activates
      BY <2>1, <2>3, <3>1 DEF A!Alert_Update_Current, A!Detected
    <3>2. CASE ~A!Activates
      BY <2>1, <2>3, <3>2 DEF A!Alert_Update_Current, A!Detected
    <3> QED BY <3>1, <3>2
  <2>4. CASE allowed /\ ~(count > 0)
    BY <2>1, <2>4 DEF A!Alert_Update_Current, A!Clear, A!ClearedAge, A!Deactivates,
                      A!PendingAfterClear, A!ReportsInactive
  <2> QED BY <2>2, <2>3, <2>4
<1>2. CASE A!Alert_Reset
  BY <1>2 DEF A!Alert_Reset
<1>3. CASE A!Alert_Reset_Timers
  BY <1>3 DEF A!Alert_Reset_Timers
<1>4. CASE A!Alert_Set_Schedule
  BY <1>4 DEF A!Alert_Set_Schedule, A!alert
<1>5. CASE A!TimePasses
  BY <1>5 DEF A!TimePasses, A!Older, A!Between, A!alert
<1> QED BY <1>1, <1>2, <1>3, <1>4, <1>5 DEF AlertItself, A!Settings_Change

LEMMA AlertItselfKeeps ==
  ASSUME A!ConstantsAssumption, AInv, AlertItself
  PROVE  AInv'
<1>1. /\ UNCHANGED <<alert_publisher, heard, alert_crossed>>
      /\ AlertTypes' /\ A!PendingMeansActive'
  BY AlertItselfFlags, AlertItselfCount, AlertItselfAges, AlertItselfPending
  DEF AInv, AlertTypes
<1>2. g_active' # g_active \/ Announced => Announced'
  BY AlertItselfAnnounced DEF AInv
<1>3. g_active \in BOOLEAN /\ g_active' \in BOOLEAN
  BY <1>1 DEF AInv, AlertTypes
<1>4. ASSUME NEW t \in R!Thread
      PROVE  UnderWay(alert_publisher[t])'
  <2>1. UnderWay(alert_publisher[t]) /\ alert_publisher[t].heartbeat \in BOOLEAN
    BY DEF AInv, AlertPublisher
  <2> QED BY <1>1, <1>2, <1>3, <2>1 DEF UnderWay
<1>5. LastHeard'
  BY <1>1, <1>2, <1>3 DEF AInv, LastHeard
<1> QED BY <1>1, <1>4, <1>5 DEF AInv

\* The steps of an uplink.  First what an update of its record gives.
LEMMA UpdatedDecision ==
  ASSUME NEW Points, NEW Flags, NEW Values, NEW q \in [at : Points, heartbeat : Flags,
           payload : Values, crossed : Flags],
         NEW a \in Points, NEW h \in Flags,
         NEW p, p = [q EXCEPT !.at = a, !.heartbeat = h]
  PROVE  /\ p \in [at : Points, heartbeat : Flags, payload : Values, crossed : Flags]
         /\ p.at = a /\ p.heartbeat = h /\ p.crossed = q.crossed
  OBVIOUS

LEMMA UpdatedPayload ==
  ASSUME NEW Points, NEW Flags, NEW Values, NEW q \in [at : Points, heartbeat : Flags,
           payload : Values, crossed : Flags],
         NEW a \in Points, NEW c \in Values,
         NEW p, p = [q EXCEPT !.at = a, !.payload = c]
  PROVE  /\ p \in [at : Points, heartbeat : Flags, payload : Values, crossed : Flags]
         /\ p.at = a /\ p.payload = c /\ p.heartbeat = q.heartbeat /\ p.crossed = q.crossed
  OBVIOUS

LEMMA UpdatedCrossed ==
  ASSUME NEW Points, NEW Flags, NEW Values, NEW q \in [at : Points, heartbeat : Flags,
           payload : Values, crossed : Flags],
         NEW a \in Points, NEW c \in Values, NEW x \in Flags,
         NEW p, p = [q EXCEPT !.at = a, !.payload = c, !.crossed = x]
  PROVE  /\ p \in [at : Points, heartbeat : Flags, payload : Values, crossed : Flags]
         /\ p.at = a /\ p.payload = c /\ p.heartbeat = q.heartbeat /\ p.crossed = x
  OBVIOUS

LEMMA IdleTyped ==
  A!ConstantsAssumption => A!Idle \in AlertPublisher /\ A!Idle.at = "idle" /\ A!Idle.crossed = FALSE
  BY DEF A!Idle, AlertPublisher, A!ConstantsAssumption

LEMMA DecideKeeps ==
  ASSUME A!ConstantsAssumption, AInv, NEW t \in R!Thread, A!Decide(t)
  PROVE  AInv'
<1>1. PICK p : /\ p = [A!Idle EXCEPT !.at = "decided", !.heartbeat = ~g_active]
               /\ alert_publisher' = [alert_publisher EXCEPT ![t] = p]
               /\ UNCHANGED <<A!alert, A!ages, allowed, heard, alert_crossed>>
  BY DEF A!Decide, A!Go
<1>2. g_active \in BOOLEAN /\ (~g_active) \in BOOLEAN
  BY DEF AInv, AlertTypes
<1>3. p \in AlertPublisher /\ p.at = "decided" /\ p.heartbeat # g_active
  BY <1>1, <1>2, IdleTyped, UpdatedDecision DEF AlertPublisher
<1>4. alert_publisher' \in [R!Thread -> AlertPublisher]
  BY <1>1, <1>3 DEF AInv
<1>5. AlertTypes' /\ A!PendingMeansActive' /\ LastHeard' /\ Announced' = Announced /\ g_active' = g_active
  BY <1>1 DEF AInv, AlertTypes, A!PendingMeansActive, LastHeard, Announced, A!alert, A!ages
<1>6. ASSUME NEW u \in R!Thread
      PROVE  UnderWay(alert_publisher[u])'
  <2>1. CASE u = t
    BY <1>1, <1>3, <1>5, <2>1 DEF AInv, UnderWay
  <2>2. CASE u # t
    BY <1>1, <1>5, <2>2 DEF AInv, UnderWay
  <2> QED BY <2>1, <2>2
<1> QED BY <1>4, <1>5, <1>6 DEF AInv

LEMMA BuildKeeps ==
  ASSUME A!ConstantsAssumption, AInv, NEW t \in R!Thread, A!Build(t)
  PROVE  AInv'
<1> DEFINE q == alert_publisher[t]
<1> DEFINE c == IF q.heartbeat THEN 0 ELSE g_active_max
<1> DEFINE x == q.crossed \/ (c = 0 /\ ~q.heartbeat)
<1>1. PICK p : /\ p = [q EXCEPT !.at = "sending", !.payload = c, !.crossed = x]
               /\ alert_publisher' = [alert_publisher EXCEPT ![t] = p]
               /\ UNCHANGED <<A!alert, A!ages, allowed, heard, alert_crossed>>
  BY DEF A!Build, A!Go
<1>2. q \in AlertPublisher /\ q.at = "decided" /\ UnderWay(q)
  BY DEF AInv, A!Build, A!At
<1>3. /\ p.at = "sending" /\ p.heartbeat = q.heartbeat /\ p \in AlertPublisher
      /\ p.payload = c /\ p.crossed = x
  <2>1. c \in 0 .. MaxCount
    BY DEF AInv, AlertTypes, A!ConstantsAssumption
  <2>2. x \in BOOLEAN
    BY DEF x
  <2> HIDE DEF c, x
  <2> QED BY <1>1, <1>2, <2>1, <2>2, UpdatedCrossed DEF AlertPublisher
<1>4. alert_publisher' \in [R!Thread -> AlertPublisher]
  BY <1>1, <1>3 DEF AInv
<1>5. AlertTypes' /\ A!PendingMeansActive' /\ LastHeard' /\ Announced' = Announced /\ g_active' = g_active
  BY <1>1 DEF AInv, AlertTypes, A!PendingMeansActive, LastHeard, Announced, A!alert, A!ages
<1>6. ASSUME NEW u \in R!Thread
      PROVE  UnderWay(alert_publisher[u])'
  <2>1. CASE u = t
    <3>1. alert_publisher'[u] = p
      BY <1>1, <2>1 DEF AInv
    <3>2. ~p.crossed => (p.payload > 0) = ~p.heartbeat
      <4>1. c \in Nat /\ (q.heartbeat => c = 0)
        BY DEF AInv, AlertTypes, A!ConstantsAssumption
      <4>2. ~x => (c = 0 => q.heartbeat)
        OBVIOUS
      <4>3. (c > 0) = (c # 0)
        BY <4>1
      <4> HIDE DEF c, x
      <4> QED BY <1>2, <1>3, <4>1, <4>2, <4>3 DEF AlertPublisher
    <3>3. ~p.crossed /\ p.heartbeat = g_active => Announced
      BY <1>2, <1>3 DEF UnderWay
    <3> QED BY <1>3, <1>5, <3>1, <3>2, <3>3 DEF UnderWay
  <2>2. CASE u # t
    BY <1>1, <1>5, <2>2 DEF AInv, UnderWay
  <2> QED BY <2>1, <2>2
<1> QED BY <1>4, <1>5, <1>6 DEF AInv

LEMMA RefusedKeeps ==
  ASSUME A!ConstantsAssumption, AInv, NEW t \in R!Thread, A!Send_LoRa_Payload_Refused(t)
  PROVE  AInv'
<1>1. /\ alert_publisher' = [alert_publisher EXCEPT ![t] = A!Idle]
      /\ UNCHANGED <<A!alert, A!ages, allowed, heard, alert_crossed>>
  BY DEF A!Send_LoRa_Payload_Refused, A!Go
<1>2. A!Idle \in AlertPublisher /\ A!Idle.at = "idle"
  BY IdleTyped
<1>3. alert_publisher' \in [R!Thread -> AlertPublisher]
  BY <1>1, <1>2 DEF AInv
<1>4. AlertTypes' /\ A!PendingMeansActive' /\ LastHeard' /\ Announced' = Announced /\ g_active' = g_active
  BY <1>1 DEF AInv, AlertTypes, A!PendingMeansActive, LastHeard, Announced, A!alert, A!ages
<1>5. ASSUME NEW u \in R!Thread
      PROVE  UnderWay(alert_publisher[u])'
  <2>1. CASE u = t
    BY <1>1, <1>2, <2>1 DEF AInv, UnderWay
  <2>2. CASE u # t
    BY <1>1, <1>4, <2>2 DEF AInv, UnderWay
  <2> QED BY <2>1, <2>2
<1> QED BY <1>3, <1>4, <1>5 DEF AInv

\* An accepted send or its marking: the uplink of another thread is crossed if it is
\* under way.
LEMMA OthersCrossed ==
  ASSUME AInv, NEW t \in R!Thread, NEW p \in AlertPublisher,
         alert_publisher' = A!Crossing(t, p)
  PROVE  /\ alert_publisher' \in [R!Thread -> AlertPublisher]
         /\ alert_publisher'[t] = p
         /\ \A u \in R!Thread : u # t => UnderWay(alert_publisher[u])'
<1>1. ASSUME NEW u \in R!Thread
      PROVE  [alert_publisher[u] EXCEPT !.crossed = TRUE] \in AlertPublisher
             /\ [alert_publisher[u] EXCEPT !.crossed = TRUE].crossed
  BY DEF AInv, AlertPublisher
<1>2. alert_publisher' \in [R!Thread -> AlertPublisher] /\ alert_publisher'[t] = p
  BY <1>1 DEF AInv, A!Crossing
<1>3. ASSUME NEW u \in R!Thread, u # t
      PROVE  alert_publisher'[u].at = "idle" \/ alert_publisher'[u].crossed
  BY <1>1, <1>3 DEF A!Crossing, A!At
<1> QED BY <1>2, <1>3 DEF UnderWay

LEMMA AcceptedKeeps ==
  ASSUME A!ConstantsAssumption, AInv, NEW t \in R!Thread, A!Send_LoRa_Payload_Accepted(t)
  PROVE  AInv'
<1> DEFINE q == alert_publisher[t]
<1>1. PICK p : /\ p = [q EXCEPT !.at = "accepted", !.payload = 0]
               /\ alert_publisher' = A!Crossing(t, p)
  BY DEF A!Send_LoRa_Payload_Accepted
<1>2. /\ heard' = q.payload /\ alert_crossed' = q.crossed
      /\ UNCHANGED <<A!alert, A!ages, allowed>>
  BY DEF A!Send_LoRa_Payload_Accepted
<1>3. q \in AlertPublisher /\ q.at = "sending" /\ UnderWay(q)
  BY DEF AInv, A!Send_LoRa_Payload_Accepted, A!At
<1>4. /\ p \in AlertPublisher /\ p.at = "accepted" /\ p.heartbeat = q.heartbeat
      /\ p.crossed = q.crossed
  <2>1. 0 \in 0 .. MaxCount
    BY DEF A!ConstantsAssumption
  <2> QED BY <1>1, <1>3, <2>1, UpdatedPayload DEF AlertPublisher
<1>5. A!PendingMeansActive' /\ Announced' = Announced /\ g_active' = g_active
  BY <1>2 DEF AInv, A!PendingMeansActive, Announced, A!alert, A!ages
<1>6. AlertTypes'
  BY <1>2, <1>3 DEF AInv, AlertTypes, AlertPublisher, A!alert, A!ages
<1>7. ~q.crossed => /\ (heard' > 0) = ~q.heartbeat
                    /\ q.heartbeat = g_active => Announced
  BY <1>2, <1>3 DEF UnderWay
<1>8. g_active \in BOOLEAN /\ q.heartbeat \in BOOLEAN
  BY <1>3 DEF AInv, AlertTypes, AlertPublisher
<1>9. LastHeard'
  BY <1>2, <1>5, <1>7, <1>8 DEF LastHeard
<1>10. UnderWay(alert_publisher[t])'
  BY <1>1, <1>2, <1>4, <1>5, <1>7, OthersCrossed DEF UnderWay
<1> QED BY <1>1, <1>4, <1>5, <1>6, <1>9, <1>10, OthersCrossed DEF AInv

LEMMA MarkKeeps ==
  ASSUME A!ConstantsAssumption, AInv, NEW t \in R!Thread, A!Alert_Mark_Published(t)
  PROVE  AInv'
<1> DEFINE q == alert_publisher[t]
<1>1. /\ alert_publisher' = A!Crossing(t, A!Idle)
      /\ alert_crossed' = (alert_crossed \/ q.crossed)
      /\ g_pending' = (g_pending /\ ~A!ClearsPending(q.heartbeat))
      /\ UNCHANGED <<g_active, g_detect_since, g_clear_since, allowed, heard>>
  BY DEF A!Alert_Mark_Published
<1>2. q \in AlertPublisher /\ q.at = "accepted" /\ UnderWay(q)
  BY DEF AInv, A!Alert_Mark_Published, A!At
<1>3. IF q.heartbeat
      THEN /\ g_last_heartbeat_time' = 0 /\ g_inactive_pending' = FALSE
           /\ UNCHANGED <<g_active_max, g_last_active_publish_time>>
      ELSE /\ g_active_max' = 0 /\ g_last_active_publish_time' = 0
           /\ UNCHANGED <<g_inactive_pending, g_last_heartbeat_time>>
  BY DEF A!Alert_Mark_Published
<1>4. /\ q.heartbeat => g_pending' = g_pending
      /\ ~q.heartbeat => g_pending' = FALSE
  BY <1>1 DEF AInv, AlertTypes, A!ClearsPending
<1>5. q.heartbeat \in BOOLEAN /\ q.crossed \in BOOLEAN /\ alert_crossed \in BOOLEAN
      /\ g_active \in BOOLEAN
  BY <1>2 DEF AInv, AlertTypes, AlertPublisher
<1>6. AlertTypes'
  <2>1. /\ g_active' \in BOOLEAN /\ g_pending' \in BOOLEAN /\ g_inactive_pending' \in BOOLEAN
        /\ allowed' \in BOOLEAN /\ alert_crossed' \in BOOLEAN
    BY <1>1, <1>3 DEF AInv, AlertTypes
  <2>2. /\ g_active_max' \in 0 .. MaxCount /\ heard' \in 0 .. MaxCount
        /\ g_detect_since' \in A!Never .. transition_seconds
        /\ g_clear_since' \in A!Never .. transition_seconds
    BY <1>1, <1>3 DEF AInv, AlertTypes, A!ConstantsAssumption
  <2>3. /\ g_last_active_publish_time' \in A!Never .. active_interval_seconds
        /\ g_last_heartbeat_time' \in A!Never .. heartbeat_minutes
    BY <1>3 DEF AInv, AlertTypes, A!ConstantsAssumption, A!Never
  <2> QED BY <2>1, <2>2, <2>3 DEF AlertTypes
<1>7. A!PendingMeansActive'
  BY <1>1, <1>3, <1>4 DEF AInv, A!PendingMeansActive
<1>8. LastHeard'
  <2>1. SUFFICES ASSUME ~alert_crossed, ~q.crossed, (heard > 0) # g_active
                 PROVE  Announced'
    BY <1>1, <1>5 DEF LastHeard
  <2>2. Announced /\ (heard > 0) = ~q.heartbeat
    BY <1>2, <2>1 DEF AInv, LastHeard, UnderWay
  <2>3. q.heartbeat = g_active
    BY <1>5, <2>1, <2>2
  <2> QED BY <1>1, <1>3, <1>4, <2>2, <2>3 DEF Announced
<1>9. UnderWay(alert_publisher[t])'
  BY <1>1, IdleTyped, OthersCrossed DEF UnderWay
<1> QED BY <1>1, <1>6, <1>7, <1>8, <1>9, IdleTyped, OthersCrossed DEF AInv

LEMMA AlertStepKeeps ==
  ASSUME A!ConstantsAssumption, AInv, [A!Next]_(A!vars)
  PROVE  AInv'
<1>1. CASE A!Next
  <2>1. CASE AlertItself
    BY <2>1, AlertItselfKeeps
  <2>2. ASSUME NEW t \in R!Thread, A!Decide(t) \/ A!Publish_Alert_To_LoRa(t)
        PROVE  AInv'
    BY <2>2, DecideKeeps, BuildKeeps, AcceptedKeeps, RefusedKeeps, MarkKeeps
    DEF A!Publish_Alert_To_LoRa
  <2> QED BY <1>1, <2>1, <2>2 DEF A!Next, AlertItself
<1>2. CASE UNCHANGED A!vars
  <2>1. AlertTypes' /\ A!PendingMeansActive' /\ LastHeard'
    BY <1>2 DEF A!vars, A!alert, A!ages, AInv, AlertTypes, A!PendingMeansActive, LastHeard, Announced
  <2>2. \A t \in R!Thread : UnderWay(alert_publisher[t])'
    BY <1>2 DEF A!vars, A!alert, A!ages, AInv, UnderWay, Announced
  <2> QED BY <1>2, <2>1, <2>2 DEF A!vars, AInv
<1> QED BY <1>1, <1>2

\* What the status page announces: the ages stop at the limits.
LEMMA NextTimeRight == A!ConstantsAssumption /\ AInv => A!NextTimeAgrees
  BY DEF A!ConstantsAssumption, AInv, AlertTypes, A!NextTimeAgrees, A!Alert_Should_Publish,
         A!ActiveDue, A!HeartbeatDue, A!Alert_Next_Publish_Time_Now, A!Never

LEMMA AlertHolds ==
  ASSUME A!ConstantsAssumption
  PROVE  A!Spec => []AInv
<1>1. A!Init => AInv
  BY AlertStarts
<1>2. AInv /\ [A!Next]_(A!vars) => AInv'
  BY AlertStepKeeps
<1> QED BY <1>1, <1>2, PTL DEF A!Spec

\* For all limits and numbers of objects: no activation of the alert and no end of one
\* is forgotten, unless uplinks crossed or the alert ended before its payload was built.
THEOREM AlertHeard ==
  ASSUME A!ConstantsAssumption
  PROVE  A!Spec => []ChangeAnnounced
<1>1. AInv => ChangeAnnounced
  BY DEF AInv, LastHeard, Announced, ChangeAnnounced, A!ChangeAnnounced
<1> QED BY <1>1, AlertHolds, PTL
-----------------------------------------------------------------------------
(***************************************************************************)
(* The reports.                                                            *)
(***************************************************************************)

Interval ==
  [vehicles : 0 .. MaxVehicles, speeding : 0 .. MaxVehicles,
   maximum : Nat, minimum : Nat, sum : Nat]

\* The average lies between the extremes, which exist once there was a vehicle.
Ordered(v) ==
  /\ v.speeding <= v.vehicles
  /\ v.vehicles = 0 <=> v.minimum = 0
  /\ v.vehicles * v.minimum <= v.sum /\ v.sum <= v.vehicles * v.maximum

ReportPoint == {"idle", "called", "built", "sending", "accepted", "marked"}
ReportPublisher ==
  [at : ReportPoint, stream : R!Stream, mph : BOOLEAN, payload : R!Payload \cup {R!NoPayload}]

Told(p) == p.payload # R!NoPayload /\ p.stream = "speed" => R!Consistent(p.payload)

ReportTypes ==
  /\ enabled \subseteq R!Stream /\ unit \in Units /\ limit \in SpeedLimit
  /\ due \subseteq R!Stream /\ peak \in 0 .. MaxPeak /\ report_changes \in 0 .. MaxChanges
  /\ interval \in Interval

RInv ==
  /\ ReportTypes /\ publisher \in [R!Thread -> ReportPublisher]
  /\ Ordered(interval)
  /\ \A t \in R!Thread : Told(publisher[t])

LEMMA ReportsTyped == RInv => R!TypeOK /\ R!SummariesConsistent
  BY DEF RInv, ReportTypes, Interval, R!TypeOK, R!SummariesConsistent, ReportPublisher,
         ReportPoint, Told

\* Arithmetic: quotients of naturals that are in order stay so when rounded down.
LEMMA Product ==
  ASSUME NEW x \in Nat, NEW y \in Nat, NEW z \in Nat, x <= y
  PROVE  x * z <= y * z /\ x * z \in Nat /\ y * z \in Nat
  OBVIOUS

LEMMA Quotient ==
  ASSUME NEW a \in Nat, NEW d \in Nat \ {0}
  PROVE  /\ a \div d \in Nat
         /\ d * (a \div d) <= a /\ a < d * ((a \div d) + 1)
  OBVIOUS

LEMMA QuotientsOrdered ==
  ASSUME NEW a \in Nat, NEW b \in Nat, NEW d \in Nat \ {0}, NEW e \in Nat \ {0},
         a * e <= b * d
  PROVE  a \div d <= b \div e
<1> DEFINE q == a \div d
<1> DEFINE p == b \div e
<1>1. q \in Nat /\ p \in Nat /\ d * q <= a /\ b < e * (p + 1)
  BY Quotient
<1> HIDE DEF q, p
<1>2. SUFFICES ASSUME p + 1 <= q
               PROVE  FALSE
  BY <1>1 DEF q, p
<1>3. d * (p + 1) <= a
  <2>1. (p + 1) * d <= q * d
    BY <1>1, <1>2, Product
  <2> QED BY <1>1, <2>1
<1>4. (d * (p + 1)) * e <= a * e
  BY <1>1, <1>3, Product
<1>5. b * d < (e * (p + 1)) * d
  <2>1. b + 1 <= e * (p + 1) /\ e * (p + 1) \in Nat
    BY <1>1
  <2>2. (b + 1) * d <= (e * (p + 1)) * d
    BY <2>1, Product
  <2> QED BY <2>1, <2>2
<1>6. (d * (p + 1)) * e = (e * (p + 1)) * d
  BY <1>1
<1> QED BY <1>1, <1>4, <1>5, <1>6

LEMMA Clamped ==
  ASSUME R!ConstantsAssumption, NEW m \in Nat, NEW n \in Nat, m <= n
  PROVE  /\ R!Clamp_Payload_Count(m) \in 0 .. MaxPayload
         /\ R!Clamp_Payload_Count(m) <= R!Clamp_Payload_Count(n)
         /\ R!Clamp_Payload_Count(m) = 0 <=> m = 0
  BY DEF R!ConstantsAssumption, R!Clamp_Payload_Count

\* Speed_Encode keeps the order of the fractions that it encodes.
LEMMA EncodedOrdered ==
  ASSUME R!ConstantsAssumption, NEW a \in Nat, NEW b \in Nat, NEW d \in Nat \ {0},
         NEW e \in Nat \ {0}, a * e <= b * d
  PROVE  R!Speed_Encode(a, d) <= R!Speed_Encode(b, e)
<1>1. (2 * a + d) * (2 * e) <= (2 * b + e) * (2 * d)
  <2>1. (2 * a + d) * (2 * e) = 4 * (a * e) + 2 * (d * e)
    OBVIOUS
  <2>2. (2 * b + e) * (2 * d) = 4 * (b * d) + 2 * (d * e)
    OBVIOUS
  <2> QED BY <2>1, <2>2
<1>2. (2 * a + d) \div (2 * d) <= (2 * b + e) \div (2 * e)
  <2> DEFINE x == 2 * a + d
  <2> DEFINE y == 2 * b + e
  <2> DEFINE u == 2 * d
  <2> DEFINE v == 2 * e
  <2>1. x \in Nat /\ y \in Nat /\ u \in Nat \ {0} /\ v \in Nat \ {0} /\ x * v <= y * u
    BY <1>1
  <2> HIDE DEF x, y, u, v
  <2>2. x \div u <= y \div v
    BY <2>1, QuotientsOrdered
  <2> QED BY <2>2 DEF x, y, u, v
<1>3. (2 * a + d) \div (2 * d) \in Nat /\ (2 * b + e) \div (2 * e) \in Nat
  BY Quotient
<1> QED BY <1>2, <1>3, Clamped DEF R!Speed_Encode

LEMMA EncodedTyped ==
  ASSUME R!ConstantsAssumption, NEW a \in Nat, NEW d \in Nat \ {0}
  PROVE  R!Speed_Encode(a, d) \in 0 .. MaxPayload
<1>1. (2 * a + d) \div (2 * d) \in Nat
  BY Quotient
<1> QED BY <1>1, Clamped DEF R!Speed_Encode

LEMMA EncodedZero ==
  ASSUME R!ConstantsAssumption, NEW a \in Nat
  PROVE  /\ R!Speed_Encode(a, 1) = 0 <=> a = 0
         /\ R!Speed_Encode(a * 621, 1000) = 0 <=> a = 0
<1>1. /\ (2 * a + 1) \div (2 * 1) \in Nat
      /\ (2 * a + 1) \div (2 * 1) = 0 <=> a = 0
  OBVIOUS
<1>2. /\ (2 * (a * 621) + 1000) \div (2 * 1000) \in Nat
      /\ (2 * (a * 621) + 1000) \div (2 * 1000) = 0 <=> a = 0
  OBVIOUS
<1> QED BY <1>1, <1>2, Clamped DEF R!Speed_Encode

\* In either unit.
LEMMA ConvertedOrdered ==
  ASSUME R!ConstantsAssumption, NEW a \in Nat, NEW b \in Nat, NEW d \in Nat \ {0},
         NEW e \in Nat \ {0}, a * e <= b * d, NEW mph \in BOOLEAN
  PROVE  /\ R!Converted(a, d, mph) <= R!Converted(b, e, mph)
         /\ R!Converted(a, d, mph) \in 0 .. MaxPayload
         /\ R!Converted(a, 1, mph) = 0 <=> a = 0
<1>1. (a * 621) * (e * 1000) <= (b * 621) * (d * 1000)
  <2>1. (a * 621) * (e * 1000) = 621000 * (a * e)
    OBVIOUS
  <2>2. (b * 621) * (d * 1000) = 621000 * (b * d)
    OBVIOUS
  <2> QED BY <2>1, <2>2
<1>2. R!Speed_Encode(a * 621, d * 1000) <= R!Speed_Encode(b * 621, e * 1000)
  BY <1>1, EncodedOrdered
<1>3. R!Speed_Encode(a, d) <= R!Speed_Encode(b, e)
  BY EncodedOrdered
<1>4. /\ R!Speed_Encode(a, d) \in 0 .. MaxPayload
      /\ R!Speed_Encode(a * 621, d * 1000) \in 0 .. MaxPayload
  BY EncodedTyped
<1>5. R!Converted(a, 1, mph) = 0 <=> a = 0
  <2>1. 1 * 1000 = 1000
    OBVIOUS
  <2>2. /\ R!Speed_Encode(a, 1) = 0 <=> a = 0
        /\ R!Speed_Encode(a * 621, 1 * 1000) = 0 <=> a = 0
    BY <2>1, EncodedZero
  <2> QED BY <2>2 DEF R!Converted
<1> QED BY <1>2, <1>3, <1>4, <1>5 DEF R!Converted

LEMMA ConvertedTyped ==
  ASSUME R!ConstantsAssumption, NEW a \in Nat, NEW d \in Nat \ {0}, NEW mph \in BOOLEAN
  PROVE  R!Converted(a, d, mph) \in 0 .. MaxPayload
<1>1. R!Speed_Encode(a, d) \in 0 .. MaxPayload
  BY EncodedTyped
<1>2. R!Speed_Encode(a * 621, d * 1000) \in 0 .. MaxPayload
  <2>1. a * 621 \in Nat /\ d * 1000 \in Nat \ {0}
    OBVIOUS
  <2> QED BY <2>1, EncodedTyped
<1> QED BY <1>1, <1>2 DEF R!Converted

\* What Speed_Build_Payload makes of an interval.
LEMMA SummaryConsistent ==
  ASSUME R!ConstantsAssumption, NEW v \in Interval, Ordered(v), NEW mph \in BOOLEAN
  PROVE  /\ R!Speed_Build_Payload(v, mph) \in R!Payload
         /\ R!Consistent(R!Speed_Build_Payload(v, mph))
<1> DEFINE n == IF v.vehicles = 0 THEN 1 ELSE v.vehicles
<1>1. /\ v.vehicles \in Nat /\ v.speeding \in Nat /\ v.minimum \in Nat /\ v.maximum \in Nat
      /\ v.sum \in Nat /\ n \in Nat \ {0}
  BY DEF Interval, R!ConstantsAssumption
<1> DEFINE one == 1
<1>0. /\ v.speeding <= v.vehicles
      /\ v.vehicles = 0 <=> v.minimum = 0
      /\ v.vehicles * v.minimum <= v.sum /\ v.sum <= v.vehicles * v.maximum
  BY DEF Ordered
<1>2. /\ v.minimum * n <= v.sum * one /\ v.sum * one <= v.maximum * n
      /\ v.speeding * one <= v.vehicles * one /\ one \in Nat \ {0}
  <2>1. CASE v.vehicles = 0
    <3>1. v.minimum = 0 /\ n = 1
      BY <1>0, <2>1
    <3>2. v.sum <= 0
      <4>1. v.sum <= 0 * v.maximum
        BY <1>0, <2>1
      <4> QED BY <1>1, <4>1
    <3>3. v.sum = 0
      BY <1>1, <3>2
    <3>4. v.speeding = 0
      BY <1>0, <1>1, <2>1
    <3> HIDE DEF n
    <3> QED BY <1>1, <2>1, <3>1, <3>3, <3>4
  <2>2. CASE v.vehicles # 0
    BY <1>0, <1>1, <2>2
  <2> QED BY <2>1, <2>2
<1> HIDE DEF n, one
<1>3. /\ R!Converted(v.minimum, one, mph) <= R!Converted(v.sum, n, mph)
      /\ R!Converted(v.sum, n, mph) <= R!Converted(v.maximum, one, mph)
  BY <1>1, <1>2, ConvertedOrdered
<1>4. /\ R!Converted(v.minimum, one, mph) \in 0 .. MaxPayload
      /\ R!Converted(v.sum, n, mph) \in 0 .. MaxPayload
      /\ R!Converted(v.maximum, one, mph) \in 0 .. MaxPayload
  BY <1>1, <1>2, ConvertedTyped
<1>5. R!Converted(v.minimum, 1, mph) = 0 <=> v.minimum = 0
  BY <1>1, ConvertedOrdered
<1>6. /\ R!Speed_Encode(v.speeding, one) <= R!Speed_Encode(v.vehicles, one)
      /\ R!Speed_Encode(v.speeding, one) \in 0 .. MaxPayload
      /\ R!Speed_Encode(v.vehicles, one) \in 0 .. MaxPayload
      /\ R!Speed_Encode(v.vehicles, 1) = 0 <=> v.vehicles = 0
  <2>1. R!Speed_Encode(v.speeding, one) <= R!Speed_Encode(v.vehicles, one)
    BY <1>1, <1>2, EncodedOrdered
  <2>2. /\ R!Speed_Encode(v.speeding, one) \in 0 .. MaxPayload
        /\ R!Speed_Encode(v.vehicles, one) \in 0 .. MaxPayload
    BY <1>1, <1>2, EncodedTyped
  <2>3. R!Speed_Encode(v.vehicles, 1) = 0 <=> v.vehicles = 0
    BY <1>1, EncodedZero
  <2> QED BY <2>1, <2>2, <2>3
<1>7. R!Speed_Build_Payload(v, mph) =
        [vehicles |-> R!Speed_Encode(v.vehicles, 1), speeding |-> R!Speed_Encode(v.speeding, 1),
         maximum |-> R!Converted(v.maximum, 1, mph), average |-> R!Converted(v.sum, n, mph),
         minimum |-> R!Converted(v.minimum, 1, mph)]
  BY DEF R!Speed_Build_Payload, n
<1>8. R!Speed_Build_Payload(v, mph) \in R!Payload
  BY <1>4, <1>6, <1>7 DEF R!Payload, one
<1>9. R!Consistent(R!Speed_Build_Payload(v, mph))
  BY <1>3, <1>5, <1>6, <1>7 DEF R!Consistent, Ordered, one
<1> QED BY <1>8, <1>9

LEMMA CountTyped ==
  ASSUME R!ConstantsAssumption, peak \in 0 .. MaxPeak
  PROVE  R!Build_Selected_Count_Payload(peak) \in R!Payload
<1>1. R!Clamp_Payload_Count(peak) \in 0 .. MaxPayload
  BY Clamped DEF R!ConstantsAssumption
<1> QED BY <1>1 DEF R!Build_Selected_Count_Payload, R!Payload

\* A vehicle more.
LEMMA RecordedOrdered ==
  ASSUME R!ConstantsAssumption, NEW v \in Interval, Ordered(v), NEW s \in Speed,
         v.vehicles < MaxVehicles
  PROVE  R!WithVehicle(v, s) \in Interval /\ Ordered(R!WithVehicle(v, s))
<1>1. /\ v.vehicles \in Nat /\ v.speeding \in Nat /\ v.minimum \in Nat /\ v.maximum \in Nat
      /\ v.sum \in Nat /\ s \in Nat \ {0} /\ MaxVehicles \in Nat
  BY DEF Interval, R!ConstantsAssumption
<1>0. /\ v.speeding <= v.vehicles
      /\ v.vehicles = 0 <=> v.minimum = 0
      /\ v.vehicles * v.minimum <= v.sum /\ v.sum <= v.vehicles * v.maximum
  BY DEF Ordered
<1> DEFINE w == R!WithVehicle(v, s)
<1> DEFINE low == R!Slowest(v, s)
<1> DEFINE high == IF s > v.maximum THEN s ELSE v.maximum
<1> DEFINE fast == v.speeding + (IF s > limit THEN 1 ELSE 0)
<1>2. w = [vehicles |-> v.vehicles + 1, speeding |-> fast, maximum |-> high,
           minimum |-> low, sum |-> v.sum + s]
  BY DEF R!WithVehicle
<1>3. /\ low \in Nat \ {0} /\ high \in Nat /\ fast \in Nat /\ fast <= v.vehicles + 1
      /\ low <= s /\ s <= high /\ v.maximum <= high
      /\ v.vehicles # 0 => low <= v.minimum
  <2>1. /\ low \in Nat \ {0} /\ low <= s
        /\ v.vehicles # 0 => low <= v.minimum
    <3>1. v.vehicles # 0 => v.minimum \in Nat \ {0}
      BY <1>0, <1>1
    <3>2. CASE v.vehicles = 0
      BY <1>1, <3>2 DEF R!Slowest
    <3>3. CASE v.vehicles # 0
      BY <1>1, <3>1, <3>3 DEF R!Slowest
    <3> QED BY <3>2, <3>3
  <2>2. high \in Nat /\ s <= high /\ v.maximum <= high
    BY <1>1
  <2>3. fast \in Nat /\ fast <= v.vehicles + 1
    BY <1>0, <1>1
  <2> QED BY <2>1, <2>2, <2>3
<1> HIDE DEF low, high, fast
<1>4. (v.vehicles + 1) * low <= v.sum + s
  <2>1. v.vehicles * low <= v.sum
    <3>1. CASE v.vehicles = 0
      BY <1>1, <1>3, <3>1
    <3>2. CASE v.vehicles # 0
      <4>1. low * v.vehicles <= v.minimum * v.vehicles
        BY <1>1, <1>3, <3>2, Product
      <4>2. v.vehicles * low = low * v.vehicles /\ v.vehicles * v.minimum = v.minimum * v.vehicles
            /\ v.vehicles * low \in Nat /\ v.vehicles * v.minimum \in Nat
        BY <1>1, <1>3
      <4> QED BY <1>0, <1>1, <4>1, <4>2
    <3> QED BY <3>1, <3>2
  <2>2. (v.vehicles + 1) * low = v.vehicles * low + low
    BY <1>1, <1>3
  <2> QED BY <1>1, <1>3, <2>1, <2>2
<1>5. v.sum + s <= (v.vehicles + 1) * high
  <2>1. v.sum <= v.vehicles * high
    <3>1. v.maximum * v.vehicles <= high * v.vehicles
      BY <1>1, <1>3, Product
    <3>2. v.vehicles * high = high * v.vehicles /\ v.vehicles * v.maximum = v.maximum * v.vehicles
          /\ v.vehicles * high \in Nat /\ v.vehicles * v.maximum \in Nat
      BY <1>1, <1>3
    <3> QED BY <1>0, <1>1, <3>1, <3>2
  <2>2. (v.vehicles + 1) * high = v.vehicles * high + high
    BY <1>1, <1>3
  <2> QED BY <1>1, <1>3, <2>1, <2>2
<1>6. w \in Interval
  BY <1>1, <1>2, <1>3 DEF Interval
<1>7. Ordered(w)
  BY <1>0, <1>1, <1>2, <1>3, <1>4, <1>5 DEF Ordered
<1> QED BY <1>6, <1>7
-----------------------------------------------------------------------------
LEMMA ReportsStart == R!ConstantsAssumption /\ R!Init => RInv
<1> SUFFICES ASSUME R!ConstantsAssumption, R!Init
             PROVE  RInv
  OBVIOUS
<1>1. R!Idle \in ReportPublisher /\ R!Idle.payload = R!NoPayload
  BY DEF R!Idle, ReportPublisher, ReportPoint, R!Stream
<1>2. publisher \in [R!Thread -> ReportPublisher] /\ \A t \in R!Thread : Told(publisher[t])
  BY <1>1 DEF R!Init, Told
<1>3. interval \in Interval /\ Ordered(interval)
  BY DEF R!ConstantsAssumption, R!Init, R!NoVehicles, Interval, Ordered
<1>4. ReportTypes
  BY <1>3 DEF R!ConstantsAssumption, R!Init, ReportTypes
<1> QED BY <1>2, <1>3, <1>4 DEF RInv

\* What is recorded, time and the settings: no publisher moves.
LEMMA RecordKeeps ==
  ASSUME R!ConstantsAssumption, RInv,
         \/ R!Record \/ R!Radar_Reset_State \/ R!Load_Transmission_Config
         \/ \E s \in R!Stream : R!TimePasses(s)
  PROVE  RInv'
<1>1. /\ interval' \in Interval /\ Ordered(interval')
      /\ ReportTypes' /\ publisher' = publisher
  <2>1. CASE R!Record
    <3>1. ASSUME NEW count \in 0 .. MaxPeak, R!Occupancy_Update_Current(count)
          PROVE  <1>1!:
      BY <3>1 DEF RInv, ReportTypes, R!Occupancy_Update_Current, R!settings
    <3>2. ASSUME NEW s \in Speed, R!Speed_Record_Vehicle(s)
          PROVE  <1>1!:
      <4>1. interval' \in Interval /\ Ordered(interval')
        BY <3>2, RecordedOrdered DEF RInv, ReportTypes, R!Speed_Record_Vehicle
      <4> QED BY <3>2, <4>1 DEF RInv, ReportTypes, R!Speed_Record_Vehicle, R!settings
    <3> QED BY <2>1, <3>1, <3>2 DEF R!Record
  <2>2. CASE R!Radar_Reset_State
    BY <2>2 DEF RInv, ReportTypes, R!Radar_Reset_State, R!settings, R!ConstantsAssumption
  <2>3. CASE R!Load_Transmission_Config
    BY <2>3 DEF RInv, ReportTypes, R!Load_Transmission_Config, R!ConstantsAssumption
  <2>4. CASE \E s \in R!Stream : R!TimePasses(s)
    BY <2>4 DEF RInv, ReportTypes, R!TimePasses, R!settings
  <2> QED BY <2>1, <2>2, <2>3, <2>4
<1>2. \A t \in R!Thread : Told(publisher[t])'
  BY <1>1 DEF RInv, Told
<1> QED BY <1>1, <1>2 DEF RInv

\* A publisher moves.
LEMMA UpdatedReport ==
  ASSUME NEW t \in R!Thread, NEW p \in ReportPublisher, Told(p), RInv,
         publisher' = [publisher EXCEPT ![t] = p]
  PROVE  publisher' \in [R!Thread -> ReportPublisher] /\ \A u \in R!Thread : Told(publisher'[u])
  BY DEF RInv

LEMMA UpdatedPoint ==
  ASSUME NEW Points, NEW Ss, NEW Flags, NEW Values,
         NEW q \in [at : Points, stream : Ss, mph : Flags, payload : Values], NEW a \in Points,
         NEW p, p = [q EXCEPT !.at = a]
  PROVE  /\ p \in [at : Points, stream : Ss, mph : Flags, payload : Values]
         /\ p.payload = q.payload /\ p.stream = q.stream
  OBVIOUS

LEMMA UpdatedStream ==
  ASSUME NEW Points, NEW Ss, NEW Flags, NEW Values,
         NEW q \in [at : Points, stream : Ss, mph : Flags, payload : Values], NEW a \in Points,
         NEW s \in Ss, NEW p, p = [q EXCEPT !.at = a, !.stream = s]
  PROVE  /\ p \in [at : Points, stream : Ss, mph : Flags, payload : Values]
         /\ p.payload = q.payload
  OBVIOUS

LEMMA UpdatedUnit ==
  ASSUME NEW Points, NEW Ss, NEW Flags, NEW Values,
         NEW q \in [at : Points, stream : Ss, mph : Flags, payload : Values], NEW a \in Points,
         NEW m \in Flags, NEW p, p = [q EXCEPT !.at = a, !.mph = m]
  PROVE  /\ p \in [at : Points, stream : Ss, mph : Flags, payload : Values]
         /\ p.payload = q.payload /\ p.stream = q.stream
  OBVIOUS

LEMMA UpdatedSummary ==
  ASSUME NEW Points, NEW Ss, NEW Flags, NEW Values,
         NEW q \in [at : Points, stream : Ss, mph : Flags, payload : Values], NEW a \in Points,
         NEW c \in Values, NEW p, p = [q EXCEPT !.at = a, !.payload = c]
  PROVE  /\ p \in [at : Points, stream : Ss, mph : Flags, payload : Values]
         /\ p.payload = c /\ p.stream = q.stream
  OBVIOUS

LEMMA IdleReport == R!Idle \in ReportPublisher /\ R!Idle.payload = R!NoPayload /\ Told(R!Idle)
  BY DEF R!Idle, ReportPublisher, ReportPoint, R!Stream, Told

\* Each step of a publish gives its publisher a next record of the right type, whose
\* summary, if any, is consistent.
Moves(t, p) ==
  p \in ReportPublisher /\ Told(p) /\ publisher' = [publisher EXCEPT ![t] = p]

LEMMA CalledMoves ==
  ASSUME RInv, NEW s \in R!Stream
  PROVE  /\ R!Publish_Thread_Due(s) => \E p : Moves("Publish_Thread", p)
         /\ R!HTTP_Endpoint_publish(s) => \E p : Moves("FCGI", p)
<1> DEFINE p == [R!Idle EXCEPT !.at = "called", !.stream = s]
<1>1. p \in ReportPublisher /\ Told(p)
  BY IdleReport, UpdatedStream DEF ReportPublisher, ReportPoint, Told
<1>2. R!Publish_Thread_Due(s) => publisher' = [publisher EXCEPT !["Publish_Thread"] = p]
  BY DEF R!Publish_Thread_Due, R!Go
<1>3. R!HTTP_Endpoint_publish(s) => publisher' = [publisher EXCEPT !["FCGI"] = p]
  BY DEF R!HTTP_Endpoint_publish, R!Go
<1> HIDE DEF p
<1> QED BY <1>1, <1>2, <1>3 DEF Moves

LEMMA StartMoves ==
  ASSUME RInv, NEW t \in R!Thread, R!Publish_Start(t)
  PROVE  \E p : Moves(t, p)
<1> DEFINE q == publisher[t]
<1> DEFINE m == (unit = "mph")
<1> DEFINE p == [q EXCEPT !.at = "built", !.mph = m]
<1>1. q \in ReportPublisher /\ Told(q) /\ m \in BOOLEAN /\ "built" \in ReportPoint
  BY DEF RInv, ReportPoint
<1>2. publisher' = [publisher EXCEPT ![t] = IF q.stream \in enabled THEN p ELSE R!Idle]
  BY DEF R!Publish_Start, R!Go
<1> HIDE DEF m, q
<1>3. p \in ReportPublisher /\ Told(p)
  BY <1>1, UpdatedUnit DEF ReportPublisher, Told
<1> HIDE DEF p
<1> QED BY <1>2, <1>3, IdleReport DEF Moves

LEMMA BuiltMoves ==
  ASSUME R!ConstantsAssumption, RInv, NEW t \in R!Thread, R!Publish_Build(t)
  PROVE  \E p : Moves(t, p)
<1> DEFINE q == publisher[t]
<1> DEFINE c == R!Snapshot(q.stream, q.mph)
<1> DEFINE p == [q EXCEPT !.at = "sending", !.payload = c]
<1>1. q \in ReportPublisher /\ q.mph \in BOOLEAN /\ "sending" \in ReportPoint
  BY DEF RInv, ReportPoint, ReportPublisher
<1>2. c \in R!Payload /\ (q.stream = "speed" => R!Consistent(c))
  BY <1>1, SummaryConsistent, CountTyped DEF RInv, ReportTypes, R!Snapshot
<1>3. publisher' = [publisher EXCEPT ![t] = p]
  BY DEF R!Publish_Build, R!Go
<1> HIDE DEF c, q
<1>4. p \in ReportPublisher /\ Told(p)
  <2>1. c \in R!Payload \cup {R!NoPayload}
    BY <1>2
  <2> QED BY <1>1, <1>2, <2>1, UpdatedSummary DEF ReportPublisher, Told
<1> HIDE DEF p
<1> QED BY <1>3, <1>4 DEF Moves

LEMMA SentMoves ==
  ASSUME RInv, NEW t \in R!Thread, NEW success \in BOOLEAN, R!Send_LoRa_Payload(t, success)
  PROVE  \E p : Moves(t, p)
<1> DEFINE q == publisher[t]
<1> DEFINE p == [R!Idle EXCEPT !.at = "accepted", !.stream = q.stream]
<1>1. q.stream \in R!Stream
  BY DEF RInv, ReportPublisher
<1>2. publisher' = [publisher EXCEPT ![t] = IF success THEN p ELSE R!Idle]
  BY DEF R!Send_LoRa_Payload, R!Go
<1> HIDE DEF q
<1>3. p \in ReportPublisher /\ Told(p)
  BY <1>1, IdleReport, UpdatedStream DEF ReportPublisher, ReportPoint, Told
<1> HIDE DEF p
<1> QED BY <1>2, <1>3, IdleReport DEF Moves

LEMMA MarkedMoves ==
  ASSUME RInv, NEW t \in R!Thread, R!Mark_Published(t)
  PROVE  \E p : Moves(t, p)
<1> DEFINE q == publisher[t]
<1> DEFINE p == [q EXCEPT !.at = "marked"]
<1>1. q \in ReportPublisher /\ Told(q) /\ "marked" \in ReportPoint
  BY DEF RInv, ReportPoint
<1>2. publisher' = [publisher EXCEPT ![t] = p]
  BY DEF R!Mark_Published, R!Go
<1> HIDE DEF q
<1>3. p \in ReportPublisher /\ Told(p)
  BY <1>1, UpdatedPoint DEF ReportPublisher, Told
<1> HIDE DEF p
<1> QED BY <1>2, <1>3 DEF Moves

\* What a publish does to the rest.
LEMMA PublishRest ==
  ASSUME R!ConstantsAssumption, RInv,
         \/ \E s \in R!Stream : R!Publish_Thread_Due(s) \/ R!HTTP_Endpoint_publish(s)
         \/ \E t \in R!Thread : R!Publish(t)
  PROVE  ReportTypes' /\ Ordered(interval')
<1>1. R!NoVehicles \in Interval /\ Ordered(R!NoVehicles)
  BY DEF R!NoVehicles, Interval, Ordered, R!ConstantsAssumption
<1>2. 0 \in 0 .. MaxPeak
  BY DEF R!ConstantsAssumption
<1>3. CASE \E s \in R!Stream : R!Publish_Thread_Due(s) \/ R!HTTP_Endpoint_publish(s)
  BY <1>3 DEF RInv, ReportTypes, R!Publish_Thread_Due, R!HTTP_Endpoint_publish, R!settings
<1>4. ASSUME NEW t \in R!Thread, R!Publish(t)
      PROVE  ReportTypes' /\ Ordered(interval')
  <2>1. CASE R!Mark_Published(t)
    BY <1>1, <1>2, <2>1 DEF RInv, ReportTypes, R!Mark_Published, R!settings
  <2>2. CASE R!Publish_Finish(t)
    BY <2>2 DEF RInv, ReportTypes, R!Publish_Finish, R!Rescheduled, R!settings
  <2>3. CASE \/ R!Publish_Start(t) \/ R!Publish_Build(t)
             \/ R!Send_LoRa_Payload(t, TRUE) \/ R!Send_LoRa_Payload(t, FALSE)
    BY <2>3 DEF RInv, ReportTypes, R!Publish_Start, R!Publish_Build, R!Send_LoRa_Payload,
                R!settings
  <2> QED BY <1>4, <2>1, <2>2, <2>3 DEF R!Publish
<1> QED BY <1>3, <1>4

LEMMA PublishKeeps ==
  ASSUME R!ConstantsAssumption, RInv,
         \/ \E s \in R!Stream : R!Publish_Thread_Due(s) \/ R!HTTP_Endpoint_publish(s)
         \/ \E t \in R!Thread : R!Publish(t)
  PROVE  RInv'
<1>1. \E t \in R!Thread : \E p : Moves(t, p)
  <2>1. CASE \E s \in R!Stream : R!Publish_Thread_Due(s) \/ R!HTTP_Endpoint_publish(s)
    BY <2>1, CalledMoves DEF R!Thread
  <2>2. ASSUME NEW t \in R!Thread, R!Publish(t)
        PROVE  \E p : Moves(t, p)
    <3>1. CASE R!Publish_Finish(t)
      BY <3>1, IdleReport DEF Moves, R!Publish_Finish, R!Go
    <3> QED BY <2>2, <3>1, StartMoves, BuiltMoves, SentMoves, MarkedMoves DEF R!Publish
  <2> QED BY <2>1, <2>2
<1>2. publisher' \in [R!Thread -> ReportPublisher] /\ \A u \in R!Thread : Told(publisher'[u])
  BY <1>1, UpdatedReport DEF Moves
<1> QED BY <1>2, PublishRest DEF RInv, Told

LEMMA ReportStepKeeps ==
  ASSUME R!ConstantsAssumption, RInv, [R!Next]_(R!vars)
  PROVE  RInv'
<1>1. CASE R!Next
  BY <1>1, RecordKeeps, PublishKeeps DEF R!Next
<1>2. CASE UNCHANGED R!vars
  BY <1>2 DEF R!vars, R!settings, RInv, ReportTypes, Told
<1> QED BY <1>1, <1>2

LEMMA ReportsHold ==
  ASSUME R!ConstantsAssumption
  PROVE  R!Spec => []RInv
<1>1. R!Init => RInv
  BY ReportsStart
<1>2. RInv /\ [R!Next]_(R!vars) => RInv'
  BY ReportStepKeeps
<1> QED BY <1>1, <1>2, PTL DEF R!Spec

\* For all units, limits, speeds and counts: every speed summary makes sense, in either
\* unit and after rounding and saturation; an alert that ended is not pending; and the
\* status page never announces an uplink for later that is due now.
THEOREM SummariesHold ==
  ASSUME R!ConstantsAssumption, A!ConstantsAssumption
  PROVE  R!Spec /\ A!Spec => []RadarSound
<1>1. RInv /\ AInv => RadarSound
  BY ReportsTyped, AlertTyped, NextTimeRight DEF RadarSound, AInv
<1> QED BY <1>1, ReportsHold, AlertHolds, PTL
=============================================================================
