----------------------- MODULE DetectxOccupancyProofs ----------------------
(***************************************************************************)
(* Proofs about DetectxOccupancy, for any labels, selections, counts,      *)
(* token width and number of settings changes.                             *)
(***************************************************************************)
EXTENDS DetectxOccupancy, SequenceTheorems, TLAPS

(***************************************************************************)
(* Facts about the helpers.                                                *)
(***************************************************************************)

LEMMA Bounds ==
  /\ MaxCount \in Nat /\ MaxByte \in Nat /\ MaxSettings \in Nat
  /\ MaxToken \in Nat /\ 0 \in 0 .. MaxToken /\ 1 \in 1 .. MaxToken
  BY ConstantsAssumption

\* A running maximum stays the peak when a count is recorded (occupancy.c:80).
LEMMA PeakRecord ==
  ASSUME NEW S \in SUBSET Count, NEW m \in 0 .. MaxCount, NEW c \in 0 .. MaxCount,
         Interval!IsPeak(m, S)
  PROVE  Interval!IsPeak(Larger(m, c), S \cup ({c} \cap Count))
  BY ConstantsAssumption DEF Interval!IsPeak, Larger, Count

\* The larger of two peaks is the peak of the merged intervals (occupancy.c:137-138).
LEMMA PeakMerge ==
  ASSUME NEW S \in SUBSET Count, NEW T \in SUBSET Count,
         NEW m \in 0 .. MaxCount, NEW n \in 0 .. MaxCount,
         Interval!IsPeak(m, S), Interval!IsPeak(n, T)
  PROVE  Interval!IsPeak(Larger(n, m), S \cup T)
  BY ConstantsAssumption DEF Interval!IsPeak, Larger, Count

\* An interval that peaks at 0 holds no detection.
LEMMA PeakZero ==
  ASSUME NEW S \in SUBSET Count, Interval!IsPeak(0, S)
  PROVE  S = {}
  BY ConstantsAssumption DEF Interval!IsPeak, Count

LEMMA LargerType ==
  ASSUME NEW m \in 0 .. MaxCount, NEW n \in 0 .. MaxCount
  PROVE  Larger(m, n) \in 0 .. MaxCount
  BY DEF Larger

\* next_token never becomes 0, the value Finish refuses (occupancy.c:112, 129).
LEMMA NextTokenType ==
  ASSUME NEW t \in 1 .. MaxToken
  PROVE  NextToken(t) \in 1 .. MaxToken
  BY ConstantsAssumption DEF NextToken

LEMMA ConfiguredType ==
  ASSUME NEW list \in Configured
  PROVE  list \in Seq(Label)
  <1>1. CASE list = <<>>
    BY <1>1
  <1>2. CASE list \in Selection
    BY <1>2, ConstantsAssumption
  <1>. QED  BY <1>1, <1>2 DEF Configured

LEMMA FunctionIsSeq ==
  ASSUME NEW S, NEW n \in Nat, NEW f \in [1 .. n -> S]
  PROVE  f \in Seq(S) /\ Len(f) = n
  <1>1. f \in Seq(S)
    BY SeqDef
  <1>2. Len(f) \in Nat /\ 1 .. Len(f) = 1 .. n
    BY <1>1, LenProperties
  <1>. QED  BY <1>1, <1>2

\* A payload has one byte per selected label.
LEMMA PayloadType ==
  ASSUME NEW s \in Snapshot
  PROVE  /\ Occupancy_Build_Payload(s) \in Seq(0 .. MaxByte)
         /\ Len(Occupancy_Build_Payload(s)) = Len(s.labels)
  <1>1. s.labels \in Seq(Label) /\ s.maxima \in [Label -> 0 .. MaxCount]
    BY ConfiguredType DEF Snapshot, Frame
  <1>2. \A i \in DOMAIN s.labels : Clamp(s.maxima[s.labels[i]]) \in 0 .. MaxByte
    BY <1>1, ConstantsAssumption DEF Clamp
  <1>3. Occupancy_Build_Payload(s) \in [1 .. Len(s.labels) -> 0 .. MaxByte]
    BY <1>1, <1>2 DEF Occupancy_Build_Payload
  <1>. QED  BY <1>1, <1>3, LenProperties, FunctionIsSeq

LEMMA NoSnapshotType == NoSnapshot \in Snapshot
  BY ConstantsAssumption DEF NoSnapshot, Snapshot, Configured, Frame, Zero

LEMMA ZeroType == Zero \in Frame /\ NoFrames \in [Label -> SUBSET Count]
  BY ConstantsAssumption DEF Zero, Frame, NoFrames

USE DEF Publisher, Publish_Thread, FCGI
-----------------------------------------------------------------------------
(***************************************************************************)
(* Type correctness.                                                       *)
(***************************************************************************)
LEMMA InitType == Init => TypeOK
  <1>. SUFFICES ASSUME Init PROVE TypeOK
    OBVIOUS
  <1>1. labels \in Configured
    BY DEF Init, Configured
  <1>2. request \in Configured
    BY DEF Init, Configured
  <1>3. payload \in [Publisher -> Seq(0 .. MaxByte)]
    BY DEF Init
  <1>4. settings \in 0 .. MaxSettings
    BY ConstantsAssumption DEF Init
  <1>5. next_token \in 1 .. MaxToken /\ pending_token \in 0 .. MaxToken
    BY ConstantsAssumption DEF Init
  <1>. QED
    BY <1>1, <1>2, <1>3, <1>4, <1>5, ZeroType, NoSnapshotType
    DEF Init, TypeOK, ProgramPoint, Labels_Are_Valid

LEMMA NextType == TypeOK /\ [Next]_vars => TypeOK'
  <1>. SUFFICES ASSUME TypeOK, [Next]_vars PROVE TypeOK'
    OBVIOUS
  <1>. USE DEF TypeOK, ProgramPoint, aggregator, schedule, local, history
  <1>1. ASSUME NEW frame \in Frame, Occupancy_Record_Frame(frame) PROVE TypeOK'
    <2>1. maxima' \in Frame
      BY <1>1, LargerType DEF Occupancy_Record_Frame, Frame
    <2>2. open' \in [Label -> SUBSET Count]
      BY <1>1 DEF Occupancy_Record_Frame
    <2>. QED  BY <1>1, <2>1, <2>2 DEF Occupancy_Record_Frame
  <1>2. CASE IntervalElapses
    BY <1>2 DEF IntervalElapses
  <1>3. ASSUME NEW list \in Selection, NEW enabled \in BOOLEAN, NEW rescheduled \in BOOLEAN,
               Configure_Occupancy(list, enabled, rescheduled)
        PROVE  TypeOK'
    <2>1. settings' \in 0 .. MaxSettings
      BY <1>3, ConstantsAssumption DEF Configure_Occupancy
    <2>2. g_selection_valid' \in BOOLEAN /\ g_publish_enabled' \in BOOLEAN
            /\ intervalElapsed' \in BOOLEAN
      BY <1>3 DEF Configure_Occupancy, Labels_Are_Valid
    <2>3. request' \in Configured
      BY <1>3 DEF Configure_Occupancy, Configured
    <2>4. pc' \in [Publisher -> ProgramPoint]
      BY <1>3 DEF Configure_Occupancy
    <2>. QED  BY <1>3, <2>1, <2>2, <2>3, <2>4 DEF Configure_Occupancy
  <1>4. CASE Occupancy_Configure
    <2>1. request' \in Configured
      BY <1>4 DEF Occupancy_Configure, Configured
    <2>2. labels' \in Configured
      BY <1>4 DEF Occupancy_Configure, Restart
    <2>3. pc' \in [Publisher -> ProgramPoint]
      BY <1>4 DEF Occupancy_Configure
    <2>4. /\ maxima' \in Frame /\ pending' \in Frame /\ last_published' \in Frame
          /\ open' \in [Label -> SUBSET Count] /\ detached' \in [Label -> SUBSET Count]
      BY <1>4, ZeroType DEF Occupancy_Configure, Restart
    <2>5. /\ next_token' \in 1 .. MaxToken /\ pending_token' \in 0 .. MaxToken
          /\ publish_in_flight' \in BOOLEAN /\ intervalElapsed' \in BOOLEAN
      <3>1. CASE request = labels /\ UNCHANGED <<aggregator, intervalElapsed, history>>
        BY <3>1
      <3>2. CASE Restart(request) /\ intervalElapsed' = FALSE
        <4>1. UNCHANGED next_token /\ pending_token' = 0
          BY <3>2 DEF Restart
        <4>2. publish_in_flight' = FALSE /\ intervalElapsed' = FALSE
          BY <3>2 DEF Restart
        <4>. QED  BY <4>1, <4>2, Bounds
      <3>. QED  BY <1>4, <3>1, <3>2 DEF Occupancy_Configure
    <2>. QED  BY <1>4, <2>1, <2>2, <2>3, <2>4, <2>5 DEF Occupancy_Configure
  <1>5. CASE B100_Downlink_Handler_Interval
    <2>1. settings' \in 0 .. MaxSettings
      BY <1>5, Bounds DEF B100_Downlink_Handler_Interval
    <2>2. intervalElapsed' \in BOOLEAN
      BY <1>5 DEF B100_Downlink_Handler_Interval
    <2>. QED  BY <1>5, <2>1, <2>2 DEF B100_Downlink_Handler_Interval
  <1>6. CASE Publish_Thread_Due
    BY <1>6 DEF Publish_Thread_Due
  <1>7. CASE Endpoint_Publish
    BY <1>7 DEF Endpoint_Publish
  <1>8. ASSUME NEW p \in Publisher, Publish_Allowed(p) PROVE TypeOK'
    BY <1>8 DEF Publish_Allowed
  <1>9. ASSUME NEW p \in Publisher, Occupancy_Begin_Publish(p) PROVE TypeOK'
    <2>1. CASE ~CanBegin
      BY <1>9, <2>1 DEF Occupancy_Begin_Publish
    <2>2. CASE CanBegin
      <3>1. [token |-> next_token, labels |-> labels, maxima |-> maxima] \in Snapshot
        BY ConstantsAssumption DEF Snapshot
      <3>2. snapshot' \in [Publisher -> Snapshot]
        BY <1>9, <2>2, <3>1 DEF Occupancy_Begin_Publish
      <3>3. next_token' \in 1 .. MaxToken /\ pending_token' \in 0 .. MaxToken
        BY <1>9, <2>2, NextTokenType, ConstantsAssumption DEF Occupancy_Begin_Publish
      <3>. QED  BY <1>9, <2>2, <3>2, <3>3, ZeroType DEF Occupancy_Begin_Publish
    <2>. QED  BY <2>1, <2>2
  <1>10. ASSUME NEW p \in Publisher, NEW taken \in BOOLEAN, NEW answered \in BOOLEAN,
                B100_Send_Bytes(p, taken, answered)
         PROVE  TypeOK'
    <2>1. payload' \in [Publisher -> Seq(0 .. MaxByte)]
      <3>1. Occupancy_Build_Payload(snapshot[p]) \in Seq(0 .. MaxByte)
        BY PayloadType
      <3>2. <<>> \in Seq(0 .. MaxByte)
        OBVIOUS
      <3>3. \E bytes \in Seq(0 .. MaxByte) : payload' = [payload EXCEPT ![p] = bytes]
        BY <1>10, <3>1, <3>2, Zenon DEF B100_Send_Bytes
      <3>. QED  BY <3>3
    <2>2. success' \in [Publisher -> BOOLEAN]
      BY <1>10, Zenon DEF B100_Send_Bytes
    <2>3. pc' \in [Publisher -> ProgramPoint]
      BY <1>10 DEF B100_Send_Bytes
    <2>. QED  BY <1>10, <2>1, <2>2, <2>3 DEF B100_Send_Bytes
  <1>11. ASSUME NEW p \in Publisher, Occupancy_Finish_Publish(p) PROVE TypeOK'
    <2>1. /\ snapshot' \in [Publisher -> Snapshot] /\ success' \in [Publisher -> BOOLEAN]
          /\ pc' \in [Publisher -> ProgramPoint]
          /\ payload' \in [Publisher -> Seq(0 .. MaxByte)]
      BY <1>11, NoSnapshotType DEF Occupancy_Finish_Publish
    <2>2. CASE ~Answers(p)
      BY <1>11, <2>1, <2>2 DEF Occupancy_Finish_Publish
    <2>3. CASE Answers(p)
      <3>1. maxima' \in Frame
        BY <1>11, <2>3, LargerType DEF Occupancy_Finish_Publish, Merged, Frame
      <3>2. open' \in [Label -> SUBSET Count]
        BY <1>11, <2>3 DEF Occupancy_Finish_Publish
      <3>3. last_published' \in Frame
        BY <1>11, <2>3 DEF Occupancy_Finish_Publish
      <3>4. pending_token' \in 0 .. MaxToken
        BY <1>11, <2>3, ConstantsAssumption DEF Occupancy_Finish_Publish
      <3>. QED
        BY <1>11, <2>1, <2>3, <3>1, <3>2, <3>3, <3>4, ZeroType DEF Occupancy_Finish_Publish
    <2>. QED  BY <2>2, <2>3
  <1>12. ASSUME NEW p \in Publisher, Reschedule(p) PROVE TypeOK'
    BY <1>12 DEF Reschedule
  <1>13. CASE UNCHANGED vars
    BY <1>13 DEF vars
  <1>. QED
    BY <1>1, <1>2, <1>3, <1>4, <1>5, <1>6, <1>7, <1>8, <1>9, <1>10, <1>11, <1>12, <1>13
    DEF Next, Publish_Occupancy

\* Every variable keeps its type: no label outside the model is ever configured, no
\* token wraps to 0, no count exceeds what a frame can hold.
THEOREM TypeCorrect == Spec => []TypeOK
  BY InitType, NextType, PTL DEF Spec
-----------------------------------------------------------------------------
(***************************************************************************)
(* The inductive invariant.  OneOwner is not inductive by itself: that no  *)
(* two uplinks own the slot rests on the tokens of all the uplinks under   *)
(* way, also those whose interval a new selection has dropped.             *)
(***************************************************************************)
Tokens ==
  \A p \in Publisher : Publishing(p) =>
    /\ snapshot[p].token # 0
    /\ \A q \in Publisher :
         Publishing(q) /\ snapshot[q].token = snapshot[p].token => q = p

Owned ==
  publish_in_flight =>
    \E p \in Publisher : /\ Publishing(p)
                         /\ snapshot[p].token = pending_token
                         /\ snapshot[p].labels = labels
                         /\ snapshot[p].maxima = pending

Settled == ~publish_in_flight => pending_token = 0 /\ pending = Zero

\* What the bridge acknowledged is what the snapshot says.
Sent ==
  \A p \in Publisher :
    pc[p] = "answered" /\ success[p] => payload[p] = Occupancy_Build_Payload(snapshot[p])

IInv == TypeOK /\ Tokens /\ Owned /\ Settled /\ PeakExact /\ Sent

LEMMA IInvOneOwner == IInv => OneOwner
  BY DEF IInv, Tokens, Owned, Settled, OneOwner, Owns

LEMMA InitIInv == Init => IInv
  <1>. SUFFICES ASSUME Init PROVE IInv
    OBVIOUS
  <1>1. TypeOK
    BY InitType
  <1>2. Tokens /\ Owned /\ Settled /\ Sent
    BY DEF Init, Tokens, Owned, Settled, Sent, Publishing
  <1>3. PeakExact
    BY DEF Init, PeakExact, Interval!IsPeak, Zero, NoFrames
  <1>. QED  BY <1>1, <1>2, <1>3 DEF IInv

\* A step that moves no publisher into or out of its uplink and leaves the
\* aggregator alone.
LEMMA IdleStep ==
  ASSUME IInv, TypeOK',
         UNCHANGED <<labels, maxima, pending, pending_token, publish_in_flight,
                     snapshot, success, payload, open, detached>>,
         \A p \in Publisher : /\ Publishing(p)' <=> Publishing(p)
                              /\ pc'[p] = "answered" => pc[p] = "answered"
  PROVE  IInv'
  <1>1. Tokens' /\ Owned' /\ Settled'
    BY DEF IInv, Tokens, Owned, Settled
  <1>2. Sent'
    BY DEF IInv, Sent, Occupancy_Build_Payload
  <1>3. PeakExact'
    BY DEF IInv, PeakExact, Interval!IsPeak
  <1>. QED  BY <1>1, <1>2, <1>3 DEF IInv

LEMMA RecordIInv ==
  ASSUME IInv, TypeOK', NEW frame \in Frame, Occupancy_Record_Frame(frame)
  PROVE  IInv'
  <1>1. Tokens' /\ Owned' /\ Settled' /\ Sent'
    BY DEF IInv, Tokens, Owned, Settled, Sent, Publishing, Occupancy_Record_Frame, local,
           Occupancy_Build_Payload
  <1>2. PeakExact'
    <2>. SUFFICES ASSUME NEW l \in Label
                  PROVE  Interval!IsPeak(maxima'[l], open'[l])
                         /\ Interval!IsPeak(pending'[l], detached'[l])
      BY DEF PeakExact, Interval!IsPeak
    <2>1. /\ open[l] \in SUBSET Count /\ maxima[l] \in 0 .. MaxCount
          /\ frame[l] \in 0 .. MaxCount /\ Interval!IsPeak(maxima[l], open[l])
      BY DEF IInv, TypeOK, Frame, PeakExact
    <2>2. CASE l \in Selected(labels)
      <3>1. /\ maxima'[l] = Larger(maxima[l], frame[l])
            /\ open'[l] = open[l] \cup ({frame[l]} \cap Count)
        BY <2>2 DEF Occupancy_Record_Frame
      <3>2. Interval!IsPeak(maxima'[l], open'[l])
        BY <2>1, <3>1, PeakRecord
      <3>. QED  BY <3>2 DEF IInv, PeakExact, Occupancy_Record_Frame
    <2>3. CASE l \notin Selected(labels)
      BY <2>1, <2>3 DEF IInv, PeakExact, Occupancy_Record_Frame
    <2>. QED  BY <2>2, <2>3
  <1>. QED  BY <1>1, <1>2 DEF IInv

LEMMA ConfigureIInv ==
  ASSUME IInv, TypeOK', Occupancy_Configure
  PROVE  IInv'
  <1>0. /\ UNCHANGED <<snapshot, success, payload>>
        /\ pc' = [pc EXCEPT ![FCGI] = "idle"] /\ pc[FCGI] = "configure"
        /\ pc \in [Publisher -> ProgramPoint]
    BY DEF Occupancy_Configure, IInv, TypeOK
  <1>1. /\ \A p \in Publisher : Publishing(p)' <=> Publishing(p)
        /\ \A p \in Publisher : pc'[p] = "answered" => pc[p] = "answered"
    BY <1>0 DEF Publishing
  <1>2. CASE UNCHANGED <<aggregator, history>>
    BY <1>0, <1>1, <1>2, IdleStep DEF aggregator, history
  <1>3. CASE Restart(request)
    <2>1. Tokens' /\ Owned' /\ Settled'
      BY <1>0, <1>1, <1>3 DEF IInv, Tokens, Owned, Settled, Restart, Zero
    <2>2. Sent'
      BY <1>0, <1>1 DEF IInv, Sent, Occupancy_Build_Payload
    <2>3. PeakExact'
      BY <1>3 DEF PeakExact, Interval!IsPeak, Restart, Zero, NoFrames
    <2>. QED  BY <2>1, <2>2, <2>3 DEF IInv
  <1>. QED  BY <1>2, <1>3 DEF Occupancy_Configure

LEMMA BeginIInv ==
  ASSUME IInv, TypeOK', NEW p \in Publisher, Occupancy_Begin_Publish(p)
  PROVE  IInv'
  <1>0. pc[p] = "begin" /\ pc \in [Publisher -> ProgramPoint]
        /\ snapshot \in [Publisher -> Snapshot] /\ UNCHANGED <<success, payload>>
    BY DEF Occupancy_Begin_Publish, IInv, TypeOK
  <1>1. CASE ~CanBegin
    <2>1. \A q \in Publisher : /\ Publishing(q)' <=> Publishing(q)
                               /\ pc'[q] = "answered" => pc[q] = "answered"
      BY <1>0, <1>1 DEF Occupancy_Begin_Publish, Publishing
    <2>. QED  BY <1>0, <1>1, <2>1, IdleStep DEF Occupancy_Begin_Publish, aggregator, history
  <1>2. CASE CanBegin
    <2>1. /\ TokenWindow(p)
          /\ pc' = [pc EXCEPT ![p] = "sending"]
          /\ snapshot' = [snapshot EXCEPT ![p] =
                            [token |-> next_token, labels |-> labels, maxima |-> maxima]]
          /\ pending_token' = next_token /\ publish_in_flight' = TRUE
          /\ pending' = maxima /\ maxima' = Zero
          /\ detached' = open /\ open' = NoFrames /\ labels' = labels
      BY <1>2 DEF Occupancy_Begin_Publish
    <2>2. /\ snapshot'[p] = [token |-> next_token, labels |-> labels, maxima |-> maxima]
          /\ Publishing(p)' /\ pc'[p] = "sending"
          /\ \A q \in Publisher \ {p} : /\ snapshot'[q] = snapshot[q] /\ pc'[q] = pc[q]
                                        /\ Publishing(q)' <=> Publishing(q)
      BY <1>0, <2>1 DEF Publishing
    <2>3. next_token # 0
      BY Bounds DEF IInv, TypeOK
    <2>4. Tokens'
      BY <2>1, <2>2, <2>3 DEF IInv, Tokens, TokenWindow
    <2>5. Owned' /\ Settled'
      BY <2>1, <2>2 DEF Owned, Settled
    <2>6. Sent'
      BY <1>0, <2>2 DEF IInv, Sent, Occupancy_Build_Payload
    <2>7. PeakExact'
      BY <2>1 DEF IInv, PeakExact, Interval!IsPeak, Zero, NoFrames
    <2>. QED  BY <2>4, <2>5, <2>6, <2>7 DEF IInv
  <1>. QED  BY <1>1, <1>2

LEMMA SendIInv ==
  ASSUME IInv, TypeOK', NEW p \in Publisher, NEW taken \in BOOLEAN, NEW answered \in BOOLEAN,
         B100_Send_Bytes(p, taken, answered)
  PROVE  IInv'
  <1>0. /\ pc[p] = "sending" /\ pc' = [pc EXCEPT ![p] = "answered"]
        /\ pc \in [Publisher -> ProgramPoint]
        /\ success' = [success EXCEPT ![p] = taken /\ answered]
        /\ success \in [Publisher -> BOOLEAN]
        /\ payload' = [payload EXCEPT ![p] = IF taken
                                             THEN Occupancy_Build_Payload(snapshot[p]) ELSE <<>>]
        /\ payload \in [Publisher -> Seq(0 .. MaxByte)]
        /\ UNCHANGED <<labels, maxima, pending, pending_token, publish_in_flight, snapshot,
                       open, detached>>
    BY DEF B100_Send_Bytes, IInv, TypeOK, aggregator, history
  <1>1. \A q \in Publisher : Publishing(q)' <=> Publishing(q)
    BY <1>0 DEF Publishing
  <1>2. Tokens' /\ Owned' /\ Settled'
    BY <1>0, <1>1 DEF IInv, Tokens, Owned, Settled
  <1>3. Sent'
    <2>. SUFFICES ASSUME NEW q \in Publisher, pc'[q] = "answered", success'[q]
                  PROVE  payload'[q] = Occupancy_Build_Payload(snapshot'[q])
      BY DEF Sent, Occupancy_Build_Payload
    <2>1. CASE q = p
      <3>1. taken
        BY <1>0, <2>1, Zenon
      <3>. QED  BY <1>0, <2>1, <3>1, Zenon
    <2>2. CASE q # p
      BY <1>0, <2>2 DEF IInv, Sent
    <2>. QED  BY <2>1, <2>2
  <1>4. PeakExact'
    BY <1>0 DEF IInv, PeakExact, Interval!IsPeak
  <1>. QED  BY <1>2, <1>3, <1>4 DEF IInv
\* An answer that is not for the publish in flight leaves its owner in place; the
\* owner's own answer leaves the slot empty.
LEMMA FinishIInv ==
  ASSUME IInv, TypeOK', NEW p \in Publisher, Occupancy_Finish_Publish(p)
  PROVE  IInv'
  <1>0. /\ pc[p] = "answered" /\ Publishing(p) /\ ~Publishing(p)'
        /\ \A q \in Publisher \ {p} : /\ snapshot'[q] = snapshot[q] /\ pc'[q] = pc[q]
                                      /\ success'[q] = success[q] /\ payload'[q] = payload[q]
                                      /\ Publishing(q)' <=> Publishing(q)
    <2>1. pc \in [Publisher -> ProgramPoint] /\ snapshot \in [Publisher -> Snapshot]
          /\ success \in [Publisher -> BOOLEAN] /\ payload \in [Publisher -> Seq(0 .. MaxByte)]
      BY DEF IInv, TypeOK
    <2>2. pc[p] = "answered" /\ (pc'[p] = "published" \/ pc'[p] = "idle")
      BY <2>1 DEF Occupancy_Finish_Publish
    <2>. QED  BY <2>1, <2>2 DEF Occupancy_Finish_Publish, Publishing
  <1>1. Tokens'
    BY <1>0 DEF IInv, Tokens
  <1>2. Sent'
    BY <1>0 DEF IInv, Sent, Occupancy_Build_Payload, Publishing
  <1>3. CASE ~Answers(p)
    <2>1. UNCHANGED <<labels, maxima, pending, pending_token, publish_in_flight, open, detached>>
      BY <1>3 DEF Occupancy_Finish_Publish, aggregator, history
    <2>2. Owned' /\ Settled'
      BY <1>0, <1>3, <2>1 DEF IInv, Owned, Settled, Tokens, Answers
    <2>3. PeakExact'
      BY <2>1 DEF IInv, PeakExact, Interval!IsPeak
    <2>. QED  BY <1>1, <1>2, <2>2, <2>3 DEF IInv
  <1>4. CASE Answers(p)
    <2>1. Owned' /\ Settled'
      BY <1>4 DEF Occupancy_Finish_Publish, Answers, Owned, Settled
    <2>2. PeakExact'
      <3>. SUFFICES ASSUME NEW l \in Label
                    PROVE  /\ Interval!IsPeak(maxima'[l], open'[l])
                           /\ Interval!IsPeak(pending'[l], detached'[l])
        BY DEF PeakExact, Interval!IsPeak
      <3>1. /\ open[l] \in SUBSET Count /\ detached[l] \in SUBSET Count
            /\ maxima[l] \in 0 .. MaxCount /\ pending[l] \in 0 .. MaxCount
            /\ Interval!IsPeak(maxima[l], open[l])
            /\ Interval!IsPeak(pending[l], detached[l])
        BY DEF IInv, TypeOK, Frame, PeakExact
      <3>2. pending' = Zero /\ detached' = NoFrames
        BY <1>4 DEF Occupancy_Finish_Publish, Answers
      <3>3. Interval!IsPeak(pending'[l], detached'[l])
        BY <3>2 DEF Interval!IsPeak, Zero, NoFrames
      <3>4. CASE success[p]
        BY <1>4, <3>1, <3>3, <3>4 DEF Occupancy_Finish_Publish, Answers
      <3>5. CASE ~success[p]
        <4>1. /\ maxima'[l] = Larger(pending[l], maxima[l])
              /\ open'[l] = open[l] \cup detached[l]
          BY <1>4, <3>5 DEF Occupancy_Finish_Publish, Answers, Merged
        <4>. QED  BY <3>1, <3>3, <4>1, PeakMerge
      <3>. QED  BY <3>4, <3>5
    <2>. QED  BY <1>1, <1>2, <2>1, <2>2 DEF IInv
  <1>. QED  BY <1>3, <1>4

LEMMA NextIInv == IInv /\ [Next]_vars => IInv'
  <1>. SUFFICES ASSUME IInv, [Next]_vars PROVE IInv'
    OBVIOUS
  <1>0. TypeOK' /\ pc \in [Publisher -> ProgramPoint]
    BY NextType DEF IInv, TypeOK
  <1>. USE DEF aggregator, schedule, local, history
  <1>1. ASSUME NEW frame \in Frame, Occupancy_Record_Frame(frame) PROVE IInv'
    BY <1>0, <1>1, RecordIInv
  <1>2. CASE IntervalElapses
    BY <1>0, <1>2, IdleStep DEF IntervalElapses, Publishing
  <1>3. ASSUME NEW list \in Selection, NEW enabled \in BOOLEAN, NEW rescheduled \in BOOLEAN,
               Configure_Occupancy(list, enabled, rescheduled)
        PROVE  IInv'
    BY <1>0, <1>3, IdleStep DEF Configure_Occupancy, Publishing
  <1>4. CASE Occupancy_Configure
    BY <1>0, <1>4, ConfigureIInv
  <1>5. CASE B100_Downlink_Handler_Interval
    BY <1>0, <1>5, IdleStep DEF B100_Downlink_Handler_Interval, Publishing
  <1>6. CASE Publish_Thread_Due
    BY <1>0, <1>6, IdleStep DEF Publish_Thread_Due, Publishing
  <1>7. CASE Endpoint_Publish
    BY <1>0, <1>7, IdleStep DEF Endpoint_Publish, Publishing
  <1>8. ASSUME NEW p \in Publisher, Publish_Allowed(p) PROVE IInv'
    BY <1>0, <1>8, IdleStep DEF Publish_Allowed, Publishing
  <1>9. ASSUME NEW p \in Publisher, Occupancy_Begin_Publish(p) PROVE IInv'
    BY <1>0, <1>9, BeginIInv
  <1>10. ASSUME NEW p \in Publisher, NEW taken \in BOOLEAN, NEW answered \in BOOLEAN,
                B100_Send_Bytes(p, taken, answered)
         PROVE  IInv'
    BY <1>0, <1>10, SendIInv
  <1>11. ASSUME NEW p \in Publisher, Occupancy_Finish_Publish(p) PROVE IInv'
    BY <1>0, <1>11, FinishIInv
  <1>12. ASSUME NEW p \in Publisher, Reschedule(p) PROVE IInv'
    BY <1>0, <1>12, IdleStep DEF Reschedule, Publishing
  <1>13. CASE UNCHANGED vars
    BY <1>0, <1>13, IdleStep DEF vars, Publishing
  <1>. QED
    BY <1>1, <1>2, <1>3, <1>4, <1>5, <1>6, <1>7, <1>8, <1>9, <1>10, <1>11, <1>12, <1>13
    DEF Next, Publish_Occupancy

LEMMA Invariant == Spec => []IInv
  BY InitIInv, NextIInv, PTL DEF Spec

\* At any moment the detached interval has exactly one owner, and its snapshot is
\* what the aggregator holds; and the types hold.
THEOREM SlotSafe == Spec => []SlotOwned
  <1>1. IInv => SlotOwned
    BY IInvOneOwner DEF IInv, SlotOwned
  <1>. QED  BY <1>1, Invariant, PTL

\* maxima and pending are always the peaks of the frames they stand for.
THEOREM PeaksExact == Spec => []PeakExact
  <1>1. IInv => PeakExact
    BY DEF IInv
  <1>. QED  BY <1>1, Invariant, PTL
-----------------------------------------------------------------------------
(***************************************************************************)
(* What is shown is what was sent.                                         *)
(***************************************************************************)
ShownWasSentStep ==
  last_published' # last_published =>
    \/ labels' # labels
    \/ \E p \in Publisher :
         /\ pc[p] = "answered" /\ success[p]
         /\ Len(payload[p]) = Len(labels)
         /\ \A i \in DOMAIN labels :
              LET peak == last_published'[labels[i]] IN
                \/ payload[p][i] = peak
                \/ payload[p][i] = MaxByte /\ peak > MaxByte

LEMMA FinishShows ==
  ASSUME IInv, NEW p \in Publisher, Occupancy_Finish_Publish(p)
  PROVE  ShownWasSentStep
  <1>. SUFFICES ASSUME last_published' # last_published PROVE ShownWasSentStep
    BY DEF ShownWasSentStep
  <1>1. Answers(p) /\ success[p] /\ last_published' = pending /\ pc[p] = "answered"
    BY DEF Occupancy_Finish_Publish, aggregator
  <1>2. PICK q \in Publisher : /\ Publishing(q)
                               /\ snapshot[q].token = pending_token
                               /\ snapshot[q].labels = labels
                               /\ snapshot[q].maxima = pending
    BY <1>1 DEF IInv, Owned, Answers
  <1>3. q = p
    BY <1>1, <1>2 DEF IInv, Tokens, Answers, Publishing
  <1>4. payload[p] = Occupancy_Build_Payload(snapshot[p]) /\ snapshot[p] \in Snapshot
    BY <1>1 DEF IInv, Sent, TypeOK
  <1>5. Len(payload[p]) = Len(labels)
    BY <1>2, <1>3, <1>4, PayloadType
  <1>6. ASSUME NEW i \in DOMAIN labels
        PROVE  \/ payload[p][i] = last_published'[labels[i]]
               \/ payload[p][i] = MaxByte /\ last_published'[labels[i]] > MaxByte
    <2>1. payload[p][i] = Clamp(pending[labels[i]])
      BY <1>2, <1>3, <1>4 DEF Occupancy_Build_Payload
    <2>. QED  BY <1>1, <2>1 DEF Clamp
  <1>. QED  BY <1>1, <1>5, <1>6 DEF ShownWasSentStep

LEMMA StepShows == IInv /\ [Next]_vars => [ShownWasSentStep]_vars
  <1>. SUFFICES ASSUME IInv, Next PROVE ShownWasSentStep
    OBVIOUS
  <1>1. ASSUME UNCHANGED last_published PROVE ShownWasSentStep
    BY <1>1 DEF ShownWasSentStep
  <1>2. ASSUME NEW p \in Publisher, Occupancy_Finish_Publish(p) PROVE ShownWasSentStep
    BY <1>2, FinishShows
  <1>3. CASE Occupancy_Configure
    <2>1. labels' # labels \/ UNCHANGED last_published
      BY <1>3 DEF Occupancy_Configure, Restart, aggregator
    <2>. QED  BY <2>1, <1>1 DEF ShownWasSentStep
  <1>. QED
    BY <1>1, <1>2, <1>3
    DEF Next, Publish_Occupancy, aggregator, Occupancy_Record_Frame, IntervalElapses,
        Configure_Occupancy, B100_Downlink_Handler_Interval, Publish_Thread_Due,
        Endpoint_Publish, Publish_Allowed, Occupancy_Begin_Publish, B100_Send_Bytes, Reschedule

\* A peak becomes the last published one only through an uplink that the bridge
\* acknowledged with exactly its bytes, however late, lost or stale answers come.
THEOREM Shown == Spec => ShownWasSent
  BY Invariant, StepShows, PTL DEF Spec, ShownWasSent, ShownWasSentStep
-----------------------------------------------------------------------------
(***************************************************************************)
(* The refinement: detectx keeps the promise stated by OccupancyInterval.  *)
(***************************************************************************)

\* Without a publish in flight nothing is detached.
LEMMA NothingDetached ==
  ASSUME IInv, ~publish_in_flight
  PROVE  detached = NoFrames
  <1>1. \A l \in Label : detached[l] \in SUBSET Count /\ Interval!IsPeak(0, detached[l])
    BY DEF IInv, Settled, PeakExact, TypeOK, Zero
  <1>2. \A l \in Label : detached[l] = {}
    BY <1>1, PeakZero
  <1>. QED  BY <1>2 DEF IInv, TypeOK, NoFrames

LEMMA RecordRefines ==
  ASSUME IInv, NEW frame \in Frame, Occupancy_Record_Frame(frame)
  PROVE  Interval!Record
  <1>. DEFINE seen == [l \in Label |-> IF l \in Selected(labels) THEN frame[l] ELSE 0]
  <1>1. seen \in [Label -> 0 .. MaxCount]
    BY Bounds DEF Frame
  <1>2. open' = [l \in Label |-> open[l] \cup ({seen[l]} \cap Count)]
    <2>1. \A l \in Label : l \notin Selected(labels) =>
                             open[l] = open[l] \cup ({seen[l]} \cap Count)
      BY DEF Count
    <2>. QED  BY <2>1 DEF Occupancy_Record_Frame
  <1>3. UNCHANGED <<detached, last_published>>
    BY DEF Occupancy_Record_Frame
  <1>. QED  BY <1>1, <1>2, <1>3 DEF Interval!Record, Interval!Count, Count

LEMMA BeginRefines ==
  ASSUME IInv, NEW p \in Publisher, Occupancy_Begin_Publish(p)
  PROVE  Interval!Detach \/ UNCHANGED <<open, detached, last_published>>
  <1>1. CASE ~CanBegin
    BY <1>1 DEF Occupancy_Begin_Publish, aggregator, history
  <1>2. CASE CanBegin
    <2>1. detached = NoFrames
      BY <1>2, NothingDetached DEF CanBegin
    <2>. QED
      BY <1>2, <2>1 DEF Occupancy_Begin_Publish, Interval!Detach, Interval!NoFrames, NoFrames
  <1>. QED  BY <1>1, <1>2

LEMMA FinishRefines ==
  ASSUME IInv, NEW p \in Publisher, Occupancy_Finish_Publish(p)
  PROVE  Interval!Accept \/ Interval!Reject \/ UNCHANGED <<open, detached, last_published>>
  <1>1. CASE ~Answers(p)
    BY <1>1 DEF Occupancy_Finish_Publish, aggregator, history
  <1>2. CASE Answers(p) /\ success[p]
    <2>1. /\ last_published' = pending /\ detached' = NoFrames /\ UNCHANGED open
      BY <1>2 DEF Occupancy_Finish_Publish, Answers
    <2>2. pending \in [Label -> 0 .. MaxCount]
          /\ \A l \in Label : Interval!IsPeak(pending[l], detached[l])
      BY DEF IInv, TypeOK, Frame, PeakExact
    <2>. QED  BY <2>1, <2>2 DEF Interval!Accept, Interval!NoFrames, NoFrames
  <1>3. CASE Answers(p) /\ ~success[p]
    <2>1. /\ open' = [l \in Label |-> open[l] \cup detached[l]]
          /\ detached' = NoFrames /\ UNCHANGED last_published
      BY <1>3 DEF Occupancy_Finish_Publish, Answers
    <2>. QED  BY <2>1 DEF Interval!Reject, Interval!Merge, Interval!NoFrames, NoFrames
  <1>. QED  BY <1>1, <1>2, <1>3

LEMMA ConfigureRefines ==
  ASSUME Occupancy_Configure
  PROVE  Interval!Reconfigure \/ UNCHANGED <<open, detached, last_published>>
  BY DEF Occupancy_Configure, Restart, aggregator, history, Interval!Reconfigure,
         Interval!NoFrames, NoFrames, Zero

LEMMA StepRefines == IInv /\ [Next]_vars => [Interval!Next]_<<open, detached, last_published>>
  <1>. SUFFICES ASSUME IInv, [Next]_vars
                PROVE  Interval!Next \/ UNCHANGED <<open, detached, last_published>>
    OBVIOUS
  <1>1. ASSUME NEW frame \in Frame, Occupancy_Record_Frame(frame) PROVE Interval!Next
    BY <1>1, RecordRefines DEF Interval!Next
  <1>2. ASSUME NEW p \in Publisher, Occupancy_Begin_Publish(p)
        PROVE  Interval!Next \/ UNCHANGED <<open, detached, last_published>>
    BY <1>2, BeginRefines DEF Interval!Next
  <1>3. ASSUME NEW p \in Publisher, Occupancy_Finish_Publish(p)
        PROVE  Interval!Next \/ UNCHANGED <<open, detached, last_published>>
    BY <1>3, FinishRefines DEF Interval!Next
  <1>4. CASE Occupancy_Configure
    BY <1>4, ConfigureRefines DEF Interval!Next
  <1>5. CASE \/ IntervalElapses
             \/ \E list \in Selection, enabled, rescheduled \in BOOLEAN :
                  Configure_Occupancy(list, enabled, rescheduled)
             \/ B100_Downlink_Handler_Interval
             \/ Publish_Thread_Due
             \/ Endpoint_Publish
             \/ UNCHANGED vars
    BY <1>5 DEF vars, aggregator, history, IntervalElapses, Configure_Occupancy,
                B100_Downlink_Handler_Interval, Publish_Thread_Due, Endpoint_Publish
  <1>6. ASSUME NEW p \in Publisher,
               \/ Publish_Allowed(p)
               \/ \E taken, answered \in BOOLEAN : B100_Send_Bytes(p, taken, answered)
               \/ Reschedule(p)
        PROVE  UNCHANGED <<open, detached, last_published>>
    BY <1>6 DEF aggregator, history, Publish_Allowed, B100_Send_Bytes, Reschedule
  <1>. QED  BY <1>1, <1>2, <1>3, <1>4, <1>5, <1>6 DEF Next, Publish_Occupancy

LEMMA InitRefines == Init => Interval!Init
  BY DEF Init, Interval!Init, Interval!NoFrames, NoFrames, Zero

\* Frames leave the account only with an acknowledged uplink that reports their peak,
\* or with a new label selection (README.md:16).
THEOREM Refinement == Spec => ImplementsInterval
  <1>1. Spec => [][Interval!Next]_<<open, detached, last_published>>
    BY Invariant, StepRefines, PTL DEF Spec
  <1>. QED  BY <1>1, InitRefines, PTL DEF Spec, ImplementsInterval, Interval!Spec, Interval!vars
=============================================================================
