---------------------------- MODULE MCAoaFeatures ----------------------------
(***************************************************************************)
(* The three streams of the aoa app, for TLC.  One run checks them one at  *)
(* a time: subject says which one moves, the others stay in their initial  *)
(* states.                                                                 *)
(***************************************************************************)
EXTENDS AoaStreams, TLC

CONSTANT Subject

VARIABLE subject

\* A class counts up to a few, or overflows the byte.
Counts(min, average, max) == [min |-> min, average |-> average, max |-> max]
MCClass == <<"human", "car">>
MCSample == {("human" :> Counts(0, 1, 2)) @@ ("car" :> Counts(1, 1, 300)),
             ("human" :> Counts(1, 2, 3)) @@ ("car" :> Counts(0, 0, 0))}
MCSelection == {[classes |-> {"human", "car"}, value |-> "max"],
                [classes |-> {"car"}, value |-> "min"]}
MCDefault == [classes |-> {"human", "car"}, value |-> "average"]

\* One area is cleared at once, the other after twice its delay.
MCDelay == ("hall" :> 0) @@ ("yard" :> 1)

ASSUME C!ConstantsAssumption /\ O!ConstantsAssumption /\ ConstantsAssumption

cvars == <<aoa, event, g_counters, file, saving, g_counting_enabled, due, counting_publisher,
           changes, crossings, overtaken, latest>>
ovars == <<g_occupancy, g_occupancy_publish, status, updater, loading, occupancy_settings,
           crossed>>
MCvars == <<subject, cvars, ovars, vars>>

MCInit == subject \in Subject /\ C!Init /\ O!Init /\ Init

Counting == subject = "counting" /\ UNCHANGED <<subject, ovars, vars>>
Occupancy == subject = "occupancy" /\ UNCHANGED <<subject, cvars, vars>>
Presence == subject = "presence" /\ UNCHANGED <<subject, cvars, ovars>>
MCNext ==
  \/ Counting /\ C!Next
  \/ Occupancy /\ O!Next
  \/ Presence /\ Next

MCSpec == MCInit /\ [][MCNext]_MCvars

\* Threads go on and time passes; of the requests to AOA, and of the uplinks, that
\* the publish thread tries again and again some are answered.
CountsOn(t) == Counting /\ C!Publish(t)
ConfigRead(t) ==
  /\ Counting /\ C!Publish_Counters_To_LoRa(t)
  /\ C!Counting_References_Ready \/ counting_publisher'[t].ask # {}
Answered(t) == Counting /\ C!Ask(t, "gate", TRUE)
Accepted(t) == Counting /\ C!B100_Send_Bytes(t, TRUE)
Saved == Counting /\ (\E t \in saving : C!Counting_Save_To_File(t))
EventTaken == Counting /\ (\E minute \in BOOLEAN : C!AOA_Event_Callback(minute))
Sends ==
  /\ Presence
  /\ \/ Publish_Thread \/ Presence_Mark_Published
     \/ \E accepted \in BOOLEAN : B100_Send_Bytes(accepted)
Accepts == Presence /\ B100_Send_Bytes(TRUE)
Fairness ==
  /\ \A t \in {"Publish_Thread", "FCGI"} : WF_MCvars(CountsOn(t))
  /\ SF_MCvars(ConfigRead("Publish_Thread")) /\ SF_MCvars(Answered("Publish_Thread"))
  /\ SF_MCvars(Accepted("Publish_Thread"))
  /\ WF_MCvars(Saved) /\ WF_MCvars(EventTaken)
  /\ WF_MCvars(Sends) /\ SF_MCvars(Accepts)

MCFairSpec == MCSpec /\ Fairness
-----------------------------------------------------------------------------
\* The properties, commented where they are stated.
DecodedAsReported == O!DecodedAsReported
StreamsRecur ==
  /\ subject = "counting" => C!CountingRecurs
  /\ subject = "presence" => PendingEnds
=============================================================================
