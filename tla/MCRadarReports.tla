---------------------------- MODULE MCRadarReports ----------------------------
(***************************************************************************)
(* The radar's periodic reports, its alert and its downlinks, for TLC.     *)
(* The modules share no variable: each has a mutex and state of its own in *)
(* the code.  One run checks them one at a time: subject says which one    *)
(* moves, the others stay in their initial states.                         *)
(***************************************************************************)
EXTENDS RadarUplinks

VARIABLE subject

ASSUME R!ConstantsAssumption /\ A!ConstantsAssumption
ASSUME ConstantsAssumption /\ Q!ConstantsAssumption

MCvars == <<subject, rvars, avars, vars>>

MCInit ==
  /\ subject \in {"reports", "alert", "downlinks"} /\ R!Init /\ A!Init /\ Init
  /\ subject # "alert" => allowed
  /\ subject # "downlinks" => sensitivity = "low"

MCNext ==
  \/ subject = "reports" /\ R!Next /\ UNCHANGED <<subject, avars, vars>>
  \/ subject = "alert" /\ A!Next /\ UNCHANGED <<subject, rvars, vars>>
  \/ subject = "downlinks" /\ Next /\ UNCHANGED <<subject, rvars, avars>>

MCSpec == MCInit /\ [][MCNext]_MCvars

\* Time passes, the radar goes on, a publish ends, and of the publish thread's
\* uplinks of each kind that are attempted again and again some are accepted.
PT == "Publish_Thread"
ReportPublished(t) == subject = "reports" /\ R!Publish(t) /\ UNCHANGED <<subject, avars, vars>>
ReportTime(s) == subject = "reports" /\ R!TimePasses(s) /\ UNCHANGED <<subject, avars, vars>>
ReportDue(s) == subject = "reports" /\ R!Publish_Thread_Due(s) /\ UNCHANGED <<subject, avars, vars>>
ReportAccepted(s) ==
  /\ subject = "reports" /\ publisher[PT].stream = s
  /\ R!Send_LoRa_Payload(PT, TRUE) /\ UNCHANGED <<subject, avars, vars>>
AlertPublished(t) == subject = "alert" /\ A!Publish_Alert_To_LoRa(t) /\ UNCHANGED <<subject, rvars, vars>>
AlertTime == subject = "alert" /\ A!TimePasses /\ UNCHANGED <<subject, rvars, vars>>
AlertFrame == subject = "alert" /\ A!Frame /\ UNCHANGED <<subject, rvars, vars>>
AlertDue == subject = "alert" /\ A!Decide(PT) /\ UNCHANGED <<subject, rvars, vars>>
HeartbeatAccepted ==
  /\ subject = "alert" /\ alert_publisher[PT].heartbeat
  /\ A!Send_LoRa_Payload_Accepted(PT) /\ UNCHANGED <<subject, rvars, vars>>
Fairness ==
  /\ WF_MCvars(ReportPublished(PT)) /\ WF_MCvars(ReportPublished("FCGI"))
  /\ \A s \in {"occupancy", "speed"} :
       WF_MCvars(ReportTime(s)) /\ SF_MCvars(ReportDue(s)) /\ SF_MCvars(ReportAccepted(s))
  /\ WF_MCvars(AlertPublished(PT)) /\ WF_MCvars(AlertPublished("FCGI"))
  /\ WF_MCvars(AlertTime) /\ WF_MCvars(AlertFrame) /\ SF_MCvars(AlertDue)
  /\ SF_MCvars(HeartbeatAccepted)

MCFairSpec == MCSpec /\ Fairness
-----------------------------------------------------------------------------
\* The properties, commented where they are stated.
PublishRecurs == subject = "reports" => R!PublishRecurs
InactiveHeard == subject = "alert" => A!InactiveHeard
=============================================================================
